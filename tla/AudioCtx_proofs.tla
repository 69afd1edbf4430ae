-------------------------- MODULE AudioCtx_proofs --------------------------
(***************************************************************************)
(* Theorems about AudioCtx.  For any players, binder threads, decoders and *)
(* number of tracks: its type invariant; when the client neither pauses    *)
(* nor resumes, the discipline of ctx->mutex; and, with or without pauses, *)
(* that it implements NativePlay.  For one player, any number of threads   *)
(* that give commands and any number of tracks that each begin with the    *)
(* context at rest: what becomes of the descriptor of each file.  For a    *)
(* player whose tracks do not end and one thread that pauses and resumes:  *)
(* what a pause keeps.                                                     *)
(***************************************************************************)
EXTENDS AudioCtx, TLAPS

AllSteps == PlayerSteps \cup StopSteps \cup BinderSteps

\* What each kind of thread may do, and where audio_stop may return to.
StepOf(t, step) ==
    /\ t \in Players => step \in PlayerSteps \cup StopSteps
    /\ t \in Binders => step \in BinderSteps \cup StopSteps

\* TypeOK, and that a binder thread's audio_stop returns to its caller.
TypeInv == TypeOK /\ \A b \in Binders : ret[b] = "idle"

\* A step that moves one thread to a step of its kind keeps pc well typed.
LEMMA GotoType ==
    ASSUME TypeInv, NEW t \in Threads, NEW step \in AllSteps, StepOf(t, step), Goto(t, step)
    PROVE  /\ \A p \in Players : pc'[p] \in PlayerSteps \cup StopSteps
           /\ \A b \in Binders : pc'[b] \in BinderSteps \cup StopSteps
           /\ pc' \in [Threads -> AllSteps]
<1>1. pc \in [Threads -> AllSteps]
  BY DEF TypeInv, TypeOK, AllSteps
<1>2. pc' = [pc EXCEPT ![t] = step]
  BY DEF Goto
<1>3. pc' \in [Threads -> AllSteps]
  BY <1>1, <1>2
<1>4. ASSUME NEW u \in Threads PROVE pc'[u] = IF u = t THEN step ELSE pc[u]
  BY <1>1, <1>2
<1>5. ASSUME NEW p \in Players PROVE pc'[p] \in PlayerSteps \cup StopSteps
  BY <1>4, <1>5 DEF TypeInv, TypeOK, StepOf, Threads
<1>6. ASSUME NEW b \in Binders PROVE pc'[b] \in BinderSteps \cup StopSteps
  BY <1>4, <1>6 DEF TypeInv, TypeOK, StepOf, Threads
<1> QED BY <1>3, <1>5, <1>6

\* The steps of audio_stop keep the types.
LEMMA StopType ==
    ASSUME TypeInv, NEW t \in Threads, audio_stop(t)
    PROVE  TypeInv'
<1> USE GotoType, ThreadsAssumption
    DEF StepOf, AllSteps, Threads, TypeInv, TypeOK, ctx, local
<1>1. CASE StopCheck(t)
  BY <1>1 DEF StopCheck, PlayerSteps, StopSteps, BinderSteps
<1>2. CASE StopPaused(t)
  BY <1>2 DEF StopPaused, PlayerSteps, StopSteps
<1>3. CASE StopLock(t)
  BY <1>3 DEF StopLock, Lock, PlayerSteps, StopSteps
<1>4. CASE StopClose(t)
  <2>1. hit' \in [Players -> BOOLEAN]
    BY <1>4 DEF StopClose
  <2>2. fds' \subseteq Nat /\ UNCHANGED <<state, mutex, fd, out, halted, ret, codec, how, res, mine, plays>>
    BY <1>4 DEF StopClose, CloseFd
  <2>3. \E step \in {"stopClear", "stopOut"} : Goto(t, step)
    BY <1>4 DEF StopClose
  <2> QED BY <2>1, <2>2, <2>3
      DEF PlayerSteps, PlaySteps, EndSteps, StopSteps, BinderSteps
<1>5. CASE StopClear(t)
  BY <1>5 DEF StopClear, PlayerSteps, StopSteps
<1>6. CASE StopOut(t)
  BY <1>6 DEF StopOut, PlayerSteps, StopSteps
<1>7. CASE StopState(t)
  BY <1>7 DEF StopState, PlayerSteps, StopSteps
<1>8. CASE StopUnlock(t)
  BY <1>8 DEF StopUnlock, Unlock, PlayerSteps, StopSteps, BinderSteps
<1> QED BY <1>1, <1>2, <1>3, <1>4, <1>5, <1>6, <1>7, <1>8 DEF audio_stop

\* So do audioInit and xxxPlay, up to the decoding loop.
LEMMA OpenType ==
    ASSUME TypeInv, NEW p \in Players,
           \/ audioInit(p) \/ Reset(p) \/ OpenFile(p) \/ NoFile(p) \/ HeaderOk(p)
           \/ HeaderBad(p) \/ audio_start(p) \/ StartBad(p) \/ Play(p) \/ Playing(p)
    PROVE  TypeInv'
<1> USE GotoType, ThreadsAssumption
    DEF StepOf, AllSteps, Threads, TypeInv, TypeOK, ctx, local
<1>1. CASE audioInit(p)
  BY <1>1 DEF audioInit, PlayerSteps, StopSteps
<1>2. CASE Reset(p)
  BY <1>2 DEF Reset, PlayerSteps, StopSteps
<1>3. CASE OpenFile(p)
  <2>0. mine[p] \in Nat /\ fd' = mine[p] /\ fds' = fds \cup {mine[p]}
    BY <1>3 DEF OpenFile
  <2>1. fd' \in Nat /\ fds' \subseteq Nat
    <3>1. fds \subseteq Nat
      OBVIOUS
    <3> HIDE DEF TypeInv, TypeOK
    <3> QED BY <2>0, <3>1
  <2>2. UNCHANGED <<state, mutex, out, halted, local>> /\ Goto(p, "header")
    BY <1>3 DEF OpenFile
  <2> QED BY <2>1, <2>2 DEF PlayerSteps, PlaySteps, EndSteps, StopSteps, BinderSteps
<1>4. CASE NoFile(p)
  BY <1>4 DEF NoFile, Return, PlayerSteps, StopSteps
<1>5. CASE HeaderOk(p)
  BY <1>5 DEF HeaderOk, PlayerSteps, StopSteps
<1>6. CASE HeaderBad(p)
  BY <1>6 DEF HeaderBad, Leave, Return, PlayerSteps, StopSteps
<1>7. CASE audio_start(p)
  BY <1>7 DEF audio_start, PlayerSteps, PlaySteps, StopSteps
<1>8. CASE StartBad(p)
  BY <1>8 DEF StartBad, Leave, Return, PlayerSteps, StopSteps
<1>9. CASE Play(p)
  BY <1>9 DEF Play, Lock, PlayerSteps, PlaySteps, StopSteps
<1>10. CASE Playing(p)
  BY <1>10 DEF Playing, Unlock, PlayerSteps, PlaySteps, StopSteps
<1> QED BY <1>1, <1>2, <1>3, <1>4, <1>5, <1>6, <1>7, <1>8, <1>9, <1>10

\* So does the decoding loop.
LEMMA LoopType ==
    ASSUME TypeInv, NEW p \in Players,
           LoopTest(p) \/ Decode(p) \/ WriteLock(p) \/ audio_write(p)
    PROVE  TypeInv'
<1> USE GotoType, ThreadsAssumption
    DEF StepOf, AllSteps, Threads, TypeInv, TypeOK, ctx, local
<1>1. CASE LoopTest(p)
  BY <1>1 DEF LoopTest, PlayerSteps, PlaySteps, EndSteps, StopSteps
<1>2. CASE DecodeData(p)
  BY <1>2 DEF DecodeData, PlayerSteps, PlaySteps, StopSteps
<1>3. CASE DecodeEnd(p)
  BY <1>3 DEF DecodeEnd, PlayerSteps, EndSteps, StopSteps
<1>4. CASE ReadFails(p)
  BY <1>4 DEF ReadFails, PlayerSteps, EndSteps, StopSteps
<1>5. CASE DecodeFails(p)
  BY <1>5 DEF DecodeFails, PlayerSteps, EndSteps, StopSteps
<1>6. CASE AlacBroken(p)
  BY <1>6 DEF AlacBroken, PlayerSteps, EndSteps, StopSteps
<1>7. CASE WriteLock(p)
  BY <1>7 DEF WriteLock, Lock, PlayerSteps, PlaySteps, StopSteps
<1>8. CASE WriteOk(p)
  BY <1>8 DEF WriteOk, Unlock, OutputTakes, PlayerSteps, PlaySteps, StopSteps
<1>9. CASE WriteShort(p)
  BY <1>9 DEF WriteShort, Unlock, PlayerSteps, EndSteps, StopSteps
<1>10. CASE AlacWriteShort(p)
  BY <1>10 DEF AlacWriteShort, Unlock, PlayerSteps, PlaySteps, EndSteps, StopSteps
<1> QED BY <1>1, <1>2, <1>3, <1>4, <1>5, <1>6, <1>7, <1>8, <1>9, <1>10
    DEF Decode, audio_write

\* So does the end of a play.
LEMMA EndType ==
    ASSUME TypeInv, NEW p \in Players,
           \/ Finish(p) \/ FinishPaused(p) \/ FinishLock(p) \/ FinishClose(p)
           \/ FinishClear(p) \/ FinishState(p) \/ FinishUnlock(p) \/ FdCheck(p)
           \/ FdClose(p) \/ FdClear(p) \/ Drain(p) \/ DrainDone(p)
    PROVE  TypeInv'
<1> USE GotoType, ThreadsAssumption
    DEF StepOf, AllSteps, Threads, TypeInv, TypeOK, ctx, local
<1>1. CASE Finish(p)
  BY <1>1 DEF Finish, Ended, Return, PlayerSteps, EndSteps, StopSteps
<1>2. CASE FinishPaused(p)
  BY <1>2 DEF FinishPaused, FirstOfFinish, PlayerSteps, EndSteps, StopSteps
<1>3. CASE FinishLock(p)
  BY <1>3 DEF FinishLock, FirstOfFinish, Lock, PlayerSteps, EndSteps, StopSteps
<1>4. CASE FinishClose(p)
  BY <1>4 DEF FinishClose, CloseFd, PlayerSteps, EndSteps, StopSteps
<1>5. CASE FinishClear(p)
  BY <1>5 DEF FinishClear, PlayerSteps, EndSteps, StopSteps
<1>6. CASE FinishState(p)
  BY <1>6 DEF FinishState, PlayerSteps, EndSteps, StopSteps
<1>7. CASE FinishUnlock(p)
  BY <1>7 DEF FinishUnlock, Unlock, Ended, Return, PlayerSteps, EndSteps, StopSteps
<1>8. CASE FdCheck(p)
  BY <1>8 DEF FdCheck, Return, PlayerSteps, EndSteps, StopSteps
<1>9. CASE FdClose(p)
  BY <1>9 DEF FdClose, CloseFd, PlayerSteps, EndSteps, StopSteps
<1>10. CASE FdClear(p)
  BY <1>10 DEF FdClear, Return, PlayerSteps, StopSteps
<1>11. CASE Drain(p)
  BY <1>11 DEF Drain, Return, PlayerSteps, EndSteps, StopSteps
<1>12. CASE DrainDone(p)
  BY <1>12 DEF DrainDone, Return, PlayerSteps, StopSteps
<1> QED BY <1>1, <1>2, <1>3, <1>4, <1>5, <1>6, <1>7, <1>8, <1>9, <1>10, <1>11, <1>12

\* So do the commands of the binder threads.
LEMMA BinderType ==
    ASSUME TypeInv, NEW b \in Binders,
           BinderCalls(b) \/ BinderWork(b)
    PROVE  TypeInv'
<1> USE GotoType, ThreadsAssumption
    DEF StepOf, AllSteps, Threads, TypeInv, TypeOK, ctx, local
<1>1. CASE audioStop(b)
  BY <1>1 DEF audioStop, PlayerSteps, StopSteps
<1>2. CASE audioPause(b)
  BY <1>2 DEF audioPause, PlayerSteps, StopSteps, BinderSteps
<1>3. CASE PauseLock(b)
  BY <1>3 DEF PauseLock, Lock, PlayerSteps, StopSteps, BinderSteps
<1>4. CASE PauseState(b)
  BY <1>4 DEF PauseState, PlayerSteps, StopSteps, BinderSteps
<1>5. CASE PauseOut(b)
  BY <1>5 DEF PauseOut, PlayerSteps, StopSteps, BinderSteps
<1>6. CASE audioResume(b)
  BY <1>6 DEF audioResume, PlayerSteps, StopSteps, BinderSteps
<1>7. CASE ResumeOut(b)
  BY <1>7 DEF ResumeOut, PlayerSteps, StopSteps, BinderSteps
<1>8. CASE ResumeState(b)
  BY <1>8 DEF ResumeState, PlayerSteps, StopSteps, BinderSteps
<1>9. CASE ResumeUnlock(b)
  BY <1>9 DEF ResumeUnlock, Unlock, PlayerSteps, StopSteps, BinderSteps
<1>10. CASE audioSetVolume(b)
  BY <1>10 DEF audioSetVolume, PlayerSteps, StopSteps, BinderSteps
<1>11. CASE VolumeLock(b)
  BY <1>11 DEF VolumeLock, Lock, PlayerSteps, StopSteps, BinderSteps
<1>12. CASE VolumeUnlock(b)
  BY <1>12 DEF VolumeUnlock, Unlock, PlayerSteps, StopSteps, BinderSteps
<1> QED BY <1>1, <1>2, <1>3, <1>4, <1>5, <1>6, <1>7, <1>8, <1>9, <1>10, <1>11, <1>12
    DEF BinderCalls, BinderWork

\* So every step does.
LEMMA TypeStep ==
    ASSUME TypeInv, [Next]_vars
    PROVE  TypeInv'
<1>1. CASE \E p \in Players : audioInit(p) \/ PlayerWork(p)
  <2> PICK p \in Players : audioInit(p) \/ PlayerWork(p)
    BY <1>1
  <2>1. p \in Threads
    BY DEF Threads
  <2> QED BY <2>1, StopType, OpenType, LoopType, EndType DEF PlayerWork, xxxPlay
<1>2. CASE \E b \in Binders : BinderCalls(b) \/ audio_stop(b) \/ BinderWork(b)
  <2> PICK b \in Binders : BinderCalls(b) \/ audio_stop(b) \/ BinderWork(b)
    BY <1>2
  <2>1. b \in Threads
    BY DEF Threads
  <2> QED BY <2>1, StopType, BinderType
<1>3. CASE UNCHANGED vars
  BY <1>3 DEF vars, ctx, local, TypeInv, TypeOK
<1> QED BY <1>1, <1>2, <1>3 DEF Next

\* AudioCtx's type invariant: every variable of the context and of its threads
\* keeps its range whatever the threads do.
THEOREM AudioTypeCorrect == Spec => []TypeOK
<1>1. Init => TypeInv
  BY ThreadsAssumption DEF Init, TypeInv, TypeOK, Threads, PlayerSteps, BinderSteps
<1>2. TypeInv /\ [Next]_vars => TypeInv'
  BY TypeStep
<1>3. TypeInv => TypeOK
  BY DEF TypeInv
<1> QED BY <1>1, <1>2, <1>3, PTL DEF Spec



---------------------------------------------------------------------------
\* The discipline of ctx->mutex when the client neither pauses nor resumes.

\* A player that will still set the state to STOPPED before it returns.
Active == {"playing", "loop", "decode", "write", "writing", "finish", "finishPaused",
           "finishLock", "finishClose", "finishClear", "finishState"}

\* Who locked the mutex is in a section, and the other way round.
Sections == SectionsAreOwned /\ (mutex # NoOne => pc[mutex] \in Critical)

\* A player that has set the state at its end, and still has the mutex.
Settled(p) ==
    \/ pc[p] = "finishUnlock"
    \/ how[p] # "end" /\ pc[p] \in {"finishClose", "finishClear"}

\* While PLAYING a play goes on that will end it; a settled one keeps STOPPED.
States ==
    /\ state # "PAUSED"
    /\ state = "PLAYING" => \E p \in Players : pc[p] \in Active
    /\ \A p \in Players : Settled(p) => state = "STOPPED"

\* No binder thread is in audioPause or audioResume.
Unpaused == \A b \in Binders : pc[b] \in {"idle", "volumeLock", "volumeUnlock"} \cup StopSteps

MutexInv == TypeInv /\ Sections /\ States /\ Unpaused

\* A step of one thread respects the sections if it locks to enter one, unlocks
\* to leave one, or leaves the mutex and the thread's side of it alone.
LEMMA SectionStep ==
    ASSUME TypeInv, Sections, NEW t \in Threads, NEW step, Goto(t, step),
           \/ mutex = NoOne /\ mutex' = t /\ step \in Critical
           \/ pc[t] \in Critical /\ mutex' = NoOne /\ step \notin Critical
           \/ mutex' = mutex /\ (pc[t] \in Critical <=> step \in Critical)
    PROVE  Sections'
<1>1. ASSUME NEW u \in Threads PROVE pc'[u] = IF u = t THEN step ELSE pc[u]
  BY DEF Goto, TypeInv, TypeOK
<1>2. mutex \in Threads \cup {NoOne} /\ NoOne \notin Threads
  BY ThreadsAssumption DEF TypeInv, TypeOK, Threads
<1>3. \A u \in Threads : pc[u] \in Critical => mutex = u
  BY DEF Sections, SectionsAreOwned
<1>4. mutex # NoOne => pc[mutex] \in Critical
  BY DEF Sections
<1>5. Critical' = Critical
  BY DEF Critical
<1> HIDE DEF Critical
<1>6. CASE mutex = NoOne /\ mutex' = t /\ step \in Critical
  <2>1. ASSUME NEW u \in Threads, pc'[u] \in Critical PROVE mutex' = u
    BY <1>1, <1>2, <1>3, <1>6, <2>1
  <2>2. pc'[t] \in Critical
    BY <1>1, <1>6
  <2> QED BY <1>5, <1>6, <2>1, <2>2 DEF Sections, SectionsAreOwned, Threads
<1>7. CASE pc[t] \in Critical /\ mutex' = NoOne /\ step \notin Critical
  <2>1. ASSUME NEW u \in Threads PROVE pc'[u] \notin Critical
    BY <1>1, <1>2, <1>3, <1>7, <2>1
  <2> QED BY <1>5, <1>7, <2>1 DEF Sections, SectionsAreOwned, Threads
<1>8. CASE mutex' = mutex /\ (pc[t] \in Critical <=> step \in Critical)
  <2>1. ASSUME NEW u \in Threads PROVE pc'[u] \in Critical <=> pc[u] \in Critical
    BY <1>1, <1>8, <2>1
  <2> QED BY <1>2, <1>3, <1>4, <1>5, <1>8, <2>1 DEF Sections, SectionsAreOwned, Threads
<1> QED BY <1>6, <1>7, <1>8

\* A step that leaves the state alone, or stops it, keeps States unless it takes
\* a player out of an active play or past its settling while PLAYING.
LEMMA StatesStep ==
    ASSUME TypeInv, States, NEW t \in Threads, NEW step, Goto(t, step),
           state' \in {state, "STOPPED"}, t \in Players \/ UNCHANGED how,
           \A p \in Players : p # t => how'[p] = how[p],
           t \in Players =>
               \/ state' = "STOPPED"
               \/ /\ pc[t] \in Active => step \in Active
                  /\ step # "finishUnlock"
                  /\ how'[t] # "end" => step \notin {"finishClose", "finishClear"}
    PROVE  States'
<1>1. ASSUME NEW u \in Threads PROVE pc'[u] = IF u = t THEN step ELSE pc[u]
  BY DEF Goto, TypeInv, TypeOK
<1>2. Players \subseteq Threads /\ Binders \subseteq Threads /\ Players \cap Binders = {}
  BY ThreadsAssumption DEF Threads
<1>3. CASE state' = "STOPPED"
  BY <1>3 DEF States
<1>4. CASE state' = state /\ state # "STOPPED"
  <2>1. state' # "PAUSED"
    BY <1>4 DEF States
  <2>2. ASSUME NEW p \in Players, pc[p] \in Active PROVE pc'[p] \in Active
    BY <1>1, <1>2, <1>4, <2>2
  <2>3. (\E p \in Players : pc'[p] \in Active) \/ state' # "PLAYING"
    BY <1>4, <2>2 DEF States
  <2>4. ASSUME NEW p \in Players, Settled(p)' PROVE FALSE
    <3>1. CASE p = t
      BY <1>1, <1>2, <1>4, <2>4, <3>1 DEF Settled
    <3>2. CASE p # t
      BY <1>1, <1>2, <1>4, <2>4, <3>2 DEF Settled, States
    <3> QED BY <3>1, <3>2
  <2> QED BY <2>1, <2>3, <2>4 DEF States, Active
<1> QED BY <1>3, <1>4

\* A binder thread that is not led into a pause stays out of it.
LEMMA UnpausedStep ==
    ASSUME TypeInv, Unpaused, NEW t \in Threads, NEW step, Goto(t, step),
           t \in Binders => step \in {"idle", "volumeLock", "volumeUnlock"} \cup StopSteps
    PROVE  Unpaused'
<1>1. ASSUME NEW u \in Threads PROVE pc'[u] = IF u = t THEN step ELSE pc[u]
  BY DEF Goto, TypeInv, TypeOK
<1> QED BY <1>1 DEF Unpaused, Threads, StopSteps

\* audio_stop keeps the discipline.
LEMMA StopKeeps ==
    ASSUME MutexInv, NEW t \in Threads, audio_stop(t)
    PROVE  Sections' /\ States' /\ Unpaused'
<1> USE SectionStep, StatesStep, UnpausedStep, ThreadsAssumption
    DEF MutexInv, Threads, Active, Critical, StopSteps, ctx, local
<1>a. t \in Threads /\ state # "PAUSED" /\ ret[t] \in {"idle", "reset", "open"} /\
      (t \in Binders => ret[t] = "idle")
  BY DEF TypeInv, TypeOK, States
<1>b. pc[t] \in StopSteps /\ UNCHANGED how /\ (mutex \in Threads \cup {NoOne}) /\
      state \in {"STOPPED", "PLAYING"}
  BY
      DEF audio_stop, StopCheck, StopPaused, StopLock, StopClose, StopClear,
          StopOut, StopState, StopUnlock, TypeInv, TypeOK, States
<1>1. CASE StopCheck(t)
  BY <1>1, <1>a DEF StopCheck
<1>2. CASE StopPaused(t)
  BY <1>2, <1>a DEF StopPaused
<1>3. CASE StopLock(t)
  BY <1>3 DEF StopLock, Lock
<1>4. CASE StopClose(t)
  BY <1>4 DEF StopClose
<1>5. CASE StopClear(t)
  BY <1>5 DEF StopClear
<1>6. CASE StopOut(t)
  BY <1>6 DEF StopOut
<1>7. CASE StopState(t)
  BY <1>7 DEF StopState
<1>8. CASE StopUnlock(t)
  BY <1>8, <1>a DEF StopUnlock, Unlock
<1> QED BY <1>1, <1>2, <1>3, <1>4, <1>5, <1>6, <1>7, <1>8 DEF audio_stop

\* So do audioInit and xxxPlay, up to the decoding loop.
LEMMA OpenKeeps ==
    ASSUME MutexInv, NEW p \in Players,
           \/ audioInit(p) \/ Reset(p) \/ OpenFile(p) \/ NoFile(p) \/ HeaderOk(p)
           \/ HeaderBad(p) \/ audio_start(p) \/ StartBad(p) \/ Play(p) \/ Playing(p)
    PROVE  Sections' /\ States' /\ Unpaused'
<1> USE SectionStep, StatesStep, UnpausedStep, ThreadsAssumption
    DEF MutexInv, Threads, Active, Critical, StopSteps, ctx, local
<1>a. p \in Threads /\ p \notin Binders /\ state # "PAUSED" /\ mutex \in Threads
      \cup {NoOne}
  BY DEF TypeInv, TypeOK, States
<1>b. how \in [Players -> {"end", "io", "tail", "decode"}] /\ state \in {"STOPPED",
      "PLAYING"}
  BY DEF TypeInv, TypeOK, States
<1>c. pc[p] \in Critical => mutex = p
  BY DEF Sections, SectionsAreOwned
<1>d. pc[p] \in {"finishClose", "finishClear"} => how[p] = "end" \/ state = "STOPPED"
  BY DEF States, Settled
<1>1. CASE audioInit(p)
  BY <1>1 DEF audioInit
<1>2. CASE Reset(p)
  BY <1>2 DEF Reset
<1>3. CASE OpenFile(p)
  BY <1>3 DEF OpenFile
<1>4. CASE NoFile(p)
  BY <1>4 DEF NoFile, Return
<1>5. CASE HeaderOk(p)
  BY <1>5 DEF HeaderOk
<1>6. CASE HeaderBad(p)
  BY <1>6 DEF HeaderBad, Leave, Return
<1>7. CASE audio_start(p)
  BY <1>7 DEF audio_start
<1>8. CASE StartBad(p)
  BY <1>8 DEF StartBad, Leave, Return
<1>9. CASE Play(p)
  <2>1. Sections' /\ Unpaused'
    BY <1>9, <1>c DEF Play, Lock
  <2>2. state' = "PLAYING" /\ pc'[p] = "playing" /\ how' = how
    BY <1>9 DEF Play, Goto, TypeInv, TypeOK
  <2>3. ASSUME NEW q \in Players PROVE ~Settled(q)'
    <3>1. pc[q] \notin Critical
      BY <1>9 DEF Play, Lock, Sections, SectionsAreOwned
    <3>2. pc'[q] = IF q = p THEN "playing" ELSE pc[q]
      BY <1>9 DEF Play, Goto, TypeInv, TypeOK
    <3> QED BY <3>1, <3>2 DEF Settled
  <2> QED BY <2>1, <2>2, <2>3 DEF States
<1>10. CASE Playing(p)
  BY <1>10 DEF Playing, Unlock
<1> QED BY <1>1, <1>2, <1>3, <1>4, <1>5, <1>6, <1>7, <1>8, <1>9, <1>10

\* So does the decoding loop.
LEMMA LoopKeeps ==
    ASSUME MutexInv, NEW p \in Players,
           LoopTest(p) \/ Decode(p) \/ WriteLock(p) \/ audio_write(p)
    PROVE  Sections' /\ States' /\ Unpaused'
<1> USE SectionStep, StatesStep, UnpausedStep, ThreadsAssumption
    DEF MutexInv, Threads, Active, Critical, StopSteps, ctx, local
<1>a. p \in Threads /\ p \notin Binders /\ state # "PAUSED" /\ mutex \in Threads
      \cup {NoOne}
  BY DEF TypeInv, TypeOK, States
<1>b. how \in [Players -> {"end", "io", "tail", "decode"}] /\ state \in {"STOPPED",
      "PLAYING"}
  BY DEF TypeInv, TypeOK, States
<1>c. pc[p] \in Critical => mutex = p
  BY DEF Sections, SectionsAreOwned
<1>d. pc[p] \in {"finishClose", "finishClear"} => how[p] = "end" \/ state = "STOPPED"
  BY DEF States, Settled
<1>1. CASE LoopTest(p)
  BY <1>1 DEF LoopTest
<1>2. CASE DecodeData(p)
  BY <1>2 DEF DecodeData
<1>3. CASE DecodeEnd(p)
  BY <1>3 DEF DecodeEnd
<1>4. CASE ReadFails(p)
  BY <1>4, <1>b DEF ReadFails
<1>5. CASE DecodeFails(p)
  BY <1>5 DEF DecodeFails
<1>6. CASE AlacBroken(p)
  BY <1>6 DEF AlacBroken
<1>7. CASE WriteLock(p)
  BY <1>7 DEF WriteLock, Lock
<1>8. CASE WriteOk(p)
  BY <1>8 DEF WriteOk, Unlock, OutputTakes
<1>9. CASE WriteShort(p)
  BY <1>9 DEF WriteShort, Unlock
<1>10. CASE AlacWriteShort(p)
  BY <1>10 DEF AlacWriteShort, Unlock
<1> QED BY <1>1, <1>2, <1>3, <1>4, <1>5, <1>6, <1>7, <1>8, <1>9, <1>10
    DEF Decode, audio_write

\* So does the end of a play.
LEMMA EndKeeps ==
    ASSUME MutexInv, NEW p \in Players,
           \/ Finish(p) \/ FinishPaused(p) \/ FinishLock(p) \/ FinishClose(p)
           \/ FinishClear(p) \/ FinishState(p) \/ FinishUnlock(p) \/ FdCheck(p)
           \/ FdClose(p) \/ FdClear(p) \/ Drain(p) \/ DrainDone(p)
    PROVE  Sections' /\ States' /\ Unpaused'
<1> USE SectionStep, StatesStep, UnpausedStep, ThreadsAssumption
    DEF MutexInv, Threads, Active, Critical, StopSteps, ctx, local
<1>a. p \in Threads /\ p \notin Binders /\ state # "PAUSED" /\ mutex \in Threads
      \cup {NoOne}
  BY DEF TypeInv, TypeOK, States
<1>b. how \in [Players -> {"end", "io", "tail", "decode"}] /\ state \in {"STOPPED",
      "PLAYING"}
  BY DEF TypeInv, TypeOK, States
<1>c. pc[p] \in Critical => mutex = p
  BY DEF Sections, SectionsAreOwned
<1>d. pc[p] \in {"finishClose", "finishClear"} => how[p] = "end" \/ state = "STOPPED"
  BY DEF States, Settled
<1>1. CASE Finish(p)
  BY <1>1 DEF Finish, Ended, Return
<1>2. CASE FinishPaused(p)
  BY <1>2, <1>a DEF FinishPaused, FirstOfFinish
<1>3. CASE FinishLock(p)
  BY <1>3 DEF FinishLock, FirstOfFinish, Lock
<1>4. CASE FinishClose(p)
  BY <1>4, <1>d DEF FinishClose, CloseFd
<1>5. CASE FinishClear(p)
  BY <1>5, <1>d DEF FinishClear
<1>6. CASE FinishState(p)
  BY <1>6 DEF FinishState
<1>7. CASE FinishUnlock(p)
  BY <1>7 DEF FinishUnlock, Unlock, Ended, Return
<1>8. CASE FdCheck(p)
  BY <1>8, <1>b DEF FdCheck, Return
<1>9. CASE FdClose(p)
  BY <1>9 DEF FdClose, CloseFd
<1>10. CASE FdClear(p)
  BY <1>10 DEF FdClear, Return
<1>11. CASE Drain(p)
  BY <1>11 DEF Drain, Return
<1>12. CASE DrainDone(p)
  BY <1>12 DEF DrainDone, Return
<1> QED BY <1>1, <1>2, <1>3, <1>4, <1>5, <1>6, <1>7, <1>8, <1>9, <1>10, <1>11, <1>12

\* So do the binder threads, if they are not told to pause or to resume.
LEMMA BinderKeeps ==
    ASSUME MutexInv, NEW b \in Binders,
           BinderCalls(b) \/ BinderWork(b), Commands \cap {"pause", "resume"} = {}
    PROVE  Sections' /\ States' /\ Unpaused'
<1> USE SectionStep, StatesStep, UnpausedStep, ThreadsAssumption
    DEF MutexInv, Threads, Active, Critical, StopSteps, ctx, local
<1>a. b \in Threads /\ b \notin Players /\ mutex \in Threads \cup {NoOne}
  BY DEF TypeInv, TypeOK
<1>b. pc[b] \in {"idle", "volumeLock", "volumeUnlock"} \cup StopSteps /\ (pc[b] \in
      Critical => mutex = b)
  BY DEF Unpaused, Sections, SectionsAreOwned
<1>1. CASE audioStop(b)
  BY <1>1 DEF audioStop
<1>2. CASE audioPause(b)
  BY <1>2 DEF audioPause
<1>3. CASE PauseLock(b)
  BY <1>3, <1>b DEF PauseLock
<1>4. CASE PauseState(b)
  BY <1>4, <1>b DEF PauseState
<1>5. CASE PauseOut(b)
  BY <1>5 DEF PauseOut
<1>6. CASE audioResume(b)
  BY <1>6 DEF audioResume
<1>7. CASE ResumeOut(b)
  BY <1>7, <1>b DEF ResumeOut
<1>8. CASE ResumeState(b)
  BY <1>8, <1>b DEF ResumeState
<1>9. CASE ResumeUnlock(b)
  BY <1>9, <1>b DEF ResumeUnlock
<1>10. CASE audioSetVolume(b)
  BY <1>10 DEF audioSetVolume
<1>11. CASE VolumeLock(b)
  BY <1>11 DEF VolumeLock, Lock
<1>12. CASE VolumeUnlock(b)
  BY <1>12 DEF VolumeUnlock, Unlock
<1> QED BY <1>1, <1>2, <1>3, <1>4, <1>5, <1>6, <1>7, <1>8, <1>9, <1>10, <1>11, <1>12
    DEF BinderCalls, BinderWork

\* So does every step: MutexInv is inductive when nobody pauses or resumes.
LEMMA MutexInductive ==
    ASSUME Commands \cap {"pause", "resume"} = {}
    PROVE  Spec => []MutexInv
<1>1. Init => MutexInv
  <2> SUFFICES ASSUME Init PROVE MutexInv
    OBVIOUS
  <2>1. TypeInv
    BY ThreadsAssumption DEF Init, TypeInv, TypeOK, Threads, PlayerSteps, BinderSteps
  <2>2. Sections /\ States /\ Unpaused
    BY
        DEF Init, Sections, SectionsAreOwned, Critical, States, Settled, Unpaused,
            Threads
  <2> QED BY <2>1, <2>2 DEF MutexInv
<1>2. MutexInv /\ [Next]_vars => MutexInv'
  <2> SUFFICES ASSUME MutexInv, [Next]_vars PROVE MutexInv'
    OBVIOUS
  <2>1. TypeInv'
    BY TypeStep DEF MutexInv
  <2>2. CASE \E p \in Players : audioInit(p) \/ PlayerWork(p)
    <3> PICK p \in Players : audioInit(p) \/ PlayerWork(p)
      BY <2>2
    <3>1. p \in Threads
      BY DEF Threads
    <3> QED BY <2>1, <3>1, StopKeeps, OpenKeeps, LoopKeeps, EndKeeps
        DEF PlayerWork, xxxPlay, MutexInv
  <2>3. CASE \E b \in Binders : BinderCalls(b) \/ audio_stop(b) \/ BinderWork(b)
    <3> PICK b \in Binders : BinderCalls(b) \/ audio_stop(b) \/ BinderWork(b)
      BY <2>3
    <3>1. b \in Threads
      BY DEF Threads
    <3> QED BY <2>1, <3>1, StopKeeps, BinderKeeps DEF MutexInv
  <2>4. CASE UNCHANGED vars
    BY <2>1, <2>4
        DEF vars, ctx, local, MutexInv, Sections, SectionsAreOwned, States, Settled,
            Unpaused
  <2> QED BY <2>2, <2>3, <2>4 DEF Next
<1> QED BY <1>1, <1>2, PTL DEF Spec

\* Without pauses the sections of ctx->mutex are owned: audio_stop, the write path
\* and the ends of the decoders lock and unlock in pairs, in any number of threads,
\* and none of their unlocks frees the section of another.
THEOREM MutexDiscipline ==
    ASSUME Commands \cap {"pause", "resume"} = {}
    PROVE  Spec => []SectionsAreOwned
<1>1. MutexInv => SectionsAreOwned
  BY DEF MutexInv, Sections
<1> QED BY <1>1, MutexInductive, PTL

\* Without pauses the context is stopped and unlocked once all calls have returned,
\* so that the lock before the next play (wav/main.c:139) cannot block for good.
THEOREM RestsStopped ==
    ASSUME Commands \cap {"pause", "resume"} = {}
    PROVE  Spec => []AtRestStopped
<1>1. MutexInv => AtRestStopped
  <2> SUFFICES ASSUME MutexInv, \A t \in Threads : pc[t] = "idle"
               PROVE  state = "STOPPED" /\ mutex = NoOne
    BY DEF AtRestStopped
  <2>1. state = "STOPPED"
    BY DEF MutexInv, States, Active, Threads, TypeInv, TypeOK
  <2>2. mutex = NoOne
    BY DEF MutexInv, Sections, Critical, TypeInv, TypeOK
  <2> QED BY <2>1, <2>2
<1> QED BY <1>1, MutexInductive, PTL

---------------------------------------------------------------------------
\* The refinement of NativePlay.

\* Where a thread works under the mutex, or is about to give it back.
Busy == Critical \cup {"resumeUnlock"}

\* A pause has returned with the mutex, and the state has changed since.
Held == mutex \in Binders /\ \A t \in Threads : pc[t] \notin Busy

\* A move that takes the mutex, gives it back or leaves it alone, each on its side of
\* Busy, does not change whether a pause holds it; then a store of STOPPED is an End
\* or a Reset.  The others find PAUSED, or store what they come to store.
LEMMA NativeMove ==
    ASSUME TypeInv, NEW t \in Threads, NEW step, Goto(t, step),
           \/ /\ \/ mutex' = mutex /\ (pc[t] \in Busy <=> step \in Busy)
                 \/ mutex' = NoOne /\ pc[t] \in Busy
                 \/ mutex = NoOne /\ step \in Busy
              /\ state' \in {state, "STOPPED"}
           \/ state = "PAUSED" /\ state' = "PAUSED"
           \/ step \in Busy /\ state' = "PLAYING"
           \/ pc[t] \in Busy /\ state' = "PAUSED"
    PROVE  Native!Next \/ UNCHANGED <<state, Kept>>
<1>1. ASSUME NEW u \in Threads PROVE pc'[u] = IF u = t THEN step ELSE pc[u]
  BY DEF Goto, TypeInv, TypeOK
<1>2. NoOne \notin Binders
  BY ThreadsAssumption
<1>3. Kept <=> state = "PAUSED" \/ Held
  BY DEF Kept, Held, Busy
<1>4. Kept' <=> state' = "PAUSED" \/ Held'
  BY DEF Kept, Held, Busy
<1>5. Busy' = Busy
  BY DEF Busy, Critical
<1>6. state \in {"STOPPED", "PLAYING", "PAUSED"}
  BY DEF TypeInv, TypeOK
<1> HIDE DEF Busy
<1>7. ASSUME \/ mutex' = mutex /\ (pc[t] \in Busy <=> step \in Busy)
             \/ mutex' = NoOne /\ pc[t] \in Busy
             \/ mutex = NoOne /\ step \in Busy,
             state' \in {state, "STOPPED"}
      PROVE  Native!Next \/ UNCHANGED <<state, Kept>>
  <2>1. Held' <=> Held
    BY <1>1, <1>2, <1>5, <1>7 DEF Held
  <2>2. CASE state' = state
    <3>1. Kept' <=> Kept
      BY <1>3, <1>4, <2>1, <2>2
    <3>2. Kept' = Kept
      BY <3>1 DEF Kept
    <3> QED BY <2>2, <3>2
  <2>3. CASE state' = "STOPPED" /\ state # "STOPPED"
    <3>1. CASE Held
      <4>1. Kept = TRUE /\ Kept' = TRUE
        BY <1>3, <1>4, <2>1, <3>1 DEF Kept
      <4> QED BY <2>3, <4>1 DEF Native!Next, Native!Reset
    <3>2. CASE ~Held
      <4>1. Kept' = FALSE
        BY <1>4, <2>1, <2>3, <3>2 DEF Kept
      <4> QED BY <1>6, <2>3, <4>1 DEF Native!Next, Native!End
    <3> QED BY <3>1, <3>2
  <2> QED BY <1>7, <2>2, <2>3
<1>8. CASE state = "PAUSED" /\ state' = "PAUSED"
  <2>1. Kept = TRUE /\ Kept' = TRUE
    BY <1>3, <1>4, <1>8 DEF Kept
  <2> QED BY <1>8, <2>1
<1>9. CASE step \in Busy /\ state' = "PLAYING"
  <2>1. ~Held'
    BY <1>1, <1>5, <1>9 DEF Held
  <2>2. Kept' = FALSE
    BY <1>4, <1>9, <2>1 DEF Kept
  <2> QED BY <1>6, <1>9, <2>2 DEF Native!Next, Native!Resume
<1>10. CASE pc[t] \in Busy /\ state' = "PAUSED" /\ state # "PAUSED"
  <2>1. ~Held
    BY <1>10 DEF Held
  <2>2. Kept = FALSE /\ Kept' = TRUE
    BY <1>3, <1>4, <1>10, <2>1 DEF Kept
  <2> QED BY <1>6, <1>10, <2>2 DEF Native!Next, Native!Pause
<1> QED BY <1>7, <1>8, <1>9, <1>10

\* audio_stop is at most an End, whoever calls it.
LEMMA StopNative ==
    ASSUME TypeInv, NEW t \in Threads, audio_stop(t)
    PROVE  Native!Next \/ UNCHANGED <<state, Kept>>
<1> USE NativeMove, ThreadsAssumption DEF Threads, Busy, Critical, ctx, local
<1>0. ret[t] \in {"idle", "reset", "open"}
  BY DEF TypeInv, TypeOK
<1>1. CASE StopCheck(t)
  BY <1>1, <1>0 DEF StopCheck
<1>2. CASE StopPaused(t)
  BY <1>2 DEF StopPaused
<1>3. CASE StopLock(t)
  BY <1>3 DEF StopLock, Lock
<1>4. CASE StopClose(t)
  BY <1>4 DEF StopClose, CloseFd
<1>5. CASE StopClear(t)
  BY <1>5 DEF StopClear
<1>6. CASE StopOut(t)
  BY <1>6 DEF StopOut
<1>7. CASE StopState(t)
  BY <1>7 DEF StopState
<1>8. CASE StopUnlock(t)
  BY <1>8, <1>0 DEF StopUnlock, Unlock
<1> QED BY <1>1, <1>2, <1>3, <1>4, <1>5, <1>6, <1>7, <1>8
    DEF audio_stop

\* A play is a Reset, a Begin or Resume of a track, an End, or nothing the service sees.
LEMMA PlayNative ==
    ASSUME TypeInv, NEW p \in Players, audioInit(p) \/ Reset(p) \/ xxxPlay(p)
    PROVE  Native!Next \/ UNCHANGED <<state, Kept>>
<1> USE NativeMove, ThreadsAssumption DEF Threads, Busy, Critical, ctx, local
<1>1. CASE audioInit(p)
  BY <1>1 DEF audioInit
<1>2. CASE Reset(p)
  BY <1>2 DEF Reset
<1>3. CASE OpenFile(p)
  BY <1>3 DEF OpenFile
<1>4. CASE NoFile(p)
  BY <1>4 DEF NoFile, Return
<1>5. CASE HeaderOk(p)
  BY <1>5 DEF HeaderOk
<1>6. CASE HeaderBad(p)
  BY <1>6 DEF HeaderBad, Leave, Return
<1>7. CASE audio_start(p)
  BY <1>7 DEF audio_start
<1>8. CASE StartBad(p)
  BY <1>8 DEF StartBad, Leave, Return
<1>9. CASE Play(p)
  BY <1>9 DEF Play, Lock
<1>10. CASE Playing(p)
  BY <1>10 DEF Playing, Unlock
<1>11. CASE LoopTest(p)
  BY <1>11 DEF LoopTest
<1>12. CASE DecodeData(p)
  BY <1>12 DEF DecodeData
<1>13. CASE DecodeEnd(p)
  BY <1>13 DEF DecodeEnd
<1>14. CASE ReadFails(p)
  BY <1>14 DEF ReadFails
<1>15. CASE DecodeFails(p)
  BY <1>15 DEF DecodeFails
<1>16. CASE AlacBroken(p)
  BY <1>16 DEF AlacBroken
<1>17. CASE WriteLock(p)
  BY <1>17 DEF WriteLock, Lock
<1>18. CASE WriteOk(p)
  BY <1>18 DEF WriteOk, Unlock, OutputTakes
<1>19. CASE WriteShort(p)
  BY <1>19 DEF WriteShort, Unlock
<1>20. CASE AlacWriteShort(p)
  BY <1>20 DEF AlacWriteShort, Unlock
<1>21. CASE Finish(p)
  BY <1>21 DEF Finish, Ended, Return
<1>22. CASE FinishPaused(p)
  BY <1>22 DEF FinishPaused, FirstOfFinish
<1>23. CASE FinishLock(p)
  BY <1>23 DEF FinishLock, Lock, FirstOfFinish
<1>24. CASE FinishClose(p)
  BY <1>24 DEF FinishClose, CloseFd
<1>25. CASE FinishClear(p)
  BY <1>25 DEF FinishClear
<1>26. CASE FinishState(p)
  BY <1>26 DEF FinishState
<1>27. CASE FinishUnlock(p)
  BY <1>27 DEF FinishUnlock, Unlock, Ended, Return
<1>28. CASE FdCheck(p)
  BY <1>28 DEF FdCheck, Return
<1>29. CASE FdClose(p)
  BY <1>29 DEF FdClose, CloseFd
<1>30. CASE FdClear(p)
  BY <1>30 DEF FdClear, Return
<1>31. CASE Drain(p)
  BY <1>31 DEF Drain, Return
<1>32. CASE DrainDone(p)
  BY <1>32 DEF DrainDone, Return
<1> QED BY <1>1, <1>2, <1>3, <1>4, <1>5, <1>6, <1>7, <1>8, <1>9, <1>10, <1>11, <1>12,
           <1>13, <1>14, <1>15, <1>16, <1>17, <1>18, <1>19, <1>20, <1>21, <1>22, <1>23,
           <1>24, <1>25, <1>26, <1>27, <1>28, <1>29, <1>30, <1>31, <1>32
    DEF xxxPlay, Decode, audio_write

\* The calls of a binder thread are a Pause or a Resume.
LEMMA BinderNative ==
    ASSUME TypeInv, NEW b \in Binders, BinderCalls(b) \/ BinderWork(b)
    PROVE  Native!Next \/ UNCHANGED <<state, Kept>>
<1> USE NativeMove, ThreadsAssumption DEF Threads, Busy, Critical, ctx, local
<1>1. CASE audioStop(b)
  BY <1>1 DEF audioStop
<1>2. CASE audioPause(b)
  BY <1>2 DEF audioPause
<1>3. CASE PauseLock(b)
  BY <1>3 DEF PauseLock, Lock
<1>4. CASE PauseState(b)
  BY <1>4 DEF PauseState
<1>5. CASE PauseOut(b)
  BY <1>5 DEF PauseOut
<1>6. CASE audioResume(b)
  BY <1>6 DEF audioResume
<1>7. CASE ResumeOut(b)
  BY <1>7 DEF ResumeOut
<1>8. CASE ResumeState(b)
  BY <1>8 DEF ResumeState
<1>9. CASE ResumeUnlock(b)
  BY <1>9 DEF ResumeUnlock, Unlock
<1>10. CASE audioSetVolume(b)
  BY <1>10 DEF audioSetVolume
<1>11. CASE VolumeLock(b)
  BY <1>11 DEF VolumeLock, Lock
<1>12. CASE VolumeUnlock(b)
  BY <1>12 DEF VolumeUnlock, Unlock
<1> QED BY <1>1, <1>2, <1>3, <1>4, <1>5, <1>6, <1>7, <1>8, <1>9, <1>10, <1>11, <1>12
    DEF BinderCalls, BinderWork

\* What the service may rely on: whatever the players and the binder threads do, in
\* any number and in any order, the state of the context and the pause that keeps its
\* mutex change as NativePlay says, one step of it at a time.
THEOREM ContextImplementsNative == Spec => ImplementsNative
<1>1. Init => TypeInv /\ Native!Init
  <2> SUFFICES ASSUME Init PROVE TypeInv /\ Native!Init
    OBVIOUS
  <2>1. TypeInv
    BY ThreadsAssumption DEF Init, TypeInv, TypeOK, Threads, PlayerSteps, BinderSteps
  <2>2. Kept = FALSE
    BY ThreadsAssumption DEF Init, Kept
  <2> QED BY <2>1, <2>2 DEF Init, Native!Init
<1>2. TypeInv /\ [Next]_vars => TypeInv'
  BY TypeStep
<1>3. TypeInv /\ [Next]_vars => [Native!Next]_<<state, Kept>>
  <2> SUFFICES ASSUME TypeInv, [Next]_vars PROVE [Native!Next]_<<state, Kept>>
    OBVIOUS
  <2>1. CASE \E p \in Players : audioInit(p) \/ PlayerWork(p)
    BY <2>1, StopNative, PlayNative DEF PlayerWork, Threads
  <2>2. CASE \E b \in Binders : BinderCalls(b) \/ audio_stop(b) \/ BinderWork(b)
    BY <2>2, StopNative, BinderNative DEF Threads
  <2>3. CASE UNCHANGED vars
    BY <2>3 DEF vars, ctx, Kept
  <2> QED BY <2>1, <2>2, <2>3 DEF Next
<1> QED BY <1>1, <1>2, <1>3, PTL DEF Spec, ImplementsNative, Native!Spec

---------------------------------------------------------------------------
\* One player, p, and the descriptor of the file it plays, whose number is plays.
\* A stop that lags behind the end of a track clears the ctx->fd of the next: the client
\* is the calm one, whose tracks begin with the context at rest.

OnePlayer(p) == Players = {p}

\* p has not locked the mutex yet to play.
Opening == {"stopCheck", "reset", "open", "header", "start", "play"}
Before(p) == plays = 0 \/ pc[p] \in Opening

\* The steps of an audio_stop behind the close, which find the file closed.
Closers == {"stopClear", "stopOut", "stopState", "stopUnlock"}

\* Nobody closes the file before the play begins, and whoever is behind a close of
\* it finds it closed; nobody else can open a file under the same number.
FileInv(p) ==
    /\ plays \in Nat /\ (pc[p] # "idle" => plays > 0) /\ mine[p] = plays
    /\ pc[p] \in StopSteps => pc[p] = "stopCheck" /\ ret[p] # "idle"
    /\ Before(p) => AtRest
    /\ plays = 0 \/ pc[p] \in {"stopCheck", "reset", "open"} => plays \notin fds
    /\ pc[p] \in {"header", "start", "play"} => fd = plays
    /\ fd <= plays /\ \A n \in fds : n <= plays
    /\ ~(plays = 0 \/ pc[p] \in {"stopCheck", "reset", "open"}) => fd \in {-1, plays}
    /\ plays \in fds => fd = plays
    /\ pc[p] \in {"finishClear", "fdclear"} => plays \notin fds
    /\ \A b \in Binders : pc[b] \in Closers => plays \notin fds

\* A decoder that is not flac: wherever it is on its way to return 0, it finds the
\* file closed when it finds the state STOPPED.
EndInv(p) ==
    /\ how[p] # "tail"
    /\ how[p] = "end" /\ res[p] = "ok" /\ state = "STOPPED"
         /\ pc[p] \in {"playing", "loop", "decode", "write", "writing", "finish"} => plays \notin fds
    /\ how[p] = "end" /\ pc[p] \in {"finishState", "finishUnlock"} => plays \notin fds
    /\ pc[p] \in {"idle", "drain", "drainWait"} /\ res[p] = "ok" => plays \notin fds

\* Where a play has a file, unless it has closed it itself.
Holding(p) ==
    \/ pc[p] \in {"header", "start", "play", "playing", "loop", "decode", "write", "writing",
                  "finish", "finishPaused", "finishLock", "fdcheck"}
    \/ how[p] \in {"io", "tail"} /\ pc[p] \in {"finishState", "finishUnlock"}

\* Such a play misses its file only after a binder thread has cleared ctx->fd, which
\* the play knows from the moment that thread took hold of the context.
HitInv(p) ==
    /\ pc[p] \in {"finishClose", "finishClear"} => how[p] \in {"end", "decode"}
    /\ fd = -1 /\ Holding(p) => hit[p]
    /\ \A b \in Binders : pc[b] = "stopClear" /\ Opened(p) => hit[p]

\* wv or flac, which end well or are stopped: after an error the file is gone.
SilentInv(p) ==
    /\ how[p] # "decode" /\ (pc[p] # "idle" => res[p] = "ok")
    /\ pc[p] \in Opening => how[p] = "end"
    /\ pc[p] \notin {"fdclose", "fdclear"}
    /\ how[p] # "end" /\ pc[p] # "idle" => plays \notin fds
    /\ pc[p] = "fdcheck" => fd = -1
    /\ pc[p] \in {"finishState", "finishUnlock"} => fd = -1
    /\ state = "STOPPED" /\ pc[p] \in {"playing", "loop", "decode", "write", "writing", "finish"}
         => fd = -1
    /\ out = "shut" /\ pc[p] \in PlaySteps => fd = -1
    /\ \A b \in Binders : pc[b] \in {"stopOut", "stopState", "stopUnlock"} => fd = -1

\* The context is at rest until the next track.
Resting(p) == pc[p] = "idle" /\ AtRest

\* The number of a closed file is soon cleared by whoever closed it, unless the play
\* ended with it before it began.
LostInv(p) ==
    fd = plays /\ plays > 0 /\ plays \notin fds =>
        \/ mutex \in Threads /\ pc[mutex] \in {"stopClear", "finishClear"}
        \/ Resting(p)

\* A move changes the step of the thread that makes it and of no other.
LEMMA Moves ==
    ASSUME NEW p, OnePlayer(p), TypeInv, NEW t \in Threads, NEW step, Goto(t, step)
    PROVE  /\ pc'[t] = step
           /\ t = p => \A b \in Binders : pc'[b] = pc[b]
           /\ t \in Binders => pc'[p] = pc[p] /\ \A b \in Binders : b # t => pc'[b] = pc[b]
           /\ \A u \in Threads : u # t => pc'[u] = pc[u]
<1>1. \A u \in Threads : pc'[u] = IF u = t THEN step ELSE pc[u]
  BY DEF Goto, TypeInv, TypeOK
<1> QED BY <1>1, ThreadsAssumption DEF OnePlayer, Threads

\* What the invariants of one player use of the types.
LEMMA Scalars ==
    ASSUME NEW p, OnePlayer(p), TypeInv
    PROVE  /\ p \in Threads /\ p \notin Binders /\ Binders \subseteq Threads
           /\ Threads = Binders \cup {p}
           /\ mine \in [{p} -> Nat] /\ how \in [{p} -> {"end", "io", "tail", "decode"}]
           /\ res \in [{p} -> {"ok", "error"}] /\ hit \in [{p} -> BOOLEAN]
           /\ codec \in [{p} -> Codecs]
           /\ ret[p] \in {"idle", "reset", "open"} /\ \A b \in Binders : ret[b] = "idle"
           /\ plays \in Nat
           /\ fd \in Int /\ state \in {"STOPPED", "PLAYING", "PAUSED"}
BY ThreadsAssumption, BoundAssumption DEF OnePlayer, TypeInv, TypeOK, Threads

\* audio_stop keeps FileInv: it closes the file only once the play has begun.
LEMMA StopFile ==
    ASSUME NEW p, OnePlayer(p), TypeInv,
           FileInv(p),
           NEW t \in Threads, audio_stop(t)
    PROVE  FileInv(p)'
<1> USE DEF FileInv, Before, AtRest, Opening, Closers, StopSteps, ctx, local
<1>t. p \in Threads /\ p \notin Binders /\ ret[p] \in {"idle", "reset", "open"}
      /\ Threads = Binders \cup {p}
      /\ \A b \in Binders : ret[b] = "idle"
  BY Scalars
<1>m. ASSUME NEW step, Goto(t, step)
      PROVE  /\ pc'[t] = step
             /\ \A u \in Threads : u # t => pc'[u] = pc[u]
  BY <1>m, Moves
<1> USE <1>t, <1>m
<1>1. CASE StopCheck(t)
  <2>1. pc[t] = "stopCheck" /\ UNCHANGED <<state, fd, fds, plays, mine, ret>>
    BY <1>1 DEF StopCheck
  <2>2. CASE t = p
    <3>1. state = "STOPPED" /\ pc'[p] \in {"reset", "open"}
      BY <1>1, <2>1, <2>2 DEF StopCheck
    <3>2. \A b \in Binders : pc'[b] = pc[b]
      BY <1>1, <2>2, Moves DEF StopCheck
    <3> QED BY <2>1, <2>2, <3>1, <3>2
  <2>3. CASE t \in Binders
    <3>1. pc'[t] \in {"idle", "stopPaused"} /\ (state = "STOPPED" => pc'[t] = "idle")
      BY <1>1, <2>3 DEF StopCheck
    <3>2. \A u \in Threads : u # t => pc'[u] = pc[u]
      BY <1>1 DEF StopCheck
    <3> QED BY <2>1, <2>3, <3>1, <3>2
  <2> QED BY <2>2, <2>3
<1>2. CASE StopPaused(t)
  BY <1>2 DEF StopPaused
<1>3. CASE StopLock(t)
  BY <1>3 DEF StopLock, Lock
<1>4. CASE StopClose(t)
  <2>1. pc[t] = "stopClose" /\ t \in Binders /\ UNCHANGED <<state, fd, plays, mine>>
    BY <1>4 DEF StopClose
  <2>2. CASE fd >= 0
    <3>1. fds' = fds \ {fd} /\ Goto(t, "stopClear")
      BY <1>4, <2>2 DEF StopClose, CloseFd
    <3> QED BY <2>1, <2>2, <3>1
  <2>3. CASE ~(fd >= 0)
    <3>1. fds' = fds /\ Goto(t, "stopOut")
      BY <1>4, <2>3 DEF StopClose
    <3> QED BY <2>1, <2>3, <3>1
  <2> QED BY <2>2, <2>3
<1>5. CASE StopClear(t)
  BY <1>5 DEF StopClear
<1>6. CASE StopOut(t)
  BY <1>6 DEF StopOut
<1>7. CASE StopState(t)
  BY <1>7 DEF StopState
<1>8. CASE StopUnlock(t)
  BY <1>8 DEF StopUnlock, Unlock
<1> QED BY <1>1, <1>2, <1>3, <1>4, <1>5, <1>6, <1>7, <1>8
    DEF audio_stop

\* So does the play.
LEMMA PlayFile ==
    ASSUME NEW p, OnePlayer(p), TypeInv,
           FileInv(p),
           (AtRest /\ audioInit(p)) \/ Reset(p) \/ xxxPlay(p)
    PROVE  FileInv(p)'
<1> USE DEF FileInv, Before, AtRest, Opening, Closers, StopSteps, ctx, local
<1>t. p \in Threads /\ p \notin Binders /\ mine \in [{p} -> Nat]
      /\ plays \in Nat
      /\ ret[p] \in {"idle", "reset", "open"}
  BY Scalars
<1>m. ASSUME NEW step, Goto(p, step) PROVE pc'[p] = step /\ \A b \in Binders : pc'[b] = pc[b]
  BY <1>m, <1>t, Moves
<1> USE <1>t, <1>m
<1>1. CASE AtRest /\ audioInit(p)
  <2>1. /\ AtRest /\ plays' = plays + 1 /\ mine'[p] = plays' /\ ret'[p] = "reset"
        /\ pc'[p] = "stopCheck" /\ UNCHANGED <<state, fd, fds>>
        /\ \A b \in Binders : pc'[b] = pc[b]
    <3>1. /\ ret \in [Threads -> {"idle", "reset", "open"}]
          /\ mine \in [Players -> Nat] /\ p \in Players
      BY DEF TypeInv, TypeOK, OnePlayer
    <3>2. AtRest /\ plays' = plays + 1 /\ UNCHANGED <<state, fd, fds>>
      BY <1>1 DEF audioInit
    <3>3. mine'[p] = plays' /\ ret'[p] = "reset"
      BY <1>1, <3>1 DEF audioInit
    <3>4. pc'[p] = "stopCheck" /\ \A b \in Binders : pc'[b] = pc[b]
      BY <1>1 DEF audioInit
    <3> QED BY <3>2, <3>3, <3>4
  <2>2. fd <= plays + 1 /\ plays + 1 \notin fds /\ \A n \in fds : n <= plays + 1
    <3>1. plays \in Nat /\ fd \in Int /\ fds \subseteq Int
      BY DEF TypeInv, TypeOK
    <3>2. fd <= plays /\ \A n \in fds : n <= plays
      BY DEF FileInv
    <3>3. \A n, m \in Int : n <= m => n <= m + 1 /\ n # m + 1
      OBVIOUS
    <3> HIDE DEF FileInv, Before, AtRest, Opening, Closers, StopSteps, ctx, local
    <3> QED BY <3>1, <3>2, <3>3
  <2> QED BY <2>1, <2>2
<1>2. CASE Reset(p)
  <2>1. /\ ret'[p] = "open" /\ state' = "STOPPED" /\ pc'[p] = "stopCheck"
        /\ UNCHANGED <<fd, fds, plays, mine>> /\ \A b \in Binders : pc'[b] = pc[b]
    <3>1. ret \in [Threads -> {"idle", "reset", "open"}]
      BY DEF TypeInv, TypeOK
    <3> QED BY <1>2, <3>1 DEF Reset
  <2> QED BY <1>2, <2>1 DEF Reset
<1>3. CASE OpenFile(p)
  BY <1>3 DEF OpenFile
<1>4. CASE NoFile(p)
  BY <1>4 DEF NoFile, Return
<1>5. CASE HeaderOk(p)
  BY <1>5 DEF HeaderOk
<1>6. CASE HeaderBad(p)
  BY <1>6 DEF HeaderBad, Leave, Return
<1>7. CASE audio_start(p)
  BY <1>7 DEF audio_start
<1>8. CASE StartBad(p)
  BY <1>8 DEF StartBad, Leave, Return
<1>9. CASE Play(p)
  BY <1>9 DEF Play, Lock
<1>10. CASE Playing(p)
  BY <1>10 DEF Playing, Unlock
<1>11. CASE LoopTest(p)
  BY <1>11 DEF LoopTest
<1>12. CASE DecodeData(p)
  BY <1>12 DEF DecodeData
<1>13. CASE DecodeEnd(p)
  BY <1>13 DEF DecodeEnd
<1>14. CASE ReadFails(p)
  BY <1>14 DEF ReadFails, Broken, Handle
<1>15. CASE DecodeFails(p)
  BY <1>15 DEF DecodeFails, Broken, Handle
<1>16. CASE AlacBroken(p)
  BY <1>16 DEF AlacBroken, Broken, Handle
<1>17. CASE WriteLock(p)
  BY <1>17 DEF WriteLock, Lock
<1>18. CASE WriteOk(p)
  BY <1>18 DEF WriteOk, Unlock, OutputTakes
<1>19. CASE WriteShort(p)
  BY <1>19 DEF WriteShort, Unlock
<1>20. CASE AlacWriteShort(p)
  BY <1>20 DEF AlacWriteShort, Unlock
<1>21. CASE Finish(p)
  BY <1>21 DEF Finish, Ended, Return
<1>22. CASE FinishPaused(p)
  BY <1>22 DEF FinishPaused, FirstOfFinish
<1>23. CASE FinishLock(p)
  BY <1>23 DEF FinishLock, Lock, FirstOfFinish
<1>24. CASE FinishClose(p)
  BY <1>24 DEF FinishClose, CloseFd
<1>25. CASE FinishClear(p)
  BY <1>25 DEF FinishClear
<1>26. CASE FinishState(p)
  BY <1>26 DEF FinishState
<1>27. CASE FinishUnlock(p)
  BY <1>27 DEF FinishUnlock, Unlock, Ended, Return
<1>28. CASE FdCheck(p)
  BY <1>28 DEF FdCheck, Return
<1>29. CASE FdClose(p)
  BY <1>29 DEF FdClose, CloseFd
<1>30. CASE FdClear(p)
  BY <1>30 DEF FdClear, Return
<1>31. CASE Drain(p)
  BY <1>31 DEF Drain, Return
<1>32. CASE DrainDone(p)
  BY <1>32 DEF DrainDone, Return
<1> QED BY <1>1, <1>2, <1>3, <1>4, <1>5, <1>6, <1>7, <1>8, <1>9, <1>10, <1>11, <1>12,
           <1>13, <1>14, <1>15, <1>16, <1>17, <1>18, <1>19, <1>20, <1>21, <1>22, <1>23,
           <1>24, <1>25, <1>26, <1>27, <1>28, <1>29, <1>30, <1>31, <1>32
    DEF xxxPlay, Decode, audio_write

\* So do the calls of the binder threads.
LEMMA BinderFile ==
    ASSUME NEW p, OnePlayer(p), TypeInv,
           FileInv(p),
           NEW b \in Binders, BinderCalls(b) \/ BinderWork(b)
    PROVE  FileInv(p)'
<1> USE DEF FileInv, Before, AtRest, Opening, Closers, StopSteps, ctx, local
<1>t. p \in Threads /\ p \notin Binders /\ b \in Threads
  BY Scalars
<1>m. ASSUME NEW step, Goto(b, step)
      PROVE  /\ pc'[b] = step /\ pc'[p] = pc[p]
             /\ \A c \in Binders : c # b => pc'[c] = pc[c]
  BY <1>m, <1>t, Moves
<1> USE <1>t, <1>m
<1>1. CASE audioStop(b)
  BY <1>1 DEF audioStop
<1>2. CASE audioPause(b)
  BY <1>2 DEF audioPause
<1>3. CASE PauseLock(b)
  BY <1>3 DEF PauseLock, Lock
<1>4. CASE PauseState(b)
  BY <1>4 DEF PauseState
<1>5. CASE PauseOut(b)
  BY <1>5 DEF PauseOut
<1>6. CASE audioResume(b)
  BY <1>6 DEF audioResume
<1>7. CASE ResumeOut(b)
  BY <1>7 DEF ResumeOut
<1>8. CASE ResumeState(b)
  BY <1>8 DEF ResumeState
<1>9. CASE ResumeUnlock(b)
  BY <1>9 DEF ResumeUnlock, Unlock
<1>10. CASE audioSetVolume(b)
  BY <1>10 DEF audioSetVolume
<1>11. CASE VolumeLock(b)
  BY <1>11 DEF VolumeLock, Lock
<1>12. CASE VolumeUnlock(b)
  BY <1>12 DEF VolumeUnlock, Unlock
<1> QED BY <1>1, <1>2, <1>3, <1>4, <1>5, <1>6, <1>7, <1>8, <1>9, <1>10, <1>11, <1>12
    DEF BinderCalls, BinderWork

\* FileInv is inductive: no command and no ending of a play breaks it.
LEMMA FileStep ==
    ASSUME NEW p, OnePlayer(p), TypeInv, FileInv(p), [CalmNext]_vars
    PROVE  FileInv(p)'
<1>1. CASE \E q \in Players : (AtRest /\ audioInit(q)) \/ PlayerWork(q)
  BY <1>1, PlayFile, StopFile DEF PlayerWork, OnePlayer, Threads
<1>2. CASE \E b \in Binders : BinderCalls(b) \/ audio_stop(b) \/ BinderWork(b)
  BY <1>2, BinderFile, StopFile DEF Threads
<1>3. CASE UNCHANGED vars
  BY <1>3 DEF vars, ctx, local, FileInv, Before, AtRest
<1> QED BY <1>1, <1>2, <1>3 DEF CalmNext

LEMMA CalmIsSpec == CalmSpec => Spec
<1>1. [CalmNext]_vars => [Next]_vars
  BY DEF CalmNext, Next
<1> QED BY <1>1, PTL DEF CalmSpec, Spec

LEMMA FileInit == ASSUME NEW q, OnePlayer(q), Init PROVE TypeInv /\ FileInv(q)
<1>1. TypeInv
  BY ThreadsAssumption DEF Init, TypeInv, TypeOK, Threads, PlayerSteps, BinderSteps
<1>2. FileInv(q)
  BY <1>1, Scalars
      DEF Init, FileInv, Before, AtRest, Opening, Closers, StopSteps, Threads, OnePlayer
<1> QED BY <1>1, <1>2

LEMMA FileInductive ==
    ASSUME NEW q, OnePlayer(q)
    PROVE  CalmSpec => [](TypeInv /\ FileInv(q))
<1>1. Init => TypeInv /\ FileInv(q)
  BY FileInit
<1>2. TypeInv /\ FileInv(q) /\ [CalmNext]_vars => TypeInv' /\ FileInv(q)'
  BY TypeStep, FileStep DEF CalmNext, Next
<1> QED BY <1>1, <1>2, PTL DEF CalmSpec

\* The first track needs no such client: nothing is at work in the context before the
\* first audioInit.  So what holds of a calm client holds of every client of one track.
THEOREM FirstTrackIsCalm ==
    ASSUME NEW q, OnePlayer(q), MaxPlays <= 1
    PROVE  Spec => CalmSpec
<1>1. Init => TypeInv /\ FileInv(q)
  BY FileInit
<1>2. TypeInv /\ FileInv(q) /\ [Next]_vars => [CalmNext]_vars
  <2> SUFFICES ASSUME TypeInv, FileInv(q), Next PROVE CalmNext
    OBVIOUS
  <2>1. ASSUME audioInit(q) PROVE AtRest
    <3>1. plays = 0
      BY <2>1, BoundAssumption DEF audioInit, TypeInv, TypeOK
    <3> QED BY <3>1 DEF FileInv, Before
  <2> QED BY <2>1 DEF Next, CalmNext, OnePlayer
<1>3. TypeInv /\ FileInv(q) /\ [CalmNext]_vars => TypeInv' /\ FileInv(q)'
  BY TypeStep, FileStep DEF CalmNext, Next
<1> QED BY <1>1, <1>2, <1>3, PTL DEF Spec, CalmSpec

\* audio_stop keeps EndInv: it closes the file before it stores STOPPED.
LEMMA StopEnds ==
    ASSUME NEW p, OnePlayer(p), TypeInv,
           FileInv(p), EndInv(p), "flac" \notin Codecs,
           NEW t \in Threads, audio_stop(t)
    PROVE  EndInv(p)'
<1> USE DEF EndInv, FileInv, Before, AtRest, Opening, Closers, StopSteps, ctx, local
<1>t. p \in Threads /\ p \notin Binders /\ ret[p] \in {"idle", "reset", "open"}
      /\ Threads = Binders \cup {p}
      /\ \A b \in Binders : ret[b] = "idle"
  BY Scalars
<1>m. ASSUME NEW step, Goto(t, step)
      PROVE  /\ pc'[t] = step
             /\ \A u \in Threads : u # t => pc'[u] = pc[u]
  BY <1>m, Moves
<1> USE <1>t, <1>m
<1>1. CASE StopCheck(t)
  BY <1>1 DEF StopCheck
<1>2. CASE StopPaused(t)
  BY <1>2 DEF StopPaused
<1>3. CASE StopLock(t)
  BY <1>3 DEF StopLock, Lock
<1>4. CASE StopClose(t)
  BY <1>4 DEF StopClose, CloseFd
<1>5. CASE StopClear(t)
  BY <1>5 DEF StopClear
<1>6. CASE StopOut(t)
  BY <1>6 DEF StopOut
<1>7. CASE StopState(t)
  BY <1>7 DEF StopState
<1>8. CASE StopUnlock(t)
  BY <1>8 DEF StopUnlock, Unlock
<1> QED BY <1>1, <1>2, <1>3, <1>4, <1>5, <1>6, <1>7, <1>8
    DEF audio_stop

\* So does the play, which closes the file at the end of the track before that too.
LEMMA PlayEnds ==
    ASSUME NEW p, OnePlayer(p), TypeInv,
           FileInv(p), EndInv(p), "flac" \notin Codecs,
           audioInit(p) \/ Reset(p) \/ xxxPlay(p)
    PROVE  EndInv(p)'
<1> USE DEF EndInv, FileInv, Before, AtRest, Opening, Closers, StopSteps, ctx, local
<1>t. /\ p \in Threads /\ p \notin Binders /\ ret[p] \in {"idle", "reset", "open"}
      /\ mine \in [{p} -> Nat] /\ how \in [{p} -> {"end", "io", "tail", "decode"}]
      /\ res \in [{p} -> {"ok", "error"}] /\ hit \in [{p} -> BOOLEAN]
      /\ codec \in [{p} -> Codecs] /\ plays \in Nat
  BY Scalars
<1>m. ASSUME NEW step, Goto(p, step) PROVE pc'[p] = step /\ \A b \in Binders : pc'[b] = pc[b]
  BY <1>m, <1>t, Moves
<1> USE <1>t, <1>m
<1>1. CASE audioInit(p)
  BY <1>1 DEF audioInit
<1>2. CASE Reset(p)
  BY <1>2 DEF Reset
<1>3. CASE OpenFile(p)
  BY <1>3 DEF OpenFile
<1>4. CASE NoFile(p)
  BY <1>4 DEF NoFile, Return
<1>5. CASE HeaderOk(p)
  BY <1>5 DEF HeaderOk
<1>6. CASE HeaderBad(p)
  BY <1>6 DEF HeaderBad, Leave, Return
<1>7. CASE audio_start(p)
  BY <1>7 DEF audio_start
<1>8. CASE StartBad(p)
  BY <1>8 DEF StartBad, Leave, Return
<1>9. CASE Play(p)
  BY <1>9 DEF Play, Lock
<1>10. CASE Playing(p)
  BY <1>10 DEF Playing, Unlock
<1>11. CASE LoopTest(p)
  BY <1>11 DEF LoopTest
<1>12. CASE DecodeData(p)
  BY <1>12 DEF DecodeData
<1>13. CASE DecodeEnd(p)
  BY <1>13 DEF DecodeEnd
<1>14. CASE ReadFails(p)
  BY <1>14 DEF ReadFails, Broken, Handle
<1>15. CASE DecodeFails(p)
  BY <1>15 DEF DecodeFails, Broken, Handle
<1>16. CASE AlacBroken(p)
  BY <1>16 DEF AlacBroken, Broken, Handle
<1>17. CASE WriteLock(p)
  BY <1>17 DEF WriteLock, Lock
<1>18. CASE WriteOk(p)
  BY <1>18 DEF WriteOk, Unlock, OutputTakes
<1>19. CASE WriteShort(p)
  BY <1>19 DEF WriteShort, Unlock
<1>20. CASE AlacWriteShort(p)
  BY <1>20 DEF AlacWriteShort, Unlock
<1>21. CASE Finish(p)
  BY <1>21 DEF Finish, Ended, Return
<1>22. CASE FinishPaused(p)
  BY <1>22 DEF FinishPaused, FirstOfFinish
<1>23. CASE FinishLock(p)
  BY <1>23 DEF FinishLock, Lock, FirstOfFinish
<1>24. CASE FinishClose(p)
  BY <1>24 DEF FinishClose, CloseFd
<1>25. CASE FinishClear(p)
  BY <1>25 DEF FinishClear
<1>26. CASE FinishState(p)
  BY <1>26 DEF FinishState
<1>27. CASE FinishUnlock(p)
  BY <1>27 DEF FinishUnlock, Unlock, Ended, Return
<1>28. CASE FdCheck(p)
  BY <1>28 DEF FdCheck, Return
<1>29. CASE FdClose(p)
  BY <1>29 DEF FdClose, CloseFd
<1>30. CASE FdClear(p)
  BY <1>30 DEF FdClear, Return
<1>31. CASE Drain(p)
  BY <1>31 DEF Drain, Return
<1>32. CASE DrainDone(p)
  BY <1>32 DEF DrainDone, Return
<1> QED BY <1>1, <1>2, <1>3, <1>4, <1>5, <1>6, <1>7, <1>8, <1>9, <1>10, <1>11, <1>12,
           <1>13, <1>14, <1>15, <1>16, <1>17, <1>18, <1>19, <1>20, <1>21, <1>22, <1>23,
           <1>24, <1>25, <1>26, <1>27, <1>28, <1>29, <1>30, <1>31, <1>32
    DEF xxxPlay, Decode, audio_write

\* So do the calls of the binder threads.
LEMMA BinderEnds ==
    ASSUME NEW p, OnePlayer(p), TypeInv,
           FileInv(p), EndInv(p), "flac" \notin Codecs,
           NEW b \in Binders, BinderCalls(b) \/ BinderWork(b)
    PROVE  EndInv(p)'
<1> USE DEF EndInv, FileInv, Before, AtRest, Opening, Closers, StopSteps, ctx, local
<1>t. p \in Threads /\ p \notin Binders /\ b \in Threads
  BY Scalars
<1>m. ASSUME NEW step, Goto(b, step)
      PROVE  /\ pc'[b] = step /\ pc'[p] = pc[p]
             /\ \A c \in Binders : c # b => pc'[c] = pc[c]
  BY <1>m, <1>t, Moves
<1> USE <1>t, <1>m
<1>1. CASE audioStop(b)
  BY <1>1 DEF audioStop
<1>2. CASE audioPause(b)
  BY <1>2 DEF audioPause
<1>3. CASE PauseLock(b)
  BY <1>3 DEF PauseLock, Lock
<1>4. CASE PauseState(b)
  BY <1>4 DEF PauseState
<1>5. CASE PauseOut(b)
  BY <1>5 DEF PauseOut
<1>6. CASE audioResume(b)
  BY <1>6 DEF audioResume
<1>7. CASE ResumeOut(b)
  BY <1>7 DEF ResumeOut
<1>8. CASE ResumeState(b)
  BY <1>8 DEF ResumeState
<1>9. CASE ResumeUnlock(b)
  BY <1>9 DEF ResumeUnlock, Unlock
<1>10. CASE audioSetVolume(b)
  BY <1>10 DEF audioSetVolume
<1>11. CASE VolumeLock(b)
  BY <1>11 DEF VolumeLock, Lock
<1>12. CASE VolumeUnlock(b)
  BY <1>12 DEF VolumeUnlock, Unlock
<1> QED BY <1>1, <1>2, <1>3, <1>4, <1>5, <1>6, <1>7, <1>8, <1>9, <1>10, <1>11, <1>12
    DEF BinderCalls, BinderWork

\* EndInv is inductive where FileInv holds and no decoder forgives an error.
LEMMA EndsStep ==
    ASSUME NEW p, OnePlayer(p), TypeInv, FileInv(p), EndInv(p), "flac" \notin Codecs, [Next]_vars
    PROVE  EndInv(p)'
<1>1. CASE \E q \in Players : audioInit(q) \/ PlayerWork(q)
  BY <1>1, PlayEnds, StopEnds DEF PlayerWork, OnePlayer, Threads
<1>2. CASE \E b \in Binders : BinderCalls(b) \/ audio_stop(b) \/ BinderWork(b)
  BY <1>2, BinderEnds, StopEnds DEF Threads
<1>3. CASE UNCHANGED vars
  BY <1>3 DEF vars, ctx, local, EndInv
<1> QED BY <1>1, <1>2, <1>3 DEF Next

\* A play by any decoder but flac that returns 0 has closed its file, track after track,
\* whatever any number of binder threads do to it in any order, pauses included.
THEOREM PlayCloses ==
    ASSUME NEW q, OnePlayer(q), "flac" \notin Codecs
    PROVE  CalmSpec => []EndedPlayClosed
<1>1. Init => EndInv(q)
  BY DEF Init, EndInv, OnePlayer, Threads
<1>2. TypeInv /\ FileInv(q) /\ EndInv(q) /\ [Next]_vars => EndInv(q)'
  BY EndsStep
<1>3. TypeInv /\ FileInv(q) /\ EndInv(q) => EndedPlayClosed
  BY DEF FileInv, EndInv, EndedPlayClosed, OnePlayer
<1>4. CalmSpec => [](TypeInv /\ FileInv(q))
  BY FileInductive
<1> QED BY <1>1, <1>2, <1>3, <1>4, CalmIsSpec, PTL DEF Spec

\* audio_stop keeps HitInv: a binder thread that clears ctx->fd is seen by the play.
LEMMA StopHits ==
    ASSUME NEW p, OnePlayer(p), TypeInv,
           FileInv(p), HitInv(p),
           NEW t \in Threads, audio_stop(t)
    PROVE  HitInv(p)'
<1> USE DEF HitInv, Holding, Opened, FileInv, Before, AtRest, Opening, Closers, StopSteps,
        PlaySteps, EndSteps, ctx, local
<1>t. p \in Threads /\ p \notin Binders /\ ret[p] \in {"idle", "reset", "open"}
      /\ Threads = Binders \cup {p}
      /\ \A b \in Binders : ret[b] = "idle"
  BY Scalars
<1>m. ASSUME NEW step, Goto(t, step)
      PROVE  /\ pc'[t] = step
             /\ \A u \in Threads : u # t => pc'[u] = pc[u]
  BY <1>m, Moves
<1> USE <1>t, <1>m
<1>1. CASE StopCheck(t)
  BY <1>1 DEF StopCheck
<1>2. CASE StopPaused(t)
  BY <1>2 DEF StopPaused
<1>3. CASE StopLock(t)
  BY <1>3 DEF StopLock, Lock
<1>4. CASE StopClose(t)
  <2>1. pc[t] = "stopClose" /\ t \in Binders /\ UNCHANGED <<state, fd, plays, mine, how>>
    BY <1>4 DEF StopClose
  <2>2. hit'[p] = (hit[p] \/ Opened(p))
    <3> HIDE DEF Opened, HitInv
    <3> QED BY <1>4, <2>1 DEF StopClose, OnePlayer
  <2>3. hit'[p] <=> hit[p] \/ Opened(p)
    BY <2>2
  <2>4. CASE fd >= 0
    <3>1. Goto(t, "stopClear")
      BY <1>4, <2>4 DEF StopClose
    <3> QED BY <2>1, <2>3, <3>1
  <2>5. CASE ~(fd >= 0)
    <3>1. Goto(t, "stopOut")
      BY <1>4, <2>5 DEF StopClose
    <3> QED BY <2>1, <2>3, <3>1
  <2> QED BY <2>4, <2>5
<1>5. CASE StopClear(t)
  BY <1>5 DEF StopClear
<1>6. CASE StopOut(t)
  BY <1>6 DEF StopOut
<1>7. CASE StopState(t)
  BY <1>7 DEF StopState
<1>8. CASE StopUnlock(t)
  BY <1>8 DEF StopUnlock, Unlock
<1> QED BY <1>1, <1>2, <1>3, <1>4, <1>5, <1>6, <1>7, <1>8
    DEF audio_stop

\* So does the play, which clears ctx->fd only where it will not ask for it.
LEMMA PlayHits ==
    ASSUME NEW p, OnePlayer(p), TypeInv,
           FileInv(p), HitInv(p),
           audioInit(p) \/ Reset(p) \/ xxxPlay(p)
    PROVE  HitInv(p)'
<1> USE DEF HitInv, Holding, Opened, FileInv, Before, AtRest, Opening, Closers, StopSteps,
        PlaySteps, EndSteps, ctx, local
<1>t. /\ p \in Threads /\ p \notin Binders /\ ret[p] \in {"idle", "reset", "open"}
      /\ mine \in [{p} -> Nat] /\ how \in [{p} -> {"end", "io", "tail", "decode"}]
      /\ res \in [{p} -> {"ok", "error"}] /\ hit \in [{p} -> BOOLEAN]
      /\ codec \in [{p} -> Codecs] /\ plays \in Nat
  BY Scalars
<1>m. ASSUME NEW step, Goto(p, step) PROVE pc'[p] = step /\ \A b \in Binders : pc'[b] = pc[b]
  BY <1>m, <1>t, Moves
<1> USE <1>t, <1>m
<1>1. CASE audioInit(p)
  BY <1>1 DEF audioInit
<1>2. CASE Reset(p)
  BY <1>2 DEF Reset
<1>3. CASE OpenFile(p)
  BY <1>3 DEF OpenFile
<1>4. CASE NoFile(p)
  BY <1>4 DEF NoFile, Return
<1>5. CASE HeaderOk(p)
  BY <1>5 DEF HeaderOk
<1>6. CASE HeaderBad(p)
  BY <1>6 DEF HeaderBad, Leave, Return
<1>7. CASE audio_start(p)
  BY <1>7 DEF audio_start
<1>8. CASE StartBad(p)
  BY <1>8 DEF StartBad, Leave, Return
<1>9. CASE Play(p)
  BY <1>9 DEF Play, Lock
<1>10. CASE Playing(p)
  BY <1>10 DEF Playing, Unlock
<1>11. CASE LoopTest(p)
  BY <1>11 DEF LoopTest
<1>12. CASE DecodeData(p)
  BY <1>12 DEF DecodeData
<1>13. CASE DecodeEnd(p)
  BY <1>13 DEF DecodeEnd
<1>14. CASE ReadFails(p)
  BY <1>14 DEF ReadFails, Broken, Handle
<1>15. CASE DecodeFails(p)
  BY <1>15 DEF DecodeFails, Broken, Handle
<1>16. CASE AlacBroken(p)
  BY <1>16 DEF AlacBroken, Broken, Handle
<1>17. CASE WriteLock(p)
  BY <1>17 DEF WriteLock, Lock
<1>18. CASE WriteOk(p)
  BY <1>18 DEF WriteOk, Unlock, OutputTakes
<1>19. CASE WriteShort(p)
  BY <1>19 DEF WriteShort, Unlock
<1>20. CASE AlacWriteShort(p)
  BY <1>20 DEF AlacWriteShort, Unlock
<1>21. CASE Finish(p)
  BY <1>21 DEF Finish, Ended, Return
<1>22. CASE FinishPaused(p)
  BY <1>22 DEF FinishPaused, FirstOfFinish
<1>23. CASE FinishLock(p)
  BY <1>23 DEF FinishLock, Lock, FirstOfFinish
<1>24. CASE FinishClose(p)
  BY <1>24 DEF FinishClose, CloseFd
<1>25. CASE FinishClear(p)
  BY <1>25 DEF FinishClear
<1>26. CASE FinishState(p)
  BY <1>26 DEF FinishState
<1>27. CASE FinishUnlock(p)
  BY <1>27 DEF FinishUnlock, Unlock, Ended, Return
<1>28. CASE FdCheck(p)
  BY <1>28 DEF FdCheck, Return
<1>29. CASE FdClose(p)
  BY <1>29 DEF FdClose, CloseFd
<1>30. CASE FdClear(p)
  BY <1>30 DEF FdClear, Return
<1>31. CASE Drain(p)
  BY <1>31 DEF Drain, Return
<1>32. CASE DrainDone(p)
  BY <1>32 DEF DrainDone, Return
<1> QED BY <1>1, <1>2, <1>3, <1>4, <1>5, <1>6, <1>7, <1>8, <1>9, <1>10, <1>11, <1>12,
           <1>13, <1>14, <1>15, <1>16, <1>17, <1>18, <1>19, <1>20, <1>21, <1>22, <1>23,
           <1>24, <1>25, <1>26, <1>27, <1>28, <1>29, <1>30, <1>31, <1>32
    DEF xxxPlay, Decode, audio_write

\* So do the calls of the binder threads.
LEMMA BinderHits ==
    ASSUME NEW p, OnePlayer(p), TypeInv,
           FileInv(p), HitInv(p),
           NEW b \in Binders, BinderCalls(b) \/ BinderWork(b)
    PROVE  HitInv(p)'
<1> USE DEF HitInv, Holding, Opened, FileInv, Before, AtRest, Opening, Closers, StopSteps,
        PlaySteps, EndSteps, ctx, local
<1>t. p \in Threads /\ p \notin Binders /\ b \in Threads
  BY Scalars
<1>m. ASSUME NEW step, Goto(b, step)
      PROVE  /\ pc'[b] = step /\ pc'[p] = pc[p]
             /\ \A c \in Binders : c # b => pc'[c] = pc[c]
  BY <1>m, <1>t, Moves
<1> USE <1>t, <1>m
<1>1. CASE audioStop(b)
  BY <1>1 DEF audioStop
<1>2. CASE audioPause(b)
  BY <1>2 DEF audioPause
<1>3. CASE PauseLock(b)
  BY <1>3 DEF PauseLock, Lock
<1>4. CASE PauseState(b)
  BY <1>4 DEF PauseState
<1>5. CASE PauseOut(b)
  BY <1>5 DEF PauseOut
<1>6. CASE audioResume(b)
  BY <1>6 DEF audioResume
<1>7. CASE ResumeOut(b)
  BY <1>7 DEF ResumeOut
<1>8. CASE ResumeState(b)
  BY <1>8 DEF ResumeState
<1>9. CASE ResumeUnlock(b)
  BY <1>9 DEF ResumeUnlock, Unlock
<1>10. CASE audioSetVolume(b)
  BY <1>10 DEF audioSetVolume
<1>11. CASE VolumeLock(b)
  BY <1>11 DEF VolumeLock, Lock
<1>12. CASE VolumeUnlock(b)
  BY <1>12 DEF VolumeUnlock, Unlock
<1> QED BY <1>1, <1>2, <1>3, <1>4, <1>5, <1>6, <1>7, <1>8, <1>9, <1>10, <1>11, <1>12
    DEF BinderCalls, BinderWork

\* HitInv is inductive where FileInv holds.
LEMMA HitsStep ==
    ASSUME NEW p, OnePlayer(p), TypeInv, FileInv(p), HitInv(p), [Next]_vars
    PROVE  HitInv(p)'
<1>1. CASE \E q \in Players : audioInit(q) \/ PlayerWork(q)
  BY <1>1, PlayHits, StopHits DEF PlayerWork, OnePlayer, Threads
<1>2. CASE \E b \in Binders : BinderCalls(b) \/ audio_stop(b) \/ BinderWork(b)
  BY <1>2, BinderHits, StopHits DEF Threads
<1>3. CASE UNCHANGED vars
  BY <1>3 DEF vars, ctx, local, HitInv, Holding, Opened
<1> QED BY <1>1, <1>2, <1>3 DEF Next

\* "if(ctx->fd == -1) return 0; // we were stopped from the main thread" holds of a
\* play by every decoder, for every command and any number of threads that give them
\* and any number of tracks: a missing descriptor means that a binder thread stopped
\* the play.
THEOREM MissingFdMeansStopped ==
    ASSUME NEW q, OnePlayer(q)
    PROVE  CalmSpec => NoFdMeansStopped
<1>1. Init => HitInv(q)
  BY DEF Init, HitInv, Holding, OnePlayer, Threads
<1>2. TypeInv /\ FileInv(q) /\ HitInv(q) /\ [Next]_vars => HitInv(q)'
  BY HitsStep
<1>3. HitInv(q) /\ [Next]_vars => [\A p \in Players : FdCheck(p) /\ fd = -1 => hit[p]]_vars
  BY DEF HitInv, Holding, FdCheck, OnePlayer
<1>4. CalmSpec => [](TypeInv /\ FileInv(q))
  BY FileInductive
<1> QED BY <1>1, <1>2, <1>3, <1>4, CalmIsSpec, PTL DEF Spec, NoFdMeansStopped

\* The client only stops, with or without changes of the volume, wv and flac, which the
\* libmediacb plays and whose files are good.
Quiet ==
    /\ Commands \cap {"pause", "resume"} = {} /\ Mode = "CALLBACK"
    /\ Codecs \subseteq {"wv", "flac"} /\ "error" \notin Endings

\* audio_stop keeps SilentInv: it has cleared ctx->fd when it shuts the output.
LEMMA StopSilent ==
    ASSUME NEW p, OnePlayer(p), TypeInv,
           Quiet, MutexInv, FileInv(p), SilentInv(p),
           NEW t \in Threads, audio_stop(t)
    PROVE  SilentInv(p)'
<1> USE DEF SilentInv, Quiet, FileInv, Before, AtRest, Opening, Closers, StopSteps,
        PlaySteps, EndSteps, ctx, local
<1>t. p \in Threads /\ p \notin Binders /\ ret[p] \in {"idle", "reset", "open"}
      /\ Threads = Binders \cup {p}
      /\ \A b \in Binders : ret[b] = "idle"
  BY Scalars
<1>m. ASSUME NEW step, Goto(t, step)
      PROVE  /\ pc'[t] = step
             /\ \A u \in Threads : u # t => pc'[u] = pc[u]
  BY <1>m, Moves
<1> USE <1>t, <1>m
<1>y. /\ mutex \in Threads \cup {NoOne} /\ NoOne \notin Threads
      /\ Threads = Binders \cup {p} /\ p \notin Binders
  BY ThreadsAssumption, Scalars DEF TypeInv, TypeOK, Threads
<1> USE <1>y
<1>x. /\ \A u \in Threads : pc[u] \in Critical => mutex = u
      /\ state # "PAUSED" /\ \A c \in Binders :
            pc[c] \in {"idle", "volumeLock", "volumeUnlock"} \cup StopSteps
  BY DEF MutexInv, Sections, SectionsAreOwned, States, Unpaused
<1> USE <1>x DEF Critical
<1>1. CASE StopCheck(t)
  BY <1>1 DEF StopCheck
<1>2. CASE StopPaused(t)
  BY <1>2 DEF StopPaused
<1>3. CASE StopLock(t)
  BY <1>3 DEF StopLock, Lock
<1>4. CASE StopClose(t)
  BY <1>4 DEF StopClose, CloseFd
<1>5. CASE StopClear(t)
  BY <1>5 DEF StopClear
<1>6. CASE StopOut(t)
  BY <1>6 DEF StopOut
<1>7. CASE StopState(t)
  BY <1>7 DEF StopState
<1>8. CASE StopUnlock(t)
  BY <1>8 DEF StopUnlock, Unlock
<1> QED BY <1>1, <1>2, <1>3, <1>4, <1>5, <1>6, <1>7, <1>8
    DEF audio_stop

\* So does the play: a decoder that loses its file gets the mutex after the stop.
LEMMA PlaySilent ==
    ASSUME NEW p, OnePlayer(p), TypeInv,
           Quiet, MutexInv, FileInv(p), SilentInv(p), LostInv(p),
           audioInit(p) \/ Reset(p) \/ xxxPlay(p)
    PROVE  SilentInv(p)'
<1> USE DEF SilentInv, Quiet, FileInv, Before, AtRest, Opening, Closers, StopSteps,
        PlaySteps, EndSteps, ctx, local
<1> USE DEF LostInv, Resting
<1>t. /\ p \in Threads /\ p \notin Binders /\ ret[p] \in {"idle", "reset", "open"}
      /\ mine \in [{p} -> Nat] /\ how \in [{p} -> {"end", "io", "tail", "decode"}]
      /\ res \in [{p} -> {"ok", "error"}] /\ hit \in [{p} -> BOOLEAN]
      /\ codec \in [{p} -> Codecs] /\ plays \in Nat
  BY Scalars
<1>m. ASSUME NEW step, Goto(p, step) PROVE pc'[p] = step /\ \A b \in Binders : pc'[b] = pc[b]
  BY <1>m, <1>t, Moves
<1> USE <1>t, <1>m
<1>y. /\ mutex \in Threads \cup {NoOne} /\ NoOne \notin Threads
      /\ Threads = Binders \cup {p} /\ p \notin Binders
  BY ThreadsAssumption, Scalars DEF TypeInv, TypeOK, Threads
<1> USE <1>y
<1>x. /\ \A u \in Threads : pc[u] \in Critical => mutex = u
      /\ state # "PAUSED" /\ \A c \in Binders :
            pc[c] \in {"idle", "volumeLock", "volumeUnlock"} \cup StopSteps
  BY DEF MutexInv, Sections, SectionsAreOwned, States, Unpaused
<1> USE <1>x DEF Critical
<1>1. CASE audioInit(p)
  BY <1>1 DEF audioInit
<1>2. CASE Reset(p)
  BY <1>2 DEF Reset
<1>3. CASE OpenFile(p)
  BY <1>3 DEF OpenFile
<1>4. CASE NoFile(p)
  BY <1>4 DEF NoFile, Return
<1>5. CASE HeaderOk(p)
  BY <1>5 DEF HeaderOk
<1>6. CASE HeaderBad(p)
  BY <1>6 DEF HeaderBad, Leave, Return
<1>7. CASE audio_start(p)
  BY <1>7 DEF audio_start
<1>8. CASE StartBad(p)
  BY <1>8 DEF StartBad, Leave, Return
<1>9. CASE Play(p)
  BY <1>9 DEF Play, Lock
<1>10. CASE Playing(p)
  BY <1>10 DEF Playing, Unlock
<1>11. CASE LoopTest(p)
  BY <1>11 DEF LoopTest
<1>12. CASE DecodeData(p)
  BY <1>12 DEF DecodeData
<1>13. CASE DecodeEnd(p)
  BY <1>13 DEF DecodeEnd
<1>14. CASE ReadFails(p)
  BY <1>14 DEF ReadFails, Broken, Handle
<1>15. CASE DecodeFails(p)
  BY <1>15 DEF DecodeFails, Broken, Handle
<1>16. CASE AlacBroken(p)
  BY <1>16 DEF AlacBroken, Broken, Handle
<1>17. CASE WriteLock(p)
  BY <1>17 DEF WriteLock, Lock
<1>18. CASE WriteOk(p)
  BY <1>18 DEF WriteOk, Unlock, OutputTakes
<1>19. CASE WriteShort(p)
  BY <1>19 DEF WriteShort, Unlock
<1>20. CASE AlacWriteShort(p)
  BY <1>20 DEF AlacWriteShort, Unlock
<1>21. CASE Finish(p)
  BY <1>21 DEF Finish, Ended, Return
<1>22. CASE FinishPaused(p)
  BY <1>22 DEF FinishPaused, FirstOfFinish
<1>23. CASE FinishLock(p)
  BY <1>23 DEF FinishLock, Lock, FirstOfFinish
<1>24. CASE FinishClose(p)
  BY <1>24 DEF FinishClose, CloseFd
<1>25. CASE FinishClear(p)
  BY <1>25 DEF FinishClear
<1>26. CASE FinishState(p)
  BY <1>26 DEF FinishState
<1>27. CASE FinishUnlock(p)
  BY <1>27 DEF FinishUnlock, Unlock, Ended, Return
<1>28. CASE FdCheck(p)
  BY <1>28 DEF FdCheck, Return
<1>29. CASE FdClose(p)
  BY <1>29 DEF FdClose, CloseFd
<1>30. CASE FdClear(p)
  BY <1>30 DEF FdClear, Return
<1>31. CASE Drain(p)
  BY <1>31 DEF Drain, Return
<1>32. CASE DrainDone(p)
  BY <1>32 DEF DrainDone, Return
<1> QED BY <1>1, <1>2, <1>3, <1>4, <1>5, <1>6, <1>7, <1>8, <1>9, <1>10, <1>11, <1>12,
           <1>13, <1>14, <1>15, <1>16, <1>17, <1>18, <1>19, <1>20, <1>21, <1>22, <1>23,
           <1>24, <1>25, <1>26, <1>27, <1>28, <1>29, <1>30, <1>31, <1>32
    DEF xxxPlay, Decode, audio_write

\* So do the calls of the binder threads.
LEMMA BinderSilent ==
    ASSUME NEW p, OnePlayer(p), TypeInv,
           Quiet, MutexInv, FileInv(p), SilentInv(p),
           NEW b \in Binders, BinderCalls(b) \/ BinderWork(b)
    PROVE  SilentInv(p)'
<1> USE DEF SilentInv, Quiet, FileInv, Before, AtRest, Opening, Closers, StopSteps,
        PlaySteps, EndSteps, ctx, local
<1>t. p \in Threads /\ p \notin Binders /\ b \in Threads
  BY Scalars
<1>m. ASSUME NEW step, Goto(b, step)
      PROVE  /\ pc'[b] = step /\ pc'[p] = pc[p]
             /\ \A c \in Binders : c # b => pc'[c] = pc[c]
  BY <1>m, <1>t, Moves
<1> USE <1>t, <1>m
<1>y. /\ mutex \in Threads \cup {NoOne} /\ NoOne \notin Threads
      /\ Threads = Binders \cup {p} /\ p \notin Binders
  BY ThreadsAssumption, Scalars DEF TypeInv, TypeOK, Threads
<1> USE <1>y
<1>x. /\ \A u \in Threads : pc[u] \in Critical => mutex = u
      /\ state # "PAUSED" /\ \A c \in Binders :
            pc[c] \in {"idle", "volumeLock", "volumeUnlock"} \cup StopSteps
  BY DEF MutexInv, Sections, SectionsAreOwned, States, Unpaused
<1> USE <1>x DEF Critical
<1>1. CASE audioStop(b)
  BY <1>1 DEF audioStop
<1>2. CASE audioPause(b)
  BY <1>2 DEF audioPause
<1>3. CASE PauseLock(b)
  BY <1>3 DEF PauseLock, Lock
<1>4. CASE PauseState(b)
  BY <1>4 DEF PauseState
<1>5. CASE PauseOut(b)
  BY <1>5 DEF PauseOut
<1>6. CASE audioResume(b)
  BY <1>6 DEF audioResume
<1>7. CASE ResumeOut(b)
  BY <1>7 DEF ResumeOut
<1>8. CASE ResumeState(b)
  BY <1>8 DEF ResumeState
<1>9. CASE ResumeUnlock(b)
  BY <1>9 DEF ResumeUnlock, Unlock
<1>10. CASE audioSetVolume(b)
  BY <1>10 DEF audioSetVolume
<1>11. CASE VolumeLock(b)
  BY <1>11 DEF VolumeLock, Lock
<1>12. CASE VolumeUnlock(b)
  BY <1>12 DEF VolumeUnlock, Unlock
<1> QED BY <1>1, <1>2, <1>3, <1>4, <1>5, <1>6, <1>7, <1>8, <1>9, <1>10, <1>11, <1>12
    DEF BinderCalls, BinderWork

\* SilentInv is inductive together with LostInv.
LEMMA SilentStep ==
    ASSUME NEW p, OnePlayer(p), TypeInv, Quiet, MutexInv,
           FileInv(p), SilentInv(p), LostInv(p), [Next]_vars
    PROVE  SilentInv(p)'
<1>1. CASE \E q \in Players : audioInit(q) \/ PlayerWork(q)
  BY <1>1, PlaySilent, StopSilent DEF PlayerWork, OnePlayer, Threads
<1>2. CASE \E b \in Binders : BinderCalls(b) \/ audio_stop(b) \/ BinderWork(b)
  BY <1>2, BinderSilent, StopSilent DEF Threads
<1>3. CASE UNCHANGED vars
  BY <1>3 DEF vars, ctx, local, SilentInv
<1> QED BY <1>1, <1>2, <1>3 DEF Next

\* audio_stop keeps LostInv: between the close and the clear it holds the mutex.
LEMMA StopLost ==
    ASSUME NEW p, OnePlayer(p), TypeInv,
           Quiet, MutexInv, FileInv(p), LostInv(p),
           NEW t \in Threads, audio_stop(t)
    PROVE  LostInv(p)'
<1> USE DEF LostInv, Resting, Quiet, FileInv, Before, AtRest, Opening, Closers, StopSteps,
        PlaySteps, EndSteps, ctx, local
<1>t. p \in Threads /\ p \notin Binders /\ ret[p] \in {"idle", "reset", "open"}
      /\ Threads = Binders \cup {p}
      /\ \A b \in Binders : ret[b] = "idle"
  BY Scalars
<1>m. ASSUME NEW step, Goto(t, step)
      PROVE  /\ pc'[t] = step
             /\ \A u \in Threads : u # t => pc'[u] = pc[u]
  BY <1>m, Moves
<1> USE <1>t, <1>m
<1>y. /\ mutex \in Threads \cup {NoOne} /\ NoOne \notin Threads
      /\ Threads = Binders \cup {p} /\ p \notin Binders
  BY ThreadsAssumption, Scalars DEF TypeInv, TypeOK, Threads
<1> USE <1>y
<1>x. /\ \A u \in Threads : pc[u] \in Critical => mutex = u
      /\ state # "PAUSED" /\ \A c \in Binders :
            pc[c] \in {"idle", "volumeLock", "volumeUnlock"} \cup StopSteps
  BY DEF MutexInv, Sections, SectionsAreOwned, States, Unpaused
<1> USE <1>x DEF Critical
<1>1. CASE StopCheck(t)
  BY <1>1 DEF StopCheck
<1>2. CASE StopPaused(t)
  BY <1>2 DEF StopPaused
<1>3. CASE StopLock(t)
  BY <1>3 DEF StopLock, Lock
<1>4. CASE StopClose(t)
  BY <1>4 DEF StopClose, CloseFd
<1>5. CASE StopClear(t)
  BY <1>5 DEF StopClear
<1>6. CASE StopOut(t)
  BY <1>6 DEF StopOut
<1>7. CASE StopState(t)
  BY <1>7 DEF StopState
<1>8. CASE StopUnlock(t)
  BY <1>8 DEF StopUnlock, Unlock
<1> QED BY <1>1, <1>2, <1>3, <1>4, <1>5, <1>6, <1>7, <1>8
    DEF audio_stop

\* So does the play.
LEMMA PlayLost ==
    ASSUME NEW p, OnePlayer(p), TypeInv,
           Quiet, MutexInv, FileInv(p), LostInv(p), SilentInv(p),
           audioInit(p) \/ Reset(p) \/ xxxPlay(p)
    PROVE  LostInv(p)'
<1> USE DEF LostInv, Resting, Quiet, FileInv, Before, AtRest, Opening, Closers, StopSteps,
        PlaySteps, EndSteps, ctx, local
<1> USE DEF SilentInv
<1>t. /\ p \in Threads /\ p \notin Binders /\ ret[p] \in {"idle", "reset", "open"}
      /\ mine \in [{p} -> Nat] /\ how \in [{p} -> {"end", "io", "tail", "decode"}]
      /\ res \in [{p} -> {"ok", "error"}] /\ hit \in [{p} -> BOOLEAN]
      /\ codec \in [{p} -> Codecs] /\ plays \in Nat
  BY Scalars
<1>m. ASSUME NEW step, Goto(p, step) PROVE pc'[p] = step /\ \A b \in Binders : pc'[b] = pc[b]
  BY <1>m, <1>t, Moves
<1> USE <1>t, <1>m
<1>y. /\ mutex \in Threads \cup {NoOne} /\ NoOne \notin Threads
      /\ Threads = Binders \cup {p} /\ p \notin Binders
  BY ThreadsAssumption, Scalars DEF TypeInv, TypeOK, Threads
<1> USE <1>y
<1>x. /\ \A u \in Threads : pc[u] \in Critical => mutex = u
      /\ state # "PAUSED" /\ \A c \in Binders :
            pc[c] \in {"idle", "volumeLock", "volumeUnlock"} \cup StopSteps
  BY DEF MutexInv, Sections, SectionsAreOwned, States, Unpaused
<1> USE <1>x DEF Critical
<1>1. CASE audioInit(p)
  BY <1>1 DEF audioInit
<1>2. CASE Reset(p)
  BY <1>2 DEF Reset
<1>3. CASE OpenFile(p)
  BY <1>3 DEF OpenFile
<1>4. CASE NoFile(p)
  BY <1>4 DEF NoFile, Return
<1>5. CASE HeaderOk(p)
  BY <1>5 DEF HeaderOk
<1>6. CASE HeaderBad(p)
  BY <1>6 DEF HeaderBad, Leave, Return
<1>7. CASE audio_start(p)
  BY <1>7 DEF audio_start
<1>8. CASE StartBad(p)
  BY <1>8 DEF StartBad, Leave, Return
<1>9. CASE Play(p)
  BY <1>9 DEF Play, Lock
<1>10. CASE Playing(p)
  BY <1>10 DEF Playing, Unlock
<1>11. CASE LoopTest(p)
  BY <1>11 DEF LoopTest
<1>12. CASE DecodeData(p)
  BY <1>12 DEF DecodeData
<1>13. CASE DecodeEnd(p)
  BY <1>13 DEF DecodeEnd
<1>14. CASE ReadFails(p)
  BY <1>14 DEF ReadFails, Broken, Handle
<1>15. CASE DecodeFails(p)
  BY <1>15 DEF DecodeFails, Broken, Handle
<1>16. CASE AlacBroken(p)
  BY <1>16 DEF AlacBroken, Broken, Handle
<1>17. CASE WriteLock(p)
  BY <1>17 DEF WriteLock, Lock
<1>18. CASE WriteOk(p)
  BY <1>18 DEF WriteOk, Unlock, OutputTakes
<1>19. CASE WriteShort(p)
  BY <1>19 DEF WriteShort, Unlock
<1>20. CASE AlacWriteShort(p)
  BY <1>20 DEF AlacWriteShort, Unlock
<1>21. CASE Finish(p)
  BY <1>21 DEF Finish, Ended, Return
<1>22. CASE FinishPaused(p)
  BY <1>22 DEF FinishPaused, FirstOfFinish
<1>23. CASE FinishLock(p)
  BY <1>23 DEF FinishLock, Lock, FirstOfFinish
<1>24. CASE FinishClose(p)
  BY <1>24 DEF FinishClose, CloseFd
<1>25. CASE FinishClear(p)
  BY <1>25 DEF FinishClear
<1>26. CASE FinishState(p)
  BY <1>26 DEF FinishState
<1>27. CASE FinishUnlock(p)
  BY <1>27 DEF FinishUnlock, Unlock, Ended, Return
<1>28. CASE FdCheck(p)
  BY <1>28 DEF FdCheck, Return
<1>29. CASE FdClose(p)
  BY <1>29 DEF FdClose, CloseFd
<1>30. CASE FdClear(p)
  BY <1>30 DEF FdClear, Return
<1>31. CASE Drain(p)
  BY <1>31 DEF Drain, Return
<1>32. CASE DrainDone(p)
  BY <1>32 DEF DrainDone, Return
<1> QED BY <1>1, <1>2, <1>3, <1>4, <1>5, <1>6, <1>7, <1>8, <1>9, <1>10, <1>11, <1>12,
           <1>13, <1>14, <1>15, <1>16, <1>17, <1>18, <1>19, <1>20, <1>21, <1>22, <1>23,
           <1>24, <1>25, <1>26, <1>27, <1>28, <1>29, <1>30, <1>31, <1>32
    DEF xxxPlay, Decode, audio_write

\* So do the calls of the binder threads.
LEMMA BinderLost ==
    ASSUME NEW p, OnePlayer(p), TypeInv,
           Quiet, MutexInv, FileInv(p), LostInv(p),
           NEW b \in Binders, BinderCalls(b) \/ BinderWork(b)
    PROVE  LostInv(p)'
<1> USE DEF LostInv, Resting, Quiet, FileInv, Before, AtRest, Opening, Closers, StopSteps,
        PlaySteps, EndSteps, ctx, local
<1>t. p \in Threads /\ p \notin Binders /\ b \in Threads
  BY Scalars
<1>m. ASSUME NEW step, Goto(b, step)
      PROVE  /\ pc'[b] = step /\ pc'[p] = pc[p]
             /\ \A c \in Binders : c # b => pc'[c] = pc[c]
  BY <1>m, <1>t, Moves
<1> USE <1>t, <1>m
<1>y. /\ mutex \in Threads \cup {NoOne} /\ NoOne \notin Threads
      /\ Threads = Binders \cup {p} /\ p \notin Binders
  BY ThreadsAssumption, Scalars DEF TypeInv, TypeOK, Threads
<1> USE <1>y
<1>x. /\ \A u \in Threads : pc[u] \in Critical => mutex = u
      /\ state # "PAUSED" /\ \A c \in Binders :
            pc[c] \in {"idle", "volumeLock", "volumeUnlock"} \cup StopSteps
  BY DEF MutexInv, Sections, SectionsAreOwned, States, Unpaused
<1> USE <1>x DEF Critical
<1>1. CASE audioStop(b)
  BY <1>1 DEF audioStop
<1>2. CASE audioPause(b)
  BY <1>2 DEF audioPause
<1>3. CASE PauseLock(b)
  BY <1>3 DEF PauseLock, Lock
<1>4. CASE PauseState(b)
  BY <1>4 DEF PauseState
<1>5. CASE PauseOut(b)
  BY <1>5 DEF PauseOut
<1>6. CASE audioResume(b)
  BY <1>6 DEF audioResume
<1>7. CASE ResumeOut(b)
  BY <1>7 DEF ResumeOut
<1>8. CASE ResumeState(b)
  BY <1>8 DEF ResumeState
<1>9. CASE ResumeUnlock(b)
  BY <1>9 DEF ResumeUnlock, Unlock
<1>10. CASE audioSetVolume(b)
  BY <1>10 DEF audioSetVolume
<1>11. CASE VolumeLock(b)
  BY <1>11 DEF VolumeLock, Lock
<1>12. CASE VolumeUnlock(b)
  BY <1>12 DEF VolumeUnlock, Unlock
<1> QED BY <1>1, <1>2, <1>3, <1>4, <1>5, <1>6, <1>7, <1>8, <1>9, <1>10, <1>11, <1>12
    DEF BinderCalls, BinderWork

\* LostInv is inductive together with SilentInv.
LEMMA LostStep ==
    ASSUME NEW p, OnePlayer(p), TypeInv, Quiet, MutexInv,
           FileInv(p), SilentInv(p), LostInv(p), [Next]_vars
    PROVE  LostInv(p)'
<1>1. CASE \E q \in Players : audioInit(q) \/ PlayerWork(q)
  BY <1>1, PlayLost, StopLost DEF PlayerWork, OnePlayer, Threads
<1>2. CASE \E b \in Binders : BinderCalls(b) \/ audio_stop(b) \/ BinderWork(b)
  BY <1>2, BinderLost, StopLost DEF Threads
<1>3. CASE UNCHANGED vars
  BY <1>3 DEF vars, ctx, local, LostInv, Resting, AtRest
<1> QED BY <1>1, <1>2, <1>3 DEF Next

LEMMA SilentInductive ==
    ASSUME NEW q, OnePlayer(q), Quiet
    PROVE  CalmSpec => [](MutexInv /\ FileInv(q) /\ SilentInv(q) /\ LostInv(q))
<1>1. Init => SilentInv(q) /\ LostInv(q)
  BY DEF Init, SilentInv, LostInv, Opening, PlaySteps, OnePlayer, Threads
<1>2. /\ TypeInv /\ MutexInv /\ FileInv(q) /\ SilentInv(q) /\ LostInv(q) /\ [Next]_vars
      => SilentInv(q)' /\ LostInv(q)'
  BY SilentStep, LostStep
<1>3. CalmSpec => []MutexInv
  BY MutexInductive, CalmIsSpec, PTL DEF Quiet
<1>4. CalmSpec => [](TypeInv /\ FileInv(q))
  BY FileInductive
<1> QED BY <1>1, <1>2, <1>3, <1>4, CalmIsSpec, PTL DEF Spec

\* A stopped play returns 0 and no error, which would end the playlist with a message
\* to the user (AndLessSrv.java:479): for wv and flac files that are good, any number
\* of tracks and any number of threads that stop one at once.
THEOREM StopIsNoError ==
    ASSUME NEW q, OnePlayer(q), Quiet
    PROVE  CalmSpec => StoppedPlayIsSilent
<1>1. TypeInv /\ SilentInv(q) /\ [Next]_vars =>
        [\A p \in Players :
            (pc[p] \in EndSteps /\ pc'[p] = "idle" /\ hit[p]) => res'[p] = "ok"]_vars
  <2> SUFFICES ASSUME TypeInv, SilentInv(q), Next, pc[q] \in EndSteps, pc'[q] = "idle"
               PROVE  res'[q] = "ok"
    BY DEF OnePlayer
  <2>1. res \in [{q} -> {"ok", "error"}] /\ q \in Threads /\ Binders \subseteq Threads
    BY Scalars
  <2>2. ASSUME NEW t \in Threads, NEW step, Goto(t, step)
        PROVE  t = q /\ step = "idle"
    <3>1. pc'[t] = step /\ (t # q => pc'[q] = pc[q])
      BY <2>1, <2>2, Moves
    <3> QED BY <3>1 DEF EndSteps
  <2>3. ~ \E b \in Binders : BinderCalls(b) \/ audio_stop(b) \/ BinderWork(b)
    <3> SUFFICES ASSUME NEW b \in Binders, BinderCalls(b) \/ audio_stop(b) \/ BinderWork(b)
                 PROVE  \E step : Goto(b, step)
      BY <2>1, <2>2, Scalars
    <3>1. CASE BinderCalls(b)
      BY <3>1 DEF BinderCalls, audioStop, audioPause, audioResume, audioSetVolume
    <3>2. CASE audio_stop(b)
      BY <3>2 DEF audio_stop, StopCheck, StopPaused, StopLock, StopClose, StopClear,
                  StopOut, StopState, StopUnlock
    <3>3. CASE BinderWork(b)
      BY <3>3 DEF BinderWork, PauseLock, PauseState, PauseOut, ResumeOut, ResumeState,
                  ResumeUnlock, VolumeLock, VolumeUnlock
    <3> QED BY <3>1, <3>2, <3>3
  <2>4. audioInit(q) \/ PlayerWork(q)
    BY <2>3 DEF Next, OnePlayer
  <2>5. \/ Finish(q) \/ FinishPaused(q) \/ FinishLock(q) \/ FinishClose(q)
        \/ FinishClear(q) \/ FinishState(q) \/ FinishUnlock(q)
        \/ FdCheck(q) \/ FdClose(q) \/ FdClear(q) \/ Drain(q) \/ DrainDone(q)
    BY <2>4
        DEF EndSteps, PlayerWork, audioInit, audio_stop, StopCheck, StopPaused, StopLock,
            StopClose, StopClear, StopOut, StopState, StopUnlock, Reset, xxxPlay, OpenFile,
            NoFile, HeaderOk, HeaderBad, audio_start, StartBad, Play, Playing, LoopTest,
            Decode, DecodeData, DecodeEnd, ReadFails, DecodeFails, AlacBroken, WriteLock,
            audio_write, WriteOk, OutputTakes, WriteShort, AlacWriteShort
  <2>6. how[q] # "decode" /\ res[q] = "ok" /\ pc[q] \notin {"fdclose", "fdclear"}
    BY DEF SilentInv, EndSteps
  <2>7. CASE Finish(q)
    BY <2>1, <2>6, <2>7 DEF Finish, Ended
  <2>8. CASE FinishUnlock(q)
    BY <2>1, <2>6, <2>8 DEF FinishUnlock, Ended
  <2>9. CASE FdCheck(q) \/ Drain(q) \/ DrainDone(q)
    BY <2>1, <2>6, <2>9 DEF FdCheck, Drain, DrainDone, Return
  <2> QED BY <2>1, <2>2, <2>5, <2>6, <2>7, <2>8, <2>9
      DEF FinishPaused, FirstOfFinish, FinishLock, FinishClose, FinishClear, FinishState,
          FdClose, FdClear
<1>2. CalmSpec => [](MutexInv /\ FileInv(q) /\ SilentInv(q) /\ LostInv(q))
  BY SilentInductive
<1>3. CalmSpec => [](TypeInv /\ FileInv(q))
  BY FileInductive
<1> QED BY <1>1, <1>2, <1>3, CalmIsSpec, PTL DEF Spec, StoppedPlayIsSilent

\* Nor does anybody close a descriptor number a second time, when it may already be the
\* file of another thread: whoever comes to close finds it open, or cleared.
THEOREM FileClosedOnce ==
    ASSUME NEW q, OnePlayer(q), Quiet
    PROVE  CalmSpec => ClosedOnce
<1>1. MutexInv /\ FileInv(q) /\ SilentInv(q) /\ LostInv(q) =>
        [\A t \in Threads :
            (StopClose(t) \/ FinishClose(t) \/ FdClose(t)) => fd \in fds \cup {-1}]_vars
  <2> SUFFICES ASSUME MutexInv, FileInv(q), SilentInv(q), LostInv(q), NEW t \in Threads,
                      pc[t] \in {"stopClose", "finishClose", "fdclose"},
                      fd \notin fds \cup {-1}
               PROVE  FALSE
    BY DEF StopClose, FinishClose, FdClose
  <2>1. t = q \/ t \in Binders
    BY DEF OnePlayer, Threads
  <2>2. ~Before(q)
    BY <2>1 DEF FileInv, Before, Opening, AtRest, StopSteps
  <2>3. fd = plays /\ plays > 0 /\ plays \notin fds
    BY <2>2 DEF FileInv, Before, Opening
  <2>4. pc[t] \in Critical
    BY <2>1 DEF Critical, SilentInv, Unpaused, MutexInv, FileInv, StopSteps
  <2>5. mutex = t
    BY <2>4 DEF MutexInv, Sections, SectionsAreOwned
  <2>6. Resting(q)
    BY <2>3, <2>5 DEF LostInv
  <2> QED BY <2>1, <2>6 DEF Resting, AtRest
<1>2. CalmSpec => [](MutexInv /\ FileInv(q) /\ SilentInv(q) /\ LostInv(q))
  BY SilentInductive
<1> QED BY <1>1, <1>2, PTL DEF ClosedOnce

---------------------------------------------------------------------------
\* The player p, whose tracks do not end, and one binder thread, b, which pauses and
\* resumes it.  After the end of a track, or with a second thread that resumes, a late
\* audioResume unlocks the mutex of another section.

OnePair(p, b) ==
    /\ Players = {p} /\ Binders = {b} /\ Mode = "CALLBACK"
    /\ "stop" \notin Commands /\ Endings = {}

Looping == {"playing", "loop", "decode", "write", "writing"}

\* Up to its own lock the play has the context for itself; then it has an open file and
\* an open output for good.
ReadyInv(p, b) ==
    /\ pc[p] \in {"idle", "stopCheck", "reset", "open", "header", "start", "play"} \cup Looping
    /\ pc[p] \notin Looping => state = "STOPPED" /\ mutex = NoOne /\ pc[b] = "idle"
    /\ pc[p] \in {"header", "start", "play"} \cup Looping => fd \in fds /\ mine[p] \in fds
    /\ pc[p] \in {"play"} \cup Looping => out = "open"

\* Once it plays, state and mutex follow from where the two threads are.
TurnInv(p, b) ==
    pc[p] \in Looping =>
        /\ pc[p] \in {"playing", "writing"} =>
              mutex = p /\ state = "PLAYING" /\ pc[b] \in {"idle", "pauseLock"}
        /\ pc[b] = "pauseLock" => state = "PLAYING"
        /\ pc[b] \in {"idle", "pauseLock"} /\ state = "PLAYING" /\ mutex # NoOne =>
              pc[p] \in {"playing", "writing"}
        /\ pc[b] = "idle" => state # "STOPPED" /\ (state = "PAUSED" => mutex = b)
        /\ pc[b] \in {"pauseState", "resumeUnlock"} => state = "PLAYING" /\ mutex = b
        /\ pc[b] \in {"pauseOut", "resumeOut", "resumeState"} => state = "PAUSED" /\ mutex = b
        /\ pc[b] \in {"idle", "pauseLock", "pauseState", "pauseOut", "resumeOut", "resumeState",
                      "resumeUnlock"}

\* What the invariants of the pair use of the types.
LEMMA PairTypes ==
    ASSUME NEW p, NEW b, OnePair(p, b), TypeInv
    PROVE  /\ p # b /\ Threads = {p, b} /\ p \in Threads /\ b \in Threads
           /\ NoOne \notin Threads /\ mutex \in Threads \cup {NoOne}
           /\ state \in {"STOPPED", "PLAYING", "PAUSED"} /\ ret[p] \in {"idle", "reset", "open"}
           /\ pc[p] \in PlayerSteps \cup StopSteps /\ pc[b] \in BinderSteps \cup StopSteps
           /\ fd \in Int /\ fds \subseteq Nat /\ mine[p] \in Nat
           /\ Mode = "CALLBACK" /\ Endings = {} /\ "stop" \notin Commands
<1>1. p # b /\ Threads = {p, b} /\ p \in Threads /\ b \in Threads /\ NoOne \notin Threads
  BY ThreadsAssumption DEF OnePair, Threads
<1>2. p \in Players /\ b \in Binders
  BY DEF OnePair
<1>3. ret[p] \in {"idle", "reset", "open"} /\ mine[p] \in Nat
  BY <1>1, <1>2 DEF TypeInv, TypeOK
<1>4. pc[p] \in PlayerSteps \cup StopSteps /\ pc[b] \in BinderSteps \cup StopSteps
  BY <1>1, <1>2 DEF TypeInv, TypeOK
<1>5. /\ mutex \in Threads \cup {NoOne} /\ state \in {"STOPPED", "PLAYING", "PAUSED"}
      /\ fd \in Int /\ fds \subseteq Nat
  BY DEF TypeInv, TypeOK
<1> QED BY <1>1, <1>3, <1>4, <1>5 DEF OnePair

\* audio_stop, which only the play calls, finds the context stopped.
LEMMA StopPair ==
    ASSUME NEW p, NEW b, OnePair(p, b), TypeInv, ReadyInv(p, b), TurnInv(p, b),
           NEW t \in Threads, audio_stop(t)
    PROVE  ReadyInv(p, b)' /\ TurnInv(p, b)'
<1> USE DEF ReadyInv, TurnInv, Looping, StopSteps, PlaySteps, EndSteps, ctx, local
<1>t. /\ p # b /\ Threads = {p, b} /\ p \in Threads /\ b \in Threads
      /\ NoOne \notin Threads /\ mutex \in Threads \cup {NoOne}
      /\ state \in {"STOPPED", "PLAYING", "PAUSED"} /\ ret[p] \in {"idle", "reset", "open"}
      /\ pc[p] \in PlayerSteps \cup StopSteps /\ pc[b] \in BinderSteps \cup StopSteps
      /\ fd \in Int /\ fds \subseteq Nat /\ mine[p] \in Nat
      /\ Mode = "CALLBACK" /\ Endings = {} /\ "stop" \notin Commands
  BY PairTypes
<1>m. ASSUME NEW u \in Threads, NEW step, Goto(u, step)
      PROVE  \A v \in Threads : pc'[v] = IF v = u THEN step ELSE pc[v]
  BY <1>m DEF Goto, TypeInv, TypeOK
<1> USE <1>t, <1>m
<1>1. CASE StopCheck(t)
  BY <1>1 DEF StopCheck
<1>2. CASE StopPaused(t)
  BY <1>2 DEF StopPaused
<1>3. CASE StopLock(t)
  BY <1>3 DEF StopLock, Lock
<1>4. CASE StopClose(t)
  BY <1>4 DEF StopClose, CloseFd
<1>5. CASE StopClear(t)
  BY <1>5 DEF StopClear
<1>6. CASE StopOut(t)
  BY <1>6 DEF StopOut
<1>7. CASE StopState(t)
  BY <1>7 DEF StopState
<1>8. CASE StopUnlock(t)
  BY <1>8 DEF StopUnlock, Unlock
<1> QED BY <1>1, <1>2, <1>3, <1>4, <1>5, <1>6, <1>7, <1>8
    DEF audio_stop

\* The play keeps its turn.
LEMMA PlayPair ==
    ASSUME NEW p, NEW b, OnePair(p, b), TypeInv, ReadyInv(p, b), TurnInv(p, b),
           audioInit(p) \/ Reset(p) \/ xxxPlay(p)
    PROVE  ReadyInv(p, b)' /\ TurnInv(p, b)'
<1> USE DEF ReadyInv, TurnInv, Looping, StopSteps, PlaySteps, EndSteps, ctx, local
<1>t. /\ p # b /\ Threads = {p, b} /\ p \in Threads /\ b \in Threads
      /\ NoOne \notin Threads /\ mutex \in Threads \cup {NoOne}
      /\ state \in {"STOPPED", "PLAYING", "PAUSED"} /\ ret[p] \in {"idle", "reset", "open"}
      /\ pc[p] \in PlayerSteps \cup StopSteps /\ pc[b] \in BinderSteps \cup StopSteps
      /\ fd \in Int /\ fds \subseteq Nat /\ mine[p] \in Nat
      /\ Mode = "CALLBACK" /\ Endings = {} /\ "stop" \notin Commands
  BY PairTypes
<1>m. ASSUME NEW u \in Threads, NEW step, Goto(u, step)
      PROVE  \A v \in Threads : pc'[v] = IF v = u THEN step ELSE pc[v]
  BY <1>m DEF Goto, TypeInv, TypeOK
<1> USE <1>t, <1>m
<1>1. CASE audioInit(p)
  BY <1>1 DEF audioInit
<1>2. CASE Reset(p)
  BY <1>2 DEF Reset
<1>3. CASE OpenFile(p)
  BY <1>3 DEF OpenFile
<1>4. CASE NoFile(p)
  BY <1>4 DEF NoFile, Return
<1>5. CASE HeaderOk(p)
  BY <1>5 DEF HeaderOk
<1>6. CASE HeaderBad(p)
  BY <1>6 DEF HeaderBad, Leave, Return
<1>7. CASE audio_start(p)
  BY <1>7 DEF audio_start
<1>8. CASE StartBad(p)
  BY <1>8 DEF StartBad, Leave, Return
<1>9. CASE Play(p)
  BY <1>9 DEF Play, Lock
<1>10. CASE Playing(p)
  BY <1>10 DEF Playing, Unlock
<1>11. CASE LoopTest(p)
  BY <1>11 DEF LoopTest
<1>12. CASE DecodeData(p)
  BY <1>12 DEF DecodeData
<1>13. CASE DecodeEnd(p)
  BY <1>13 DEF DecodeEnd
<1>14. CASE ReadFails(p)
  BY <1>14 DEF ReadFails, Broken, Handle
<1>15. CASE DecodeFails(p)
  BY <1>15 DEF DecodeFails, Broken, Handle
<1>16. CASE AlacBroken(p)
  BY <1>16 DEF AlacBroken, Broken, Handle
<1>17. CASE WriteLock(p)
  BY <1>17 DEF WriteLock, Lock
<1>18. CASE WriteOk(p)
  BY <1>18 DEF WriteOk, Unlock, OutputTakes
<1>19. CASE WriteShort(p)
  BY <1>19 DEF WriteShort, Unlock
<1>20. CASE AlacWriteShort(p)
  BY <1>20 DEF AlacWriteShort, Unlock
<1>21. CASE Finish(p)
  BY <1>21 DEF Finish, Ended, Return
<1>22. CASE FinishPaused(p)
  BY <1>22 DEF FinishPaused, FirstOfFinish
<1>23. CASE FinishLock(p)
  BY <1>23 DEF FinishLock, Lock, FirstOfFinish
<1>24. CASE FinishClose(p)
  BY <1>24 DEF FinishClose, CloseFd
<1>25. CASE FinishClear(p)
  BY <1>25 DEF FinishClear
<1>26. CASE FinishState(p)
  BY <1>26 DEF FinishState
<1>27. CASE FinishUnlock(p)
  BY <1>27 DEF FinishUnlock, Unlock, Ended, Return
<1>28. CASE FdCheck(p)
  BY <1>28 DEF FdCheck, Return
<1>29. CASE FdClose(p)
  BY <1>29 DEF FdClose, CloseFd
<1>30. CASE FdClear(p)
  BY <1>30 DEF FdClear, Return
<1>31. CASE Drain(p)
  BY <1>31 DEF Drain, Return
<1>32. CASE DrainDone(p)
  BY <1>32 DEF DrainDone, Return
<1> QED BY <1>1, <1>2, <1>3, <1>4, <1>5, <1>6, <1>7, <1>8, <1>9, <1>10, <1>11, <1>12,
           <1>13, <1>14, <1>15, <1>16, <1>17, <1>18, <1>19, <1>20, <1>21, <1>22, <1>23,
           <1>24, <1>25, <1>26, <1>27, <1>28, <1>29, <1>30, <1>31, <1>32
    DEF xxxPlay, Decode, audio_write

\* So do a pause and a resume.
LEMMA BinderPair ==
    ASSUME NEW p, NEW b, OnePair(p, b), TypeInv, ReadyInv(p, b), TurnInv(p, b),
           BinderCalls(b) \/ BinderWork(b)
    PROVE  ReadyInv(p, b)' /\ TurnInv(p, b)'
<1> USE DEF ReadyInv, TurnInv, Looping, StopSteps, PlaySteps, EndSteps, ctx, local
<1>t. /\ p # b /\ Threads = {p, b} /\ p \in Threads /\ b \in Threads
      /\ NoOne \notin Threads /\ mutex \in Threads \cup {NoOne}
      /\ state \in {"STOPPED", "PLAYING", "PAUSED"} /\ ret[p] \in {"idle", "reset", "open"}
      /\ pc[p] \in PlayerSteps \cup StopSteps /\ pc[b] \in BinderSteps \cup StopSteps
      /\ fd \in Int /\ fds \subseteq Nat /\ mine[p] \in Nat
      /\ Mode = "CALLBACK" /\ Endings = {} /\ "stop" \notin Commands
  BY PairTypes
<1>m. ASSUME NEW u \in Threads, NEW step, Goto(u, step)
      PROVE  \A v \in Threads : pc'[v] = IF v = u THEN step ELSE pc[v]
  BY <1>m DEF Goto, TypeInv, TypeOK
<1> USE <1>t, <1>m
<1>1. CASE audioStop(b)
  BY <1>1 DEF audioStop
<1>2. CASE audioPause(b)
  BY <1>2 DEF audioPause
<1>3. CASE PauseLock(b)
  BY <1>3 DEF PauseLock, Lock
<1>4. CASE PauseState(b)
  BY <1>4 DEF PauseState
<1>5. CASE PauseOut(b)
  BY <1>5 DEF PauseOut
<1>6. CASE audioResume(b)
  BY <1>6 DEF audioResume
<1>7. CASE ResumeOut(b)
  BY <1>7 DEF ResumeOut
<1>8. CASE ResumeState(b)
  BY <1>8 DEF ResumeState
<1>9. CASE ResumeUnlock(b)
  BY <1>9 DEF ResumeUnlock, Unlock
<1>10. CASE audioSetVolume(b)
  BY <1>10 DEF audioSetVolume
<1>11. CASE VolumeLock(b)
  BY <1>11 DEF VolumeLock, Lock
<1>12. CASE VolumeUnlock(b)
  BY <1>12 DEF VolumeUnlock, Unlock
<1> QED BY <1>1, <1>2, <1>3, <1>4, <1>5, <1>6, <1>7, <1>8, <1>9, <1>10, <1>11, <1>12
    DEF BinderCalls, BinderWork

LEMMA PairInductive ==
    ASSUME NEW q, NEW b, OnePair(q, b)
    PROVE  Spec => [](TypeInv /\ ReadyInv(q, b) /\ TurnInv(q, b))
<1>1. Init => TypeInv /\ ReadyInv(q, b) /\ TurnInv(q, b)
  <2> SUFFICES ASSUME Init PROVE TypeInv /\ ReadyInv(q, b) /\ TurnInv(q, b)
    OBVIOUS
  <2>1. TypeInv
    BY ThreadsAssumption DEF Init, TypeInv, TypeOK, Threads, PlayerSteps, BinderSteps
  <2>2. ReadyInv(q, b) /\ TurnInv(q, b)
    BY DEF Init, OnePair, Threads, ReadyInv, TurnInv, Looping
  <2> QED BY <2>1, <2>2
<1>2. TypeInv /\ ReadyInv(q, b) /\ TurnInv(q, b) /\ [Next]_vars =>
        TypeInv' /\ ReadyInv(q, b)' /\ TurnInv(q, b)'
  <2> SUFFICES ASSUME TypeInv, ReadyInv(q, b), TurnInv(q, b), [Next]_vars
               PROVE  ReadyInv(q, b)' /\ TurnInv(q, b)'
    BY TypeStep
  <2>1. CASE \E p \in Players : audioInit(p) \/ PlayerWork(p)
    BY <2>1, StopPair, PlayPair DEF PlayerWork, OnePair, Threads
  <2>2. CASE \E c \in Binders : BinderCalls(c) \/ audio_stop(c) \/ BinderWork(c)
    BY <2>2, StopPair, BinderPair DEF OnePair, Threads
  <2>3. CASE UNCHANGED vars
    BY <2>3 DEF vars, ctx, local, ReadyInv, TurnInv
  <2> QED BY <2>1, <2>2, <2>3 DEF Next
<1> QED BY <1>1, <1>2, PTL DEF Spec

\* Between its return and the resume a pause holds the mutex, and there is a play for
\* the resume to continue.
THEOREM PauseKeepsMutex ==
    ASSUME NEW q, NEW b, OnePair(q, b)
    PROVE  Spec => []PauseHolds
<1>1. TypeInv /\ ReadyInv(q, b) /\ TurnInv(q, b) => PauseHolds
  BY DEF ReadyInv, TurnInv, PauseHolds, Looping, PlaySteps, OnePair
<1>2. Spec => [](TypeInv /\ ReadyInv(q, b) /\ TurnInv(q, b))
  BY PairInductive
<1> QED BY <1>1, <1>2, PTL

\* The output takes data only while the context is PLAYING: a pause that has returned
\* leaves no decoder writing.
THEOREM PausedTakesNothing ==
    ASSUME NEW q, NEW b, OnePair(q, b)
    PROVE  Spec => WritesOnlyWhilePlaying
<1>1. ReadyInv(q, b) /\ TurnInv(q, b) /\ [Next]_vars =>
        [\A p \in Players : WriteOk(p) => state = "PLAYING"]_vars
  BY DEF TurnInv, Looping, OnePair, WriteOk, OutputTakes
<1>2. Spec => [](TypeInv /\ ReadyInv(q, b) /\ TurnInv(q, b))
  BY PairInductive
<1> QED BY <1>1, <1>2, PTL DEF Spec, WritesOnlyWhilePlaying

===========================================================================
