# andLess in TLA+

andLess is a music player for Android: a Java service that keeps a playlist and a
native library that decodes lossless formats and writes to an audio output. This
directory models the parts of it where threads meet, checks them with TLC and proves
theorems about them with TLAPS. Paths below are relative to the repository, so that
the service is `src/net/avs234/AndLessSrv.java` and the native library is `jni/`.
`PROJECT.json` names every module, run, theorem and hazard, and the lines of code
each definition stands for; there every path has one more leading `src/`.

## 1. The system

| part | code | its state | operations | who calls it |
|---|---|---|---|---|
| callback output ring | `jni/std_audio.cpp` | `cbstart`, `cbend`, `cbbuf`, `cbmutex`, `cbcond`, `cbdone`, the AudioTrack | `libmediacb_start/_write/_wait_done/_stop`, `libmedia_pause/_resume`, the callback `cbf` | decoder thread, stopping thread, AudioTrack thread |
| native audio context | `jni/main.c` | `ctx->state`, `fd`, `mutex`, `mode`, `written` | `audioInit`, `audio_start`, `audio_write`, `audio_stop`, `audio_wait_done`, `audioStop`, `audioPause`, `audioResume`, `audioSetVolume`, `audioExit` | PlayThread, binder threads |
| decoders | `jni/{wav,alac,wv,ape,mpc,flac}/main.c` | local buffers, `ctx` | `xxxPlay` | PlayThread |
| playlist | `AndLessSrv.java` 270-642 | `files`, `cur_pos`, `th`, `running`, `paused`, wake lock | `init_playlist`, `add_to_playlist`, `play`, `stop`, next, previous, pause, resume, volume; `PlayThread.run` | binder threads, listeners |
| cue updater | `AndLessSrv.java` 322-364 | a timer, the time left | `schedule`, `pause`, `resume`, `shutdown`, the timer task | PlayThread, binder and timer threads |
| MediaPlayer tracks | `AndLessSrv.java` 188-246 | `mplayer`, `isPrepared`, `mplayer_lock` | `extPlay` and three listeners | PlayThread, main thread |
| automatic pause | `AndLessSrv.java` 743-814 | `needResume`, twice | headset and phone events | main thread |
| media buttons | `RemoteControlReceiver.java` | none | `onReceive` | another process |
| client | `AndLess.java` | the lists it shows, bookmarks | all commands, `parseCue`, shuffle | AsyncTasks |
| seeking | `jni/flac/main.c` 64-443, `jni/ape/main.c` 64-349, `jni/alac/m4a.c` 160-335, `jni/wv/main.c` 74-114 | bounds, tables, sample numbers | `flac_seek`, `ape_calc_seekpos`, `alac_seek`, the rounds of `wvPlay` | decoders, for a start that is not 0 |
| position | `jni/main.c` 150-160, `AndLessSrv.java` 394-401 | `ctx->written`, `cur_start`, `curTrackStart` | `audioGetCurPosition`, `getCurPosition` | client, timer thread |
| codecs | `jni/*/` except `main.c` | decoder state | decode, parse, seek | decoders |

The service runs in a process of its own (`AndroidManifest.xml`), so that its
methods arrive on a pool of binder threads. `play` starts a PlayThread, which for
each track calls `audioInit` and the `xxxPlay` of the format; `xxxPlay` returns when
the track ends or is stopped. Commands reach the decoder only through the context: a
stop closes its file and shuts its output, a pause takes the mutex away from it. In
`MODE_CALLBACK`, the default, data passes through the ring to a thread of
AudioTrack; in `MODE_DIRECT` it is written to the driver.

What is hard here:

- `ctx->mutex` should guard `state`, `fd` and the output. Both are also read without
  it, tested before it and changed after; `audioPause` returns holding it, and
  whoever sees `PAUSED` unlocks for the pauser.
- the six decoders end in about twenty places, each with its own order of test,
  lock, close, store and unlock;
- the ring is reset without its mutex while a callback may run; a full ring must not
  look empty; two condition variables must not lose a wakeup;
- the drain at the end of a track, with a stop or a pause coming in;
- above it, `running`, `cur_pos` and `th` are shared by all threads with no lock at
  all, and a stop gives up on its thread after three seconds;
- a search in a compressed file interpolates, overshoots and steps back, and has to
  end in a file that is damaged too;
- a bookmark is put together from four calls while the track may change.

What makes each part correct: the ring delivers the written bytes in order, once;
blocked threads go on. The context comes to rest stopped, unlocked, its file closed
once; sections belong to their owner; a pause silences, a stop ends the play and is
not mistaken for an error. The playlist should play each track once, in order, with
one thread, and a stop should reach the thread it is meant for. A play from a second
should begin there, and a bookmark should name the second that was heard.

## 2. Modules

### `ByteStream` and `CbRing`: the callback output

`ByteStream` is the promise to the listener: bytes are numbered in the order they
are accepted, and each delivery of an open stream is the next run of numbers.

`CbRing` is the code. The variables `cbstart`, `cbend` and `cbbuf` are those of the
program; a byte is its number. The threads are the decoder (`dec`), the AudioTrack
thread (`cb`) and one that stops, pauses and resumes (`stp`, `libmedia_pause`,
`libmedia_resume`). A section under `cbmutex` is one step, with an exception: `cbf`
is two, `CbTakes` and `CbCopies`, because `libmediacb_start` stores `cbstart` and
`cbend` with no lock and can fall between. Each store of that reset is a step of its
own; the reads that `cbf` makes of both positions before it copies are one step. A
`pthread_cond_wait` may also wake without a signal (`Spurious`). AudioTrack is
external: `track` says whether it calls, and a callback that runs goes on when the track
is stopped. `libmediacb_start` runs without `ctx->mutex`, so that the stop, the pause and
the resume of the track before can come between any two of its steps. The history
variable `torn` says that a callback took or copied bytes between the two stores of the
last reset; a stream that is torn is not `Open`.

### `AudioCtx`: the context and the threads that share it

Every access of `state`, `fd` or `mutex` outside a section is a step of its own, and
so is every store that another thread can see half-done: `audio_stop` is
`StopCheck`, `StopPaused`, `StopLock`, `StopClose`, `StopClear`, `StopOut`,
`StopState`, `StopUnlock`, each one line of `main.c`. A thread's place in the code
is `pc`, where `audio_stop` returns to is `ret`.

The decoders share a skeleton, `OpenFile`, `HeaderOk`, `audio_start`, `Play`, then
the loop `LoopTest`, `DecodeData`, `WriteLock`, `WriteOk`, then the end `Finish` ..
`FinishUnlock`, `Drain`. What differs is in the guards on `codec`: which errors a
decoder has, what a header error leaves in `ctx->fd` (`HeaderLeaves`), whether it
asks `ctx->fd` before it reports an error (`ReadFails` then `FdCheck`) or not
(`DecodeFails`), and that alac asks under the lock. `how` remembers which of the
ends a play is in. A decoder finds its file "broken" when a read fails or the
descriptor has been closed; the descriptor it goes by (`Handle`) is `ctx->fd`, but alac
keeps a copy.

The output is `open` or `shut`; a write blocks when the AudioTrack is halted. That a
write into an open ring ends and a drain is released is what `CbRing` shows; here
the two are steps of the player (`WriteOk`, `DrainDone`). `mine`, `hit` and `fds`
are history and environment: the number of the descriptor a play opens, whether a
binder thread's `audio_stop` took hold of the context during the play, which
descriptors of the process are open.

`Spec` lets the client do anything at any time. `CalmSpec` is the same context under a
client whose tracks begin with the context at rest (`AtRest`: the state is `STOPPED` and
no command has passed its first test); the first track always does.

### `NativePlay` and `Playlist`: the service

`NativePlay` is what the service can see of the context: its state, and whether a
pause has kept the mutex. `AudioCtx` implements it (`ImplementsNative`; `Kept`
says when the mutex counts as kept by a pause), and `Playlist` asks no more
of it (`UsesNative`): the two detailed modules meet in this contract.

`Playlist` has the fields of the service under their names. `PlayThread.run` is cut
where another thread can come in between: `Run` (`running = true`), `Test` of the
loop, `Try` with the choice of a decoder, `Reset` (`audioInit`), `Open`, `Begin`,
`PlayEnds`, `Advance`, `Exit`. A command is a sequence of steps of its binder
thread: a stop is `Stop`, `Halt` (the timer), `Which` (is there a MediaPlayer),
`audioStop`, which looks at the state, and `StopOut`, which takes the mutex and does not
look again, or `StopNotifies`, then `Unpause`, `Join`, `Forget`; `Pause` asks `mplayer`
(`PauseWhich`), looks at the state (`PauseLook`), takes the mutex (`PauseLock`) and sets
`paused` (`PauseFlag`). What a pause and a resume do with the timer is two steps, the test
of `cup` and its use (`Unwake` and `CupPause`, `Rewake` and `CupResume`). The timer itself
is `timer`: off, armed, fired (`TimerFires` has counted the track), shown (`TimerTells` has
told the client), held. The MediaPlayer is `mplayer`; `onPrepared` begins, and then starts
it or finds that it is gone (`onPreparedStarts`, `onPreparedThrows`). The listeners of the
phone and of the headset and the media buttons are further commands, each with its tests
and calls. A load may turn a sheet into a plain list and back (`MaySheet`). What is decoded
is not in it: a play ends, fails or is stopped. At its end it drains, and a stop that found
it playing, or the `audioInit` of another thread, may leave it there (`Stuck`): the
callback that would release it comes only if the output plays again (`Drained`), as
`ctx_drain` shows of the context.

`slipped` records that something got away from its caller: a thread a stop gave up
on, a timer cancelled while its task ran, a track that ended while it was paused or
in the middle of a pause. `MaySlip` says which of these a run allows, and a property
says in its premise which it cannot stand.

### `FlacSeek`, `ApeSeek`, `AlacSeek`, `WvSeek`: playing from a second

A file is where its frames or blocks begin and what their headers say; its bytes do
not matter.

- `FlacSeek`: `frames`, the sample `first` of each header, bytes that look like a
  header (`fakes`), the seek `table`. `frame_sync` goes to the next header (`Header`). If
  that is false, the decoder fails somewhere behind it, and the search goes on with any
  later frame or with none (`Sync`). Frame numbers are arbitrary, so damaged files
  are among them; `WellFormed` names those that are not. One step is one round of
  the loop of `flac_seek`, and what the code branches on is the guard of an action:
  `BoundsFail`, `SyncFails`, `Found`, `StepBack`, `StepFails`, `Corrupted`,
  `NarrowUpper`, `NarrowLower`. `Again` is the second attempt, one second later.
- `ApeSeek`: `ape_calc_seekpos` finds a frame by division, then whole chunks are
  decoded and dropped (`SkipChunk`) and part of the last (`SkipPart`).
- `AlacSeek`: the tables of an m4a file. The block of a sample (`EndsIn`) and the
  offset of the block (`ChunkRun`) are compared with reference definitions that
  count blocks one by one (`TrueRun`, `TrueOffset`). The sums along the tables are the
  recursive function `Total`.
- `WvSeek`: the five rounds of `wvPlay`, which opens the file again at a guessed
  offset and goes on with whatever header follows, or with none (`NoIndex`).

### `Bookmark`: where the second comes from

The second counts from the start of a play; `saveBook` of `AndLess.java` asks for the file
that is played (`SaveName`), for the second (`SaveSeconds`), for the start of the track
(`SaveStart`) and for the track (`SavePos`), in four calls. The bookmark of a directory
keeps the file of the first, that of a list the track of the last. Meanwhile the play goes
on second by second, a file ends and the next begins, or the timer of a cue sheet counts
on in two steps (`CueNext`, `CueStarts`). A click begins a play from the bookmark or from a track,
the seek bar one from any second of a track (`SeekPos`, `SeekPlay`), and the service
may be restarted. `Half` is the time after which `ctx->written`, an
int, turns negative; `curTrackLen` and its helpers are the length of the track that is
shown, from the sheet (`Measured`, `CueStarts`) or from the decoder
(`updateTrackLen`); `deep` is a file of 24 bits, of which 16 are written and which
is divided by 24.

### Composition and instances

`PlayFrom` puts the four searches and the bookmark into one specification in which a
behaviour belongs to one of them; a decoder that does not play has the smallest file
there is. `MC_CbRing`, `MC_AudioCtx`, `MC_Playlist` and `MC_PlayFrom` are the modules
TLC runs; the constants are in the `.cfg` files. `CbRing_proofs`, `AudioCtx_proofs`,
`Playlist_proofs`, `PlaylistCalm_proofs` (what holds while nothing slips),
`FlacSeek_proofs`, `AlacSeek_proofs`, `Bookmark_proofs` and `PlayFrom_proofs` (with the
searches of ape and wv) hold the theorems.

## 3. Runs

| run | instance | shows |
|---|---|---|
| `ring` | ring of 4, writes of 1-3, requests of 1 and 3, 7 bytes, 3 tracks; stops, pauses and resumes at any step | `RingHoldsUnplayed`, `DrainIsComplete`, `WaitIsServed`, the refinement `ImplementsStream`; `WriteEnds` and `DrainEnds` under fairness |
| `ring_reset` | ring of 4, writes and requests of 1 and 3, 6 bytes, 2 tracks | violation of `AvailIsUnplayed` (finding) |
| `ctx_lock` | 2 players, 1 stopping thread, wav, mpc, alac, 2 tracks | `SectionsAreOwned`, `AtRestStopped` |
| `ctx_track` | 2 tracks begun at rest (`CalmSpec`), 2 binder threads that stop, pause, resume; 5 decoders | `EndedPlayClosed`, `NoFdMeansStopped`, the refinement `ImplementsNative` |
| `ctx_stop` | 2 tracks of wv or flac begun at rest (`CalmSpec`), 2 stopping threads | `StoppedPlayIsSilent`, `ClosedOnce` |
| `ctx_pause` | 2 tracks that are paused and resumed before their end; all decoders | `PauseHolds`, `WritesOnlyWhilePlaying` |
| `ctx_live` | direct driver, 1 track, all decoders, 2 binder threads, all commands | `StopEndsPlay` under fairness |
| `ctx_drain` | callback output, flac, one stop | violation of `StopEndsPlay` (finding) |
| `playlist` | lists of 3, of native tracks and m4a, which the MediaPlayer plays when they are not ALAC, or a cue sheet; one client, every command and event, 3 calls; nothing slips; the two threads are symmetric | `Owned`, `InOrder`, `ShownIsPlayed`, `StopIsSilent`, `PausedIsKept`, `ThreadsSurvive`, the refinement `UsesNative` |
| `playlist_live` | native lists and cue sheets, every command, 2 calls; stops give up, timers slip | `ThreadsEnd` under fairness: every thread ends, is paused, or stays in the drain |
| `playlist_call` | a cue sheet, play, a call comes and ends | violation of `CallSurvived` (finding) |
| `play_from` | flac files of 7 places with frames of at most 2 samples, 3 frames at most, numbers 0 and 3 besides the true ones, 1 fake header, `Near` = 2; ape of 3 frames of at most 5 blocks; m4a of 3 chunks and 2 runs; wv of 12 places; each from every second. Bookmarks in lists of 3 and files of 4 seconds, 2 clicks | `Brackets`, `GivesUpLost`, `RoundsShrink`, `SearchEnds`; `ApeIsNear`; `AlacOffset`, `AlacOnTime`; `WvInFile`; `ShownIsHeard`, `LengthIsShown`, `BookIsHeard`, `ComesBack` |

Bounds. A ring of 4 with writes of 1, 2 and 3 has every relation of `k` and `count`
at the wrap, the full ring, the write that has to wait, and requests larger and
smaller than what is there; 7 bytes go around and wrap, 3 tracks give each branch of
`libmediacb_start` after each state. In `AudioCtx` a track and two commanding
threads give every interleaving of two commands with every step of a play; a second
track meets what the first has left in `ctx`. Two
players are what the service gets when `stop()` gives up on a thread. wav, mpc and
alac are the three kinds of end: ask `fd` after an error, do not ask, ask under the
lock. `Commands` and `Endings` are restricted in a run only where the property fails
otherwise, and section 5 says how it fails.

In `Playlist` a list of 3 has a first, a middle and a last track and an index behind
the end; with 2 tracks a cue sheet is never half loaded behind the one that plays, and a
fault of the timer stays hidden (section 5);
3 calls are a play, a pause and a call that meets it, or two plays with a stop
inside the second; with 2 threads the next play can begin while the old thread still
exits. In `FlacSeek` the code counts 4 frames as near, the run 2: a sample may then be in
the next frame after the lower bound or in a later one, and both branches of `NarrowLower`
are taken. One fake header is enough, as what follows one failure to decode (any later
frame, or none) is what can follow ten. The damaged numbers give the failures that a
good file cannot have, and 3 frames a lower and an upper bound around the one looked for.
A cue sheet of 3
tracks has a change of track that arms the timer again and one that does not; 4
seconds at `Half = 3` cross the wrap.

Deadlock is not checked: a player may have played its last track, a ring its last
byte, a paused decoder waits for the user, a list has been played and its calls are
used up, a search has ended.

Fairness. A thread inside a call takes its next step (weak fairness), the AudioTrack
thread calls while its track is active, and nobody has to play or command. A write
into a halted ring is excepted, as it may have to wait. A stopping thread gets
`ctx->mutex` in the end though the decoder keeps taking it (strong fairness of
`StopLock`): `stop()` raises its own priority to `URGENT_AUDIO` above the decoder's
`AUDIO` (`AndLessSrv.java:524`, 421), and the decoder blocks in the output between
two locks of the mutex. In `Playlist` each thread and each call takes its next step,
a track ends, and the timer and the MediaPlayer call back; nobody has to give a
command. In `PlayFrom` the loop of `flac_seek` goes on, as it waits for nobody.

## 4. What is proved

For every value of the constants that satisfies the named assumptions of the
modules:

- `TypeCorrect`, `AudioTypeCorrect`: the types, for both modules. They need, beyond
  `TypeOK`, that a copying callback fits its ring (`CopyOK`), and that the
  `audio_stop` of a binder thread returns to its caller.
- `RingCorrect`: an open ring holds exactly the bytes written and not played, in order,
  and is never full. Stops, pauses and resumes may come at any step of
  `libmediacb_start`, and a callback may run across it; a ring is open unless it was
  stopped, is being reset, or is `torn`. The invariant `RingInv` adds that a callback
  between its two steps copies no more than is unplayed, and that after the first store of
  a reset that is not torn no callback is in its section.
- `RingImplementsStream`: the ring refines `ByteStream`, step by step, from the same
  invariant.
- `DrainCorrect`: if the wait of the drain does not end without a signal, a decoder leaves
  it only with every byte handed over or dropped by a stop, unless the ring is torn.
  `DrainInv` says that a decoder that has been woken there, and a ring that has been
  stopped, have nothing unplayed. The wait is not in a loop (`DrainReturns`), so that with
  a spurious wakeup it is false.
- `WaitServed`: no signal of the ring is lost, in a torn ring either. A writer that sleeps
  has no room for what it wants to write, so that the ring has something for the next
  callback, which will signal. That the callback comes is `WriteEnds`, which is liveness.
- `MutexDiscipline`, `RestsStopped`: if the client neither pauses nor resumes, then in
  any number of players, stopping threads and tracks every section belongs to the thread
  that locked it, and once all calls have returned the context is stopped and the mutex
  free. Neither is inductive alone. `MutexInv` adds the converse of ownership (who
  holds the mutex is in a section), that the state is never `PAUSED`, that while it
  is `PLAYING` some play has still to end it (`Active`), and that a play that has
  set `STOPPED` and still holds the mutex can rely on it (`Settled`). `SectionStep`,
  `StatesStep` and `UnpausedStep` say which moves keep each part; every action is
  then one of those moves.
- `ContextImplementsNative`: with any players, binder threads, decoders, commands and
  endings, `AudioCtx` implements `NativePlay`, each step one of its steps or a stutter.
  It needs no more of the state than its types.
- `PlayCloses`, `MissingFdMeansStopped`, `StopIsNoError`, `FileClosedOnce`: of one
  player, any number of threads that give commands, and any number of tracks that begin
  with the context at rest (`CalmSpec`). A
  play that returns 0 has closed its file, except flac with an error near its end; a
  descriptor that is missing in the middle of a play was taken by a binder thread's
  stop; a stopped wv or flac play returns 0 and not an error, and nobody closes a
  number twice, when nobody pauses and the files are good (`Quiet`). `FileInv` says
  who holds the descriptor between the lines of `audio_stop`, and that what an earlier
  track left in `ctx->fd` is older than the file of this one; `EndInv` and `HitInv`
  what a play may rely on when it finds none, `SilentInv` and `LostInv` what the loop
  of a decoder sees of a half-done stop. Of a track that begins while a stop is still at
  work TLC finds all four false (section 5). A pause at work there breaks neither of
  the first two in the instances tried; the proofs exclude it.
- `FirstTrackIsCalm`: before the first `audioInit` no command gets past its first test of
  the state. So with one track `Spec` implements `CalmSpec`, and the four theorems hold
  of it without a premise on the client.
- `PauseKeepsMutex`, `PausedTakesNothing`: of one player whose tracks do not end and one
  thread that pauses and resumes (`OnePair`), for any decoders and number of tracks.
  `ReadyInv` follows the play to its first lock, `TurnInv` says whose turn the mutex is.
  With a second thread that resumes, or a track that ends, a late `audioResume` unlocks
  the section of another.
- `PlaylistTypes`, `PlaylistUsesNative`: for any threads, clients, lists and number of
  calls, and whatever slips away: the types, and that each step of the playlist is a step
  of `NativePlay` or leaves the context alone. With `ContextImplementsNative` the contract
  between service and library is proved from both sides.
- `PlaylistOwned`, `PlaylistShown`, `PlaylistSilent`, `PlaylistInOrder`,
  `PlaylistSurvives`: when only one client loads, plays and stops and any others pause
  and resume (`OnlyStops`), and for lists of any length. `OwnInv` is the invariant: all
  living threads are the one `th` points at, and the command of the client that stops
  knows how far it has come with it (`OneThread`); beyond that, while nothing has slipped,
  the context plays for that thread alone (`ContextInv`), the flags say no more than
  what it does (`FlagsInv`), the timer stays within the tracks that are loaded
  (`UpdaterInv`), `cur_pos` is the track ahead of the thread or the one it took up
  (`PosInv`), and that is what the client was told (`ToldInv`). The premise is needed:
  with two clients that stop and play at once TLC finds two threads. `StopIsSilent` is also
  about the timer of a cue sheet: it says nothing after the stop. `PlaylistSurvives`
  excepts, besides lists that are not complete, the exceptions of listeners
  (`CallSurvived`, `onPreparedThrows`), which the model can throw.
- `PlaylistPauses`: with one client, when its call has returned, `paused` says exactly
  whether the context or the MediaPlayer is paused. `CallInv` says what the call in
  progress has seen of either, `WaitInv` what a thread that waits for the MediaPlayer has.
- `FlacTypes`, `SearchBrackets`, `SearchGivesUpLost`: for files of any length and
  frames of any size, in a file that is not damaged (`WellFormed`) and for a sample
  that its header or its table admits (`Reachable`), the frame looked for stays
  between the bounds of `flac_seek`, and the search gives up only where no frame
  follows the place it looked at, or a false header comes before the next frame: the
  bounds never cross, and the steps back never run out. `Brackets` is not inductive: the bounds move on
  what the code believes about them. `Bounds` says what it relies on: the lower bound
  is a frame and `lower_bound_sample` its first sample, the upper bound is a frame or
  the end, and after a near miss the next look begins at the lower bound with at most
  `Near` frames to go, so that a step back never overshoots it. The frame after a
  frame is the least of a set, and the lemmas about `Least` and `NextFrame` are all
  that the steps use of it.
- `SearchShrinks`: in any file, damaged ones included, each round of `flac_seek` lowers
  a measure that has no infinite descent: the first look of an attempt comes
  before all others, a bound moves inwards, or the guess steps back towards the lower
  bound (`Shrinks`). `StepInv` is what it needs: the size of frame that the step goes
  back by is positive. This is the safety half of `SearchEnds`; that a decreasing
  measure ends the loop is an induction, which stays with TLC.
- `AlacGoesToBlock`, `AlacBeginsOnTime`: for tables of any length, alac goes to the
  offset in the file at which the block it chose begins; that block begins at the time
  it says, and in a file whose blocks last equally long, but the last, it holds the
  sample that was asked for. The code
  looks up the block from the durations and then, in another table with other runs, its
  offset; the reference counts blocks one by one. The lemma `TotalIs` says that the sum exists
  and what it is at the next place, `OffsetIs` that both ways name the same
  chunk and the same place in it, `BeginsOnTime` that the division by the duration of a
  block agrees with the count. Where an induction over the table would be expected,
  the argument takes the least entry at which the claim fails.
- `ApeBeginsNear`: for frames and chunks of any size, apePlay begins less than a chunk
  from the sample it was asked for, and not at all only if the file does not have it.
  The invariant `ApeInv` counts samples: those decoded and those still to be dropped
  add up to the one that is looked for (`Counted`).
- `WvStaysInFile`: for any wv file and second, no round of the interpolation that knows
  its block goes outside of the file: its quotients are proportions of what lies ahead or
  behind (`Proportion`), as `need_sample` is less than `num_samples` (`WvInv`).
- `BookShown`, `BookLength`, `BookHeard`, `BookComesBack`: for any list or cue sheet,
  lengths and number of clicks. `TimerInv` says that the timer counts down to the second
  in which the next track begins, `StartInv` that the second of the play less
  `curTrackStart` is the second of the track, so that the four answers of a save add up
  (`SaveInv`, `BookInv`) and a play from them begins there (`BackInv`); `LengthInv` says
  where the length that is shown comes from. In a sheet with tracks in different seconds
  the track that is heard is unique (`LaterBegins`, `HeardIs`).
- `PlaysFlac`, `PlaysApe`, `PlaysBook`: a play of `PlayFrom` implements the
  specifications of `FlacSeek`, of `ApeSeek` and of `Bookmark`, so that these results
  hold of it, whoever else plays (`PlayBrackets`, `PlayShrinks`, `PlayBeginsNear`,
  `PlayIsShown`).

Every invariant and every action property that a passing run checks is stated by one of
these theorems. Only model-checked: the five liveness properties, `WriteEnds`,
`DrainEnds`, `StopEndsPlay`, `ThreadsEnd` and `SearchEnds`, since TLAPS cannot reason
about fairness here. No module declares a `RECURSIVE` operator.

## 5. What the code does not do

Findings, each with its run: the reset of the ring without `cbmutex` (`ring_reset`);
a stop at the end of a track that leaves the decoder in a drain nobody ends
(`ctx_drain`); a phone call in the last track of a cue sheet whose end schedules a
timer in the past and ends the service (`playlist_call`).

What the proofs and the models brought to light, each seen in TLC when the premise is
dropped:

- `audioResume` tests `PAUSED` and starts the AudioTrack without the lock. A resume that
  comes late can so start the track inside the next `libmediacb_start`, and a callback
  that runs when the track is stopped may end inside it too: with the section of a callback
  between the two stores of the reset the ring is open with bytes that were played, or with
  positions that do not belong together (`torn`). `RingHoldsUnplayed`, `DrainIsComplete` and
  `ImplementsStream` except such a ring; `WaitIsServed` does not have to. The reset that is
  torn is that of the finding `ring_reset`.
- `DrainEnds` excepts a stopped ring: a stop that comes while the decoder drains, and a
  late resume of the track after it, leave the decoder waiting for a callback that finds
  the ring empty, when each finds it stopped and does not signal.
- A pause keeps the mutex. If one thread pauses while the stop of another, which found the
  context playing, waits for the mutex (`StopLock`), the stop goes on waiting and the play is
  not ended. A resume that is late stores `PLAYING` over the `STOPPED` of a stop, and a
  pause after that holds the play again. `StopEndsPlay`, checked with two binder threads,
  names these two cases and allows no other.
- `onPrepared` uses `mplayer` several times without `mplayer_lock`
  (`AndLessSrv.java:219-224`), and the end of the thread may set it to null in between:
  the exception is uncaught, in the main thread (`onPreparedThrows`). `pause` and `resume`
  test `cup` and use it afterwards (591, 613), and `stop` may have set it to null
  (`CupPause`, `CupResume`): a client over the binder gets the exception, a listener ends
  the process. `ThreadsSurvive` excepts these.
- A stop can lag behind the end of the track it stops: `audio_stop` has closed the file
  and is about to store `ctx->fd = -1` when the player has gone on to the next track and
  has stored the new descriptor (`main.c`, `StopClear` after `OpenFile`). The new file is
  never closed, and its play ends as if it had been stopped. So `EndedPlayClosed`,
  `NoFdMeansStopped`, `StoppedPlayIsSilent` and `ClosedOnce` fail with two tracks, unless
  the second begins with the context at rest (`CalmSpec`).
- A cue sheet of 3 tracks of which the client could add only 2 before it died, and then
  a command that plays the first: the timer that announces the second schedules the next
  announcement for the beginning of the third, which is still 0. The negative delay
  throws in the timer's thread (`AndLessSrv.java:333`) and ends the process; `run()`
  guards the same call at 436. `ThreadsSurvive` excepts lists that are not complete.
- A bookmark that was saved while the track changed may have a negative second, and with
  a third click a play from it, in which the track that is shown is not the one that is
  heard; a seek there goes to the wrong track. `ShownIsHeard` and the seek bar's half
  of `ComesBack` are about plays from a second of their track.

Properties that hold only within the limits of their run:

- `SectionsAreOwned`, `AtRestStopped`, `WritesOnlyWhilePlaying` and `PauseHolds`
  fail when a pause crosses the end of a track: `audioPause` tests `PLAYING`, blocks
  on the mutex while the track ends, and then marks a stopped context `PAUSED` and
  keeps the mutex. `audioInit` then stores `STOPPED` (`main.c:185`), and the next
  play blocks at its first lock for good, with a stop that returns at once because
  the state says so.
- A stop of a paused track: `audio_stop` closes the descriptor, and a decoder that
  wakes with its descriptor gone reports an error or closes the number again. Pauses
  are not among the commands of `ctx_stop`.
- A callback that finds the ring stopped returns without touching the buffer or its
  size (`jni/std_audio.cpp:320`): what it hands over is whatever was there.
  `RingHoldsUnplayed` is about the bytes of the ring.
- `StoppedPlayIsSilent` fails for wav, whose natural end is a read error, for mpc
  and ape, which report a decode error without asking whether they were stopped, and
  for alac, which asks between the close and the store of `audio_stop`
  (`alac/main.c:154`).
- `EndedPlayClosed` fails for flac with a decode error near its end
  (`flac/main.c:639`): the state is already `STOPPED` and the end of `flacPlay`
  skips the close.
- `WritesOnlyWhilePlaying` fails with two players and a stop.
- A stop between `audioInit` and `Play` finds `STOPPED` and has no effect.
  `StopEndsPlay` is about stops that found a play.
- A stop before `run()` has set `running = true` is lost: the thread plays on, and
  the stop gives up on it. Then `Owned` and `InOrder` fail; `playlist_live` lets it
  happen and shows that every thread still ends, is paused, or is held in its drain.
- `ThreadsEnd` excepts the drain (`stuck`): in `MODE_CALLBACK`, which `init_playlist` sets, a
  stop that found the track playing at its end halts the output under the
  `libmediacb_wait_done` of the thread, which nobody ends (the finding `ctx_drain`).
- `ThreadsEnd` is for native lists. `extPlay` waits once and without a condition
  (`AndLessSrv.java:231`): a completion that is notified before the wait is lost and
  the thread waits for ever.
- With one client `PausedIsKept` holds; with two that pause or stop at once it
  fails. `Owned`, `StopIsSilent` and `InOrder` hold with any number of clients that pause
  beside the one that stops; the run has one client, the theorems have all.
- Merged in `Playlist`: `init_playlist` is one step, and a call that finds the context
  freed between its test and its use stays where it is. A file of `FlacSeek` has false
  headers or damaged numbers, not both.
- A play of wv can begin with no context (the sample index of a failed open is
  2^32 - 1, `jni/wv/main.c:106`), or more than a block away when the rounds
  oscillate. `WvInFile` says only that a round that starts in a block stays in the
  file.
- apePlay drops as many samples of the last chunk as it should keep
  (`jni/ape/main.c:341`); `ApeIsNear` allows a chunk.
- flac gives up on a sample whose place is behind the last header although the sample
  is in an earlier frame, and on one whose search meets a false header that costs it the rest
  of its attempts or bytes; `GivesUpLost` says there is no third case.
- `AlacOnTime` is for files whose blocks last equally long, but the last; in others
  the block may be one too early.
- `BookIsHeard` and `ComesBack` are about saves in which no track changes (the four calls
  of a save meet the same track), and about
  files of 16 bits before `ctx->written` wraps. In the other saves the bookmark can
  name the new track with the seconds of the old one, also negative ones; a play from
  there shows the wrong track or is refused by the timer (`BeginThrows`), and of a
  file of 24 bits two thirds of the time are shown. `ComesBack` is about a bar no
  longer than the track that is heard: beyond it the timer refuses a cue track and
  the next one is played.
- `LengthIsShown` fails for a play from the very end of the track before the last of a
  cue sheet: the timer computes the length of the last track before the decoder has
  told that of the file (`AndLessSrv.java:328`), and a negative length is shown.

## 6. Not modelled, and why

Of the service: `seekTo`, which only passes to a track from a second; `onCreate` and
`onDestroy`; a thread that is inside `audioInit` while `shutdown` frees the context
is let go on. Cue sheets over several files, whose times do not ascend, are not
among the lists of `Bookmark`. Of the client: the AsyncTasks, shuffle, playlist
editing and `parseCue`, a parser of text. `AudioCtx` has no `audioExit`; `Playlist`
has. `MODE_LIBMEDIA` is never set by the service. The ioctls of the driver are an
output that may refuse or fall short. wav multiplies to find its offset, and mpc
seeks inside its library; an ID3 tag in front of a flac file is not counted by
`flac_init`, and the files of `FlacSeek` have none. The steps of the volume are
single assignments, and the length of a MediaPlayer track is asked of Android.
Decoding itself is signal processing taken from other projects. `libInit`, JNI tables,
layouts and preferences have no behaviour worth a model. Android's headers, more than half of the lines of the repository
together with the codecs, are read for what AudioTrack promises.

## 7. Plan

Done: the ring and the context with their proofs; the service with its timer,
MediaPlayer, listeners and media buttons, joined to the context by `NativePlay`; the
four searches and the bookmark; proofs of all safety properties. Next:

1. `CalmSpec` from the service: that a stop which has joined its thread leaves the context
   at rest is known only of the playlist (`OwnInv`), in other terms.
2. `parseCue` as an operator on the lines of a sheet, and cue sheets over several
   files in `Bookmark`; `audioExit` in `AudioCtx`.
