------------------------------ MODULE CbRing ------------------------------
(***************************************************************************)
(* The MODE_CALLBACK output of jni/std_audio.cpp: a ring of cbbuf_size     *)
(* bytes between the decoder thread, which calls libmediacb_start, _write  *)
(* and _wait_done, the AudioTrack thread, which calls cbf for more data,   *)
(* and whatever thread stops, pauses or resumes playback.  cbmutex, cbcond *)
(* and cbdone synchronise them, except in libmediacb_start, which resets   *)
(* the ring without the mutex.                                             *)
(*                                                                         *)
(* A byte is its number in the order the decoder wrote it.  A critical     *)
(* section is one step, except that cbf, which holds cbmutex between       *)
(* choosing how much to copy and copying it, is two: the unlocked reset of *)
(* libmediacb_start can fall between them.                                 *)
(***************************************************************************)
EXTENDS Integers, Sequences

CONSTANTS
    BufSize,     \* cbbuf_size, DEFAULT_CB_BUFSZ
    WriteSizes,  \* the counts the decoders pass to audio_write
    AskSizes,    \* buff->size in a request of the AudioTrack thread
    Spurious,    \* condition waits that may end without a signal
    MaxBytes,    \* bound: bytes written in a behaviour
    MaxStarts    \* bound: tracks started in a behaviour

ASSUME BufSizeAssumption == BufSize \in Nat \ {0}
ASSUME SizesAssumption ==
    /\ WriteSizes \subseteq 1 .. (BufSize - 1)
    /\ AskSizes \subseteq Nat \ {0}
ASSUME SwitchAssumption == Spurious \subseteq {"wwait", "dwait"}
ASSUME BoundAssumption == MaxBytes \in Nat /\ MaxStarts \in Nat

VARIABLES
    cbstart,   \* read position, -1 once libmediacb_stop has run
    cbend,     \* write position
    cbbuf,     \* the bytes of the ring
    track,     \* the AudioTrack: "none", "active" (callbacks run) or "halted"
    dec,       \* where the decoder thread is
    path,      \* the branch of libmediacb_start it is in
    count,     \* the count of its libmediacb_write
    cb,        \* the AudioTrack thread: "out", "called" (before the lock), "copy"
    size,      \* buff->size of its request, then the bytes it will copy
    reply,     \* the latest callback's answer: the size it reports, the bytes
    stp,       \* the stopping thread: "idle" or "pause" (still to pause)
    sent,      \* bytes written in all
    played,    \* bytes delivered, or dropped by a stop or a reset
    torn,      \* a callback took or copied bytes between the stores of the last reset
    starts     \* tracks started

ring == <<cbstart, cbend, cbbuf>>
vars == <<cbstart, cbend, cbbuf, track, dec, path, count, cb, size, reply, stp,
          sent, played, torn, starts>>

Slots == 0 .. (BufSize - 1)
StartSteps == {"preStart", "preEnd", "stopTrack", "resetStart", "resetEnd", "startTrack"}
WriteSteps == {"wlock", "wwait"}
DrainSteps == {"dlock", "dwait", "dwoken"}

Init ==
    /\ cbstart = 0 /\ cbend = 0 /\ cbbuf = [s \in Slots |-> 0]
    /\ track = "none" /\ dec = "idle" /\ path = "fresh" /\ count = 0
    /\ cb = "out" /\ size = 0 /\ reply = [size |-> 0, bytes |-> <<>>]
    /\ stp = "idle" /\ sent = 0 /\ played = 0 /\ torn = FALSE /\ starts = 0

---------------------------------------------------------------------------
\* Free room available in the buffer.
get_free_bytes ==
    IF cbend >= cbstart THEN BufSize - (cbend - cbstart) ELSE cbstart - cbend

\* Mutant: the case k = count of libmediacb_write left to the branch k > count.
AdvanceNoWrap(p, n) == IF n <= BufSize - p THEN p + n ELSE n - (BufSize - p)

\* The position n bytes after p, where the copies wrap at the end of cbbuf.
Advance(p, n) == IF n < BufSize - p THEN p + n ELSE n - (BufSize - p)

\* How far position s lies after position p.
Offset(p, s) == IF s >= p THEN s - p ELSE s + BufSize - p

\* Mutant: the second memcpy copies from buf and not from buf + k.
StoredFromBuf(n) ==
    [s \in Slots |-> IF Offset(cbend, s) >= n THEN cbbuf[s]
                     ELSE IF s >= cbend THEN sent + Offset(cbend, s) + 1
                     ELSE sent + s + 1]

\* The memcpy of libmediacb_write: the next n bytes, from cbend on.
Stored(n) ==
    [s \in Slots |-> IF Offset(cbend, s) < n THEN sent + Offset(cbend, s) + 1
                     ELSE cbbuf[s]]

\* The memcpy of cbf: n bytes from cbstart on.
Fetched(n) == [i \in 1 .. n |-> cbbuf[Advance(cbstart, i - 1)]]

\* cbmutex is held across a step only by cbf.
MutexFree == cb # "copy"

\* Mutants: a signal left out, and one condition variable for both waits.
NoSignal == dec' = dec
SignalEither ==
    dec' = IF dec = "wwait" THEN "wlock" ELSE IF dec = "dwait" THEN "dwoken" ELSE dec

SignalCond == dec' = IF dec = "wwait" THEN "wlock" ELSE dec
SignalDone == dec' = IF dec = "dwait" THEN "dwoken" ELSE dec

---------------------------------------------------------------------------
\* libmediacb_start, in the decoder thread and without cbmutex.  "fresh" makes
\* an AudioTrack, "same" restarts it, "reconfigure" changes its sample rate.
\* The caller does not hold ctx->mutex either: a stop, a pause or a resume of the
\* track before may still be under way.

StartCall(p) ==
    /\ dec = "idle" /\ starts < MaxStarts
    /\ (p = "fresh") <=> (track = "none")
    /\ path' = p /\ starts' = starts + 1
    /\ dec' = IF p = "same" THEN "stopTrack" ELSE "preStart"
    /\ UNCHANGED <<ring, track, count, cb, size, reply, stp, sent, played, torn>>

\* Between the two stores of the reset.
Resetting == dec \in {"preEnd", "resetEnd"}

ResetStart ==
    /\ dec \in {"preStart", "resetStart"}
    /\ cbstart' = 0 /\ played' = sent /\ torn' = (cb = "copy")
    /\ dec' = IF dec = "preStart" THEN "preEnd" ELSE "resetEnd"
    /\ UNCHANGED <<cbend, cbbuf, track, path, count, cb, size, reply, stp, sent, starts>>

ResetEnd ==
    /\ Resetting
    /\ cbend' = 0
    /\ dec' = IF dec = "preEnd" /\ path # "fresh" THEN "stopTrack" ELSE "startTrack"
    /\ UNCHANGED <<cbstart, cbbuf, track, path, count, cb, size, reply, stp, sent, played, torn,
                   starts>>

\* AudioTrack::stop() and flush().  No new callback comes, but its header does not
\* say that stop() waits for one that runs.
StopTrack ==
    /\ dec = "stopTrack"
    /\ track' = "halted" /\ dec' = "resetStart"
    /\ UNCHANGED <<ring, path, count, cb, size, reply, stp, sent, played, torn, starts>>

StartTrack ==
    /\ dec = "startTrack"
    /\ track' = "active" /\ dec' = "ready"
    /\ UNCHANGED <<ring, path, count, cb, size, reply, stp, sent, played, torn, starts>>

\* AudioTrack::set() or setSampleRate() fails: LIBLOSSLESS_ERR_INIT.
StartFails ==
    /\ dec = "startTrack" /\ path # "same"
    /\ dec' = "idle"
    /\ UNCHANGED <<ring, track, path, count, cb, size, reply, stp, sent, played, torn, starts>>

---------------------------------------------------------------------------
\* libmediacb_write, from the first check to the return.

WriteCall(n) ==
    /\ dec = "ready" /\ sent + n <= MaxBytes
    /\ dec' = IF n > BufSize \/ cbstart < 0 THEN "idle" ELSE "wlock"
    /\ count' = n
    /\ UNCHANGED <<ring, track, path, cb, size, reply, stp, sent, played, torn, starts>>

\* Mutant: room for exactly count bytes is enough.
NoRoomIfLess == get_free_bytes < count

\* Not k = count either: cbstart = cbend after a write would read as empty.
NoRoom == get_free_bytes <= count

WriteWaits ==
    /\ dec = "wlock" /\ MutexFree /\ cbstart >= 0 /\ NoRoom
    /\ dec' = "wwait"
    /\ UNCHANGED <<ring, track, path, count, cb, size, reply, stp, sent, played, torn, starts>>

WriteStopped ==
    /\ dec = "wlock" /\ MutexFree /\ cbstart < 0
    /\ dec' = "idle"
    /\ UNCHANGED <<ring, track, path, count, cb, size, reply, stp, sent, played, torn, starts>>

WriteCopies ==
    /\ dec = "wlock" /\ MutexFree /\ cbstart >= 0 /\ ~NoRoom
    /\ cbbuf' = Stored(count) /\ cbend' = Advance(cbend, count)
    /\ sent' = sent + count /\ dec' = "ready"
    /\ UNCHANGED <<cbstart, track, path, count, cb, size, reply, stp, played, torn, starts>>

\* The decoder gives up on a bad file without draining.
DecodeFails ==
    /\ dec = "ready" /\ dec' = "idle"
    /\ UNCHANGED <<ring, track, path, count, cb, size, reply, stp, sent, played, torn, starts>>

---------------------------------------------------------------------------
\* libmediacb_wait_done, called at the end of a track: one wait, no loop.

DrainCall ==
    /\ dec = "ready"
    /\ dec' = IF cbstart = -1 THEN "idle" ELSE "dlock"
    /\ UNCHANGED <<ring, track, path, count, cb, size, reply, stp, sent, played, torn, starts>>

DrainLock ==
    /\ dec = "dlock" /\ MutexFree
    /\ dec' = IF get_free_bytes > 0 THEN "dwait" ELSE "idle"
    /\ UNCHANGED <<ring, track, path, count, cb, size, reply, stp, sent, played, torn, starts>>

DrainReturns ==
    /\ dec = "dwoken" /\ MutexFree
    /\ dec' = "idle"
    /\ UNCHANGED <<ring, track, path, count, cb, size, reply, stp, sent, played, torn, starts>>

SpuriousWakeup ==
    /\ dec \in Spurious
    /\ dec' = IF dec = "wwait" THEN "wlock" ELSE "dwoken"
    /\ UNCHANGED <<ring, track, path, count, cb, size, reply, stp, sent, played, torn, starts>>

---------------------------------------------------------------------------
\* cbf, in the AudioTrack thread.

CbCall(n) ==
    /\ cb = "out" /\ track = "active"
    /\ cb' = "called" /\ size' = n
    /\ UNCHANGED <<ring, track, dec, path, count, reply, stp, sent, played, torn, starts>>

CbStopped ==
    /\ cb = "called" /\ cbstart < 0
    /\ reply' = [size |-> size, bytes |-> <<>>] /\ cb' = "out"
    /\ UNCHANGED <<ring, track, dec, path, count, size, stp, sent, played, torn, starts>>

Available == BufSize - get_free_bytes

\* The stream is open: the ring is not stopped, not being reset, and no callback was
\* in its section between the stores of the last reset.
Open == ~Resetting /\ cbstart >= 0 /\ ~torn

CbEmpty ==
    /\ cb = "called" /\ cbstart >= 0 /\ Available = 0
    /\ reply' = [size |-> 0, bytes |-> <<>>] /\ cb' = "out"
    /\ SignalDone
    /\ UNCHANGED <<ring, track, path, count, size, stp, sent, played, torn, starts>>

CbTakes ==
    /\ cb = "called" /\ cbstart >= 0 /\ Available > 0
    /\ cb' = "copy" /\ size' = IF Available < size THEN Available ELSE size
    /\ torn' = (torn \/ Resetting)
    /\ UNCHANGED <<ring, track, dec, path, count, reply, stp, sent, played, starts>>

CbCopies ==
    /\ cb = "copy"
    /\ reply' = [size |-> size, bytes |-> Fetched(size)]
    /\ cbstart' = Advance(cbstart, size)
    /\ played' = IF Open THEN played + size ELSE played
    /\ torn' = (torn \/ Resetting)
    /\ cb' = "out" /\ SignalCond
    /\ UNCHANGED <<cbend, cbbuf, track, path, count, size, stp, sent, starts>>

---------------------------------------------------------------------------
\* libmediacb_stop, libmedia_pause and libmedia_resume, in other threads, at any
\* time once there is a track: audio_stop takes no lock if it has seen PAUSED,
\* audioResume never does, and either may act after the state it has seen is over.

StopMark ==
    /\ MutexFree /\ track # "none"
    /\ cbstart' = -1 /\ played' = sent
    /\ SignalCond /\ stp' = "pause"
    /\ UNCHANGED <<cbend, cbbuf, track, path, count, cb, size, reply, sent, torn, starts>>

StopPause ==
    /\ stp = "pause"
    /\ track' = "halted" /\ stp' = "idle"
    /\ UNCHANGED <<ring, dec, path, count, cb, size, reply, sent, played, torn, starts>>

libmedia_pause ==
    /\ track = "active"
    /\ track' = "halted"
    /\ UNCHANGED <<ring, dec, path, count, cb, size, reply, stp, sent, played, torn, starts>>

libmedia_resume ==
    /\ track = "halted"
    /\ track' = "active"
    /\ UNCHANGED <<ring, dec, path, count, cb, size, reply, stp, sent, played, torn, starts>>

---------------------------------------------------------------------------
libmediacb_start ==
    \/ \E p \in {"fresh", "same", "reconfigure"} : StartCall(p)
    \/ ResetStart \/ ResetEnd \/ StopTrack \/ StartTrack \/ StartFails
libmediacb_write ==
    \/ \E n \in WriteSizes : WriteCall(n)
    \/ WriteWaits \/ WriteStopped \/ WriteCopies
libmediacb_wait_done == DrainCall \/ DrainLock \/ DrainReturns
cbf == (\E n \in AskSizes : CbCall(n)) \/ CbStopped \/ CbEmpty \/ CbTakes \/ CbCopies
libmediacb_stop == StopMark \/ StopPause

Next ==
    \/ libmediacb_start \/ libmediacb_write \/ libmediacb_wait_done
    \/ DecodeFails \/ SpuriousWakeup \/ cbf
    \/ libmediacb_stop \/ libmedia_pause \/ libmedia_resume

Spec == Init /\ [][Next]_vars

\* A thread inside a call goes on; the AudioTrack thread calls as long as the
\* track is active.  Nobody has to start, write, stop, pause or resume.
Fairness ==
    /\ WF_vars(WriteWaits \/ WriteStopped \/ WriteCopies)
    /\ WF_vars(DrainLock \/ DrainReturns)
    /\ WF_vars(cbf)
    /\ WF_vars(StopPause)

FairSpec == Spec /\ Fairness

---------------------------------------------------------------------------
TypeOK ==
    /\ cbstart \in -1 .. (BufSize - 1) /\ cbend \in Slots /\ cbbuf \in [Slots -> Nat]
    /\ track \in {"none", "active", "halted"}
    /\ dec \in {"idle", "ready"} \cup StartSteps \cup WriteSteps \cup DrainSteps
    /\ path \in {"fresh", "same", "reconfigure"} /\ count \in 0 .. (BufSize - 1)
    /\ cb \in {"out", "called", "copy"} /\ size \in Nat
    /\ reply \in [size : Nat, bytes : Seq(Nat)]
    /\ stp \in {"idle", "pause"}
    /\ sent \in Nat /\ played \in Nat /\ torn \in BOOLEAN /\ starts \in Nat

\* While the stream is open the ring holds exactly the bytes that were written
\* and not played, in order from cbstart, and it is never filled to the last
\* byte, which cbstart = cbend would make look empty (std_audio.cpp:270).  Stops,
\* pauses, late resumes and callbacks may come in at any point of a start; what
\* they can break is only a reset with a callback between its two stores.
RingHoldsUnplayed ==
    Open =>
      /\ played <= sent /\ sent - played < BufSize
      /\ cbend = Advance(cbstart, sent - played)
      /\ \A i \in Slots :
            i < sent - played => cbbuf[Advance(cbstart, i)] = played + i + 1

\* What cbf takes for available was written and not played yet: "k == bytes
\* available for output" (std_audio.cpp:324).
AvailIsUnplayed ==
    [][(cb = "called" /\ cb' = "copy") => size' <= sent - played]_vars

\* libmediacb_wait_done lets the decoder go on to the next track, whose start
\* flushes the AudioTrack, only when every byte has been handed over or a stop
\* has dropped it, or the ring was torn when it was reset.
DrainIsComplete ==
    [][(dec \in DrainSteps /\ dec' = "idle" /\ ~torn) => played = sent]_vars

\* A decoder sleeps in libmediacb_write only while its bytes do not fit into the
\* ring and the next callback has something to take from it, whose copy wakes the
\* decoder: no signal of cbcond falls between the check and the wait, and no room
\* is made without one (std_audio.cpp:270-274, 348).  A torn ring is no exception.
WaitIsServed == dec = "wwait" => cbstart >= 0 /\ NoRoom /\ Available > 0

\* A decoder blocked for room gets it, unless the track is paused or stopped:
\* no wakeup of cbcond is lost and no count is too large for the ring.
WriteEnds == dec \in WriteSteps ~> (dec \notin WriteSteps \/ track # "active")

\* A decoder waiting for the ring to drain is released, unless the track is paused
\* or the ring stopped: the wakeup of cbdone is repeated until it is heard.
DrainEnds ==
    dec \in DrainSteps ~> (dec \notin DrainSteps \/ track # "active" \/ cbstart < 0)

Stream == INSTANCE ByteStream WITH open <- Open, heard <- reply.bytes

\* The ring implements the numbered byte stream: an open stream delivers the
\* written bytes in order, each once.
ImplementsStream == Stream!Spec
===========================================================================
