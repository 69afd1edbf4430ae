----------------------------- MODULE Bookmark -----------------------------
(***************************************************************************)
(* The second a play begins at, and how a listener comes back to it.  The  *)
(* service counts seconds from the start of a play; the client turns the   *)
(* answers of four calls into a bookmark, a track and a second of it, and *)
(* later asks for a play from there.  Between the calls the play goes on,  *)
(* and the thread or the timer of a cue sheet may change the track.        *)
(*                                                                         *)
(* Time passes in whole seconds, only while data is written: a pause is a  *)
(* time in which nothing happens.  What stop() waits for has ended when it *)
(* returns, and the timer is on time.                                      *)
(***************************************************************************)
EXTENDS Integers

CONSTANTS
    items,     \* tracks in the list
    MaxTime,   \* bound: seconds of a file
    MaxClicks, \* bound: plays the client asks for
    Half,      \* seconds until ctx->written, an int, becomes negative
    Off,       \* no timer
    NoPlace    \* no bookmark, or one that was not saved in peace

ASSUME BookAssumption == {items, MaxTime, MaxClicks, Half} \subseteq Nat \ {0} /\ Off \notin Nat

Tracks == 0 .. items - 1

VARIABLES
    cue, deep,         \* a cue sheet over one file; a file of 24 bits
    times, ends,       \* where tracks begin in their file, and where that file ends
    cur_pos, cur_start,
    at,                \* the thread: "off", "call", "begin", "open", "play" or "over"
    written,           \* seconds written since the play began
    curTrackStart,
    curTrackLen,       \* seconds of the track that is shown
    last_cue_start,    \* what of the file is before it, -1: it has its length from the sheet
    total_cue_len,     \* the length of the file, for the last track of a sheet
    delay, task,       \* of the timer, and whether its task is at work
    saving,            \* saveBook: "no", or the next call it makes, or "done"; or "seek"
    seconds,           \* what its calls have answered so far
    book,              \* [pos, time]: prefs.last_played_pos and _time
    base,              \* where in the file the play began
    from, left,        \* where it was when a save began; of the bookmark
    back,              \* where a play from the bookmark should begin
    clicks             \* so far

contents == <<cue, deep, times, ends>>
position == <<cur_pos, cur_start, at, written, curTrackStart, base>>
lengths == <<curTrackLen, last_cue_start, total_cue_len>>
updating == <<delay, task>>
client == <<saving, seconds, book, left, back>>
bookVars == <<contents, position, lengths, updating, client, from, clicks>>

running == at \in {"begin", "open", "play", "over"}

BookInit ==
    /\ deep \in BOOLEAN
    /\ \/ /\ cue = TRUE
          /\ times \in {t \in [Tracks -> 0 .. MaxTime] : \A i \in Tracks \ {0} : t[i - 1] <= t[i]}
          /\ \E e \in times[items - 1] + 1 .. MaxTime : ends = [i \in Tracks |-> e]
       \/ /\ cue = FALSE /\ times = [i \in Tracks |-> 0]
          /\ ends \in [Tracks -> 1 .. MaxTime]
    /\ cur_pos = 0 /\ cur_start = 0 /\ at = "off" /\ written = 0 /\ curTrackStart = 0
    /\ curTrackLen = 0 /\ last_cue_start = 0 /\ total_cue_len = 0
    /\ delay = Off /\ task = FALSE /\ base = 0
    /\ saving = "no" /\ seconds = 0 /\ book = [pos |-> 0, time |-> 0]
    /\ from = NoPlace /\ left = NoPlace /\ back = NoPlace /\ clicks = 0

---------------------------------------------------------------------------
\* A place is a file and a second of it.
Spot(p, s) == <<IF cue THEN 0 ELSE p, times[p] + s>>
\* The track that is heard, in a cue sheet whose tracks begin in different seconds.
Ascending == cue => \A i \in Tracks \ {0} : times[i - 1] < times[i]
Heard ==
    IF ~cue THEN cur_pos
    ELSE CHOOSE i \in Tracks : \A n \in Tracks :
        IF n <= i THEN times[n] <= base + written ELSE times[n] > base + written
\* Where the play is, in a time in which nothing but the seconds changes.
Quiet == (at = "open" \/ (at = "play" /\ written < Half)) /\ ~task /\ ~deep
Here == IF at = "open" THEN Spot(cur_pos, cur_start) ELSE <<IF cue THEN 0 ELSE cur_pos, base + written>>

\* audioGetCurPosition: the bytes written, in an int, by the bytes of a second of the
\* file; of 24 bits only 16 are written.
Wrapped(n) == ((n + Half) % (2 * Half)) - Half
Quotient(a, b) == IF a >= 0 THEN a \div b ELSE -((-a) \div b)
audioGetCurPosition ==
    IF at # "play" THEN 0 ELSE IF deep THEN Quotient(2 * Wrapped(written), 3) ELSE Wrapped(written)
getCurPosition == audioGetCurPosition + cur_start

---------------------------------------------------------------------------
\* PlayThread.run, and the seconds of a play.

\* running = true, as the first thing.
Runs ==
    /\ at = "call" /\ at' = "begin" /\ from' = NoPlace
    /\ UNCHANGED <<contents, clicks, lengths, cur_pos, cur_start, written, curTrackStart, base, updating, client>>

CueTime == (times[cur_pos + 1] - times[cur_pos]) - cur_start
NeedsTimer == cue /\ cur_pos + 1 < items /\ times[cur_pos + 1] > times[cur_pos]

\* What is known of a track's length before it is opened.
Measured ==
    /\ total_cue_len' = 0
    /\ curTrackLen' = IF NeedsTimer THEN times[cur_pos + 1] - times[cur_pos] ELSE 0
    /\ last_cue_start' =
        IF NeedsTimer THEN -1 ELSE IF cue /\ cur_pos + 1 = items THEN times[cur_pos] ELSE 0

\* updateTrackLen: the decoder tells the length of the file.  Mutant: of the track.
UpdateWhole(time) ==
    IF last_cue_start = -1
    THEN total_cue_len' = time /\ UNCHANGED <<curTrackLen, last_cue_start>>
    ELSE curTrackLen' = time /\ UNCHANGED <<total_cue_len, last_cue_start>>

updateTrackLen(time) ==
    IF last_cue_start = -1
    THEN total_cue_len' = time /\ UNCHANGED <<curTrackLen, last_cue_start>>
    ELSE curTrackLen' = time - last_cue_start /\ UNCHANGED <<total_cue_len, last_cue_start>>

\* A track: the updater gets the time to the next one.  Mutant: as if it began whole.
BeginsWhole ==
    /\ at = "begin" /\ cur_pos < items /\ from' = NoPlace /\ Measured
    /\ curTrackStart' = 0 /\ at' = "open" /\ UNCHANGED <<cur_pos, cur_start, task>>
    /\ delay' = IF NeedsTimer THEN times[cur_pos + 1] - times[cur_pos] ELSE delay
    /\ UNCHANGED <<contents, clicks, written, base, client>>

Begins ==
    /\ at = "begin" /\ cur_pos < items /\ ~(NeedsTimer /\ CueTime < 0) /\ from' = NoPlace
    /\ curTrackStart' = 0 /\ at' = "open" /\ Measured
    /\ delay' = IF NeedsTimer THEN CueTime ELSE delay
    /\ UNCHANGED <<contents, clicks, cur_pos, cur_start, written, base, task, client>>

\* A negative time throws, and the loop goes on with the next track.
BeginThrows ==
    /\ at = "begin" /\ cur_pos < items /\ NeedsTimer /\ CueTime < 0 /\ from' = NoPlace
    /\ curTrackStart' = 0 /\ Measured /\ cur_start' = 0 /\ cur_pos' = cur_pos + 1
    /\ UNCHANGED <<contents, clicks, at, written, base, updating, client>>

\* xxxPlay from a second, an error outside of the file: then the loop ends.
InFile == times[cur_pos] + cur_start \in 0 .. ends[cur_pos]

Opens ==
    /\ at = "open" /\ InFile /\ at' = "play" /\ from' = NoPlace /\ back' = NoPlace
    /\ written' = 0 /\ base' = times[cur_pos] + cur_start /\ updateTrackLen(ends[cur_pos])
    /\ UNCHANGED <<contents, clicks, cur_pos, cur_start, curTrackStart, updating, saving, seconds, book, left>>

OpenFails ==
    /\ at = "open" /\ ~InFile /\ ~task /\ at' = "off" /\ from' = NoPlace /\ back' = NoPlace
    /\ cur_start' = 0 /\ delay' = Off
    /\ UNCHANGED <<contents, clicks, lengths, cur_pos, written, curTrackStart, base, task, saving, seconds, book, left>>

Second ==
    /\ at = "play" /\ base + written < ends[cur_pos] /\ delay # 0 /\ ~task
    /\ written' = written + 1 /\ delay' = IF delay = Off THEN Off ELSE delay - 1
    /\ UNCHANGED <<contents, clicks, lengths, cur_pos, cur_start, at, curTrackStart, base, task, client, from>>

Ends ==
    /\ at = "play" /\ base + written >= ends[cur_pos] /\ at' = "over" /\ from' = NoPlace
    /\ written' = 0 /\ base' = 0
    /\ UNCHANGED <<contents, clicks, lengths, cur_pos, cur_start, curTrackStart, updating, client>>

\* The next file of a list, or the end of a cue sheet.
Over ==
    /\ at = "over" /\ ~task /\ cur_start' = 0 /\ delay' = Off /\ from' = NoPlace
    /\ cur_pos' = IF cue THEN cur_pos ELSE cur_pos + 1
    /\ at' = IF cue \/ cur_pos + 1 = items THEN "off" ELSE "begin"
    /\ UNCHANGED <<contents, clicks, lengths, written, curTrackStart, base, task, client>>

\* CUETimerTask.run: cur_pos first, the start of the track and the next time later.
CueNext ==
    /\ delay = 0 /\ ~task /\ task' = TRUE /\ from' = NoPlace
    /\ cur_pos' = cur_pos + 1 /\ cur_start' = 0
    /\ UNCHANGED <<contents, clicks, lengths, at, written, curTrackStart, base, delay, client>>

\* Mutant: the track starts where the last one did.
CueStartsLate ==
    /\ task /\ task' = FALSE /\ from' = NoPlace
    /\ curTrackLen' = (IF cur_pos + 1 < items THEN times[cur_pos + 1] ELSE total_cue_len) - times[cur_pos]
    /\ delay' = IF cur_pos + 1 < items THEN times[cur_pos + 1] - times[cur_pos] ELSE Off
    /\ UNCHANGED <<contents, clicks, last_cue_start, total_cue_len, cur_pos, cur_start, at, written, curTrackStart, base, client>>

CueStarts ==
    /\ task /\ task' = FALSE /\ curTrackStart' = getCurPosition /\ from' = NoPlace
    /\ curTrackLen' = (IF cur_pos + 1 < items THEN times[cur_pos + 1] ELSE total_cue_len) - times[cur_pos]
    /\ delay' = IF cur_pos + 1 < items THEN times[cur_pos + 1] - times[cur_pos] ELSE Off
    /\ UNCHANGED <<contents, clicks, last_cue_start, total_cue_len, cur_pos, cur_start, at, written, base, client>>

---------------------------------------------------------------------------
\* The client.

\* saveBook: get_cur_track_source, whose file is written at once, get_cur_seconds,
\* get_cur_track_start, get_cur_pos.
SaveName ==
    /\ saving = "no" /\ running /\ saving' = "name"
    /\ book' = [book EXCEPT !.pos = cur_pos] /\ left' = NoPlace
    /\ from' = IF Quiet THEN Here ELSE NoPlace
    /\ UNCHANGED <<contents, clicks, lengths, position, updating, seconds, back>>

SaveSeconds ==
    /\ saving = "name" /\ saving' = "start" /\ seconds' = getCurPosition
    /\ from' = IF from # NoPlace /\ Quiet THEN Here ELSE NoPlace
    /\ UNCHANGED <<contents, clicks, lengths, position, updating, book, left, back>>

SaveStart ==
    /\ saving = "start" /\ saving' = "pos" /\ seconds' = seconds - curTrackStart
    /\ UNCHANGED <<contents, clicks, lengths, position, updating, book, left, back, from>>

\* The file is the bookmark of a directory; a playlist or a cue sheet goes by the position.
SavePos ==
    /\ saving = "pos" /\ saving' = "done"
    /\ \E p \in IF cue THEN {cur_pos} ELSE {cur_pos, book.pos} : book' = [pos |-> p, time |-> seconds]
    /\ left' = from /\ seconds' = 0 /\ UNCHANGED <<contents, clicks, lengths, position, updating, back, from>>

\* stop(), which ends what was written, then a new thread.
play(n, start_) ==
    /\ clicks < MaxClicks /\ clicks' = clicks + 1
    /\ ~task /\ n \in Tracks /\ cur_pos' = n /\ cur_start' = start_ /\ at' = "call"
    /\ delay' = Off /\ written' = 0 /\ base' = 0 /\ saving' = "no" /\ from' = NoPlace
    /\ UNCHANGED <<contents, lengths, curTrackStart, task, seconds, book, left>>

\* A click saves what plays before anything else, also a click on the bookmark: then
\* the bookmark is the one just saved.
Ready == saving = "done" \/ (saving = "no" /\ ~running)
ClickTrack == Ready /\ \E n \in Tracks : play(n, 0) /\ back' = NoPlace

\* Mutant: the play begins with the track.
ClickBookStart == Ready /\ play(book.pos, 0) /\ back' = left
ClickBook == Ready /\ play(book.pos, book.time) /\ back' = left

\* The seek bar is let go: it ends with the track it was drawn for, maybe a longer one.
Length(n) == (IF cue /\ n + 1 < items THEN times[n + 1] ELSE ends[n]) - times[n]
\* The calls are get_cur_pos, then play with the second of the bar.
SeekPos ==
    /\ saving = "no" /\ saving' = "seek" /\ seconds' = cur_pos
    /\ from' = IF Quiet /\ at = "play" /\ Ascending /\ delay # 0 /\ cur_start >= 0
               THEN Spot(Heard, 0) ELSE NoPlace
    /\ UNCHANGED <<contents, clicks, lengths, position, updating, book, left, back>>

SeekPlay ==
    /\ saving = "seek" /\ \E s \in 0 .. MaxTime :
       /\ play(seconds, s)
       /\ back' = IF from = NoPlace \/ s > Length(seconds) THEN NoPlace ELSE <<from[1], from[2] + s>>

\* The process of the service starts anew; a save fails and leaves the old bookmark.
Restart ==
    /\ at # "off" /\ at' = "off" /\ cur_pos' = 0 /\ cur_start' = 0 /\ written' = 0
    /\ curTrackLen' = 0 /\ last_cue_start' = 0 /\ total_cue_len' = 0
    /\ curTrackStart' = 0 /\ base' = 0 /\ delay' = Off /\ task' = FALSE
    /\ saving' = "no" /\ seconds' = 0 /\ from' = NoPlace /\ back' = NoPlace
    /\ UNCHANGED <<contents, clicks, book, left>>

BookNext ==
    \/ Runs \/ Begins \/ BeginThrows \/ Opens \/ OpenFails \/ Second \/ Ends \/ Over
    \/ CueNext \/ CueStarts
    \/ SaveName \/ SaveSeconds \/ SaveStart \/ SavePos \/ ClickTrack \/ ClickBook
    \/ SeekPos \/ SeekPlay \/ Restart

BookSpec == BookInit /\ [][BookNext]_bookVars

---------------------------------------------------------------------------
\* The track that is shown is the one that is heard, in a cue sheet whose tracks begin in
\* different seconds, wherever in its track the play began; a bookmark saved while the
\* track changed may have a second less than none.
ShownIsHeard ==
    cue /\ Ascending /\ at = "play" /\ delay # 0 /\ ~task
    /\ cur_start >= 0 =>
        /\ cur_pos \in Tracks /\ base + written >= times[cur_pos]
        /\ cur_pos + 1 < items => base + written < times[cur_pos + 1]

\* "We'll be able to update the last track length in due time from CueUpdater": the length
\* that is shown is that of the track, not of the file or of the track before, when the
\* file was opened before its last track was due.
LengthIsShown ==
    Ascending /\ at = "play" /\ delay # 0 /\ ~task /\ (last_cue_start = -1 => base < times[items - 1]) =>
        curTrackLen = Length(cur_pos)

\* A bookmark names the second that was heard when the save asked for it, when no track
\* changed meanwhile: its four answers fit together.
BookIsHeard == left # NoPlace => Spot(book.pos, book.time) = left

\* A play from such a bookmark begins in the second where the listener left.
ComesBack == [][(back # NoPlace /\ at = "open" /\ at' = "play" => <<IF cue THEN 0 ELSE cur_pos, base'>> = back)]_bookVars
===========================================================================
