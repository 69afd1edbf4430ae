-------------------------- MODULE Bookmark_proofs --------------------------
(***************************************************************************)
(* What is shown, what is saved and what is played again, for any list of  *)
(* files or cue sheet, any lengths and any number of clicks.  The timer    *)
(* keeps step with what is written (TimerInv), so that the second at which *)
(* a track began can be subtracted from the second of the play (StartInv), *)
(* what a save has collected names what was heard (SaveInv, BookInv), and  *)
(* a play from it goes there (BackInv).                                    *)
(***************************************************************************)
EXTENDS Bookmark, WellFoundedInduction, TLAPS

\* The files of a list, or the one file of a cue sheet.
BookFile ==
    /\ times \in [Tracks -> Nat] /\ ends \in [Tracks -> Nat]
    /\ cue => \A i \in Tracks : i + 1 \in Tracks => times[i] <= times[i + 1]
    /\ cue => \A i, n \in Tracks : ends[i] = ends[n]
    /\ ~cue => \A i \in Tracks : times[i] = 0

\* The types of what the properties are about.
BookTypes ==
    /\ BookFile
    /\ cur_pos \in Nat /\ cur_start \in Int /\ curTrackStart \in Int
    /\ written \in Nat /\ base \in Int /\ delay \in Nat \cup {Off}
    /\ at \in {"off", "call", "begin", "open", "play", "over"}
    /\ saving \in {"no", "name", "start", "pos", "done", "seek"}
    /\ seconds \in Int /\ book \in [pos : Nat, time : Int]

\* The second of the file that is heard next.
Now == IF at = "open" THEN times[cur_pos] + cur_start ELSE base + written
OnAir == at \in {"open", "play"}

\* The timer is set when a track is to come, and counts down to its beginning.
TimerInv ==
    /\ at # "off" => cur_pos \in Tracks
    /\ at \in {"off", "call", "begin"} => delay = Off /\ ~task
    /\ delay # Off \/ task => cue
    /\ task => delay = 0
    /\ ~task /\ delay # Off => cur_pos + 1 \in Tracks
    /\ OnAir /\ ~task /\ NeedsTimer => delay # Off
    /\ OnAir /\ ~task /\ delay # Off => Now + delay = times[cur_pos + 1]
    /\ OnAir /\ task => Now = times[cur_pos] /\ cur_start = 0
    /\ at = "play" /\ ~task /\ cur_start >= 0 => base + written >= times[cur_pos]

\* What the client subtracts is the second of the play at which the track began.
StartInv ==
    /\ at = "open" => curTrackStart = 0
    /\ at = "play" /\ ~task /\ ~deep /\ written < Half =>
          base = times[cur_pos] + cur_start - curTrackStart

\* Nothing of a track is after the beginning of the next one.
Within(n, s) == cue /\ n + 1 \in Tracks => times[n] + s <= times[n + 1]

\* The answers that a save in peace has so far, the bookmark, and the play from it.
SaveInv ==
    /\ from # NoPlace /\ saving \in {"name", "start", "pos"} => book.pos = cur_pos
    /\ from # NoPlace /\ saving = "start" =>
          cur_pos \in Tracks /\ Spot(cur_pos, seconds - curTrackStart) = from
          /\ (NeedsTimer => Within(cur_pos, seconds - curTrackStart))
    /\ from # NoPlace /\ saving = "pos" =>
          cur_pos \in Tracks /\ Spot(cur_pos, seconds) = from
          /\ (NeedsTimer => Within(cur_pos, seconds))
    /\ from # NoPlace /\ saving = "seek" => seconds \in Tracks /\ Spot(seconds, 0) = from

Timed(n) == cue /\ n + 1 \in Tracks /\ times[n + 1] > times[n]
BookInv ==
    left # NoPlace =>
        /\ book.pos \in Tracks /\ Spot(book.pos, book.time) = left
        /\ Timed(book.pos) => Within(book.pos, book.time)
BackInv ==
    back # NoPlace =>
        /\ at \in {"call", "begin", "open"} /\ Spot(cur_pos, cur_start) = back
        /\ at # "open" /\ Timed(cur_pos) => Within(cur_pos, cur_start)

\* Where the length that is shown comes from.
LengthInv ==
    Ascending =>
        /\ at = "open" /\ last_cue_start = -1 =>
              /\ cue /\ (cur_pos + 1 = items => cur_start = 0)
              /\ cur_pos + 1 \in Tracks /\ ~task => curTrackLen = Length(cur_pos)
        /\ OnAir /\ last_cue_start # -1 => delay = Off /\ ~task /\ (cue => cur_pos + 1 = items)
        /\ at = "open" /\ last_cue_start # -1 => last_cue_start = times[cur_pos]
        /\ at = "play" /\ last_cue_start # -1 => curTrackLen = Length(cur_pos)
        /\ at = "play" /\ last_cue_start = -1 =>
              /\ cue /\ total_cue_len = ends[cur_pos]
              /\ ~task /\ base < times[items - 1] => curTrackLen = Length(cur_pos)

---------------------------------------------------------------------------
\* What the constants are.
LEMMA BookConstants ==
    /\ items \in Nat /\ items > 0 /\ Half \in Nat /\ Half > 0 /\ Off \notin Nat /\ MaxTime \in Nat
    /\ Tracks \subseteq Nat /\ 0 \in Tracks /\ items - 1 \in Tracks
BY BookAssumption DEF Tracks

\* The calls of the client answer with whole seconds.
LEMMA Answers ==
    ASSUME BookTypes
    PROVE  /\ getCurPosition \in Int
           /\ at # "play" => getCurPosition = cur_start
           /\ at = "play" /\ ~deep /\ written < Half => getCurPosition = written + cur_start
<1> USE BookConstants DEF BookTypes
<1>1. Wrapped(written) \in Int /\ (written < Half => Wrapped(written) = written)
  BY DEF Wrapped
<1>2. Wrapped(2 * 0) \in Int
  BY DEF Wrapped
<1>3. ASSUME NEW n \in Int PROVE Quotient(2 * n, 3) \in Int
  BY DEF Quotient
<1> HIDE DEF BookTypes
<1>4. audioGetCurPosition \in Int
  BY <1>1, <1>3 DEF audioGetCurPosition
<1>5. cur_start \in Int /\ written \in Nat
  BY DEF BookTypes
<1> QED BY <1>1, <1>4, <1>5 DEF getCurPosition, audioGetCurPosition

\* Every step keeps the types.
LEMMA TypesStep ==
    ASSUME BookTypes, TimerInv, [BookNext]_bookVars
    PROVE  BookTypes'
<1> USE BookConstants DEF BookTypes, BookFile, contents, position, lengths, updating, client
<1>a. getCurPosition \in Int
  BY Answers
<1>1. CASE Runs
  BY <1>1 DEF Runs
<1>2. CASE Begins
  BY <1>2 DEF Begins, Measured, NeedsTimer, CueTime, TimerInv
<1>3. CASE BeginThrows
  BY <1>3 DEF BeginThrows, Measured, NeedsTimer, CueTime
<1>4. CASE Opens
  BY <1>4 DEF Opens, updateTrackLen, InFile
<1>5. CASE OpenFails
  BY <1>5 DEF OpenFails
<1>6. CASE Second
  BY <1>6 DEF Second
<1>7. CASE Ends
  BY <1>7 DEF Ends
<1>8. CASE Over
  BY <1>8 DEF Over
<1>9. CASE CueNext
  BY <1>9 DEF CueNext
<1>10. CASE CueStarts
  <2>1. cue /\ cur_pos \in Tracks /\ cur_pos \in Nat
    BY <1>10 DEF CueStarts, TimerInv
  <2>2. CASE cur_pos + 1 < items
    <3>1. cur_pos + 1 \in Tracks
      BY <2>1, <2>2 DEF Tracks
    <3>2. times[cur_pos + 1] - times[cur_pos] \in Nat
      BY <2>1, <3>1
    <3> QED BY <1>a, <1>10, <2>2, <3>2 DEF CueStarts
  <2>3. CASE ~(cur_pos + 1 < items)
    BY <1>a, <1>10, <2>3 DEF CueStarts
  <2> QED BY <2>2, <2>3
<1>20. CASE SaveName
  BY <1>20 DEF SaveName, Quiet, Here, running
<1>11. CASE SaveSeconds
  BY <1>a, <1>11 DEF SaveSeconds
<1>12. CASE SaveStart
  BY <1>12 DEF SaveStart
<1>13. CASE SavePos
  BY <1>13 DEF SavePos
<1>14. CASE ClickTrack
  BY <1>14 DEF ClickTrack, play, Ready
<1>15. CASE ClickBook
  BY <1>15 DEF ClickBook, play, Ready
<1>16. CASE SeekPos
  BY <1>16 DEF SeekPos
<1>17. CASE SeekPlay
  BY <1>17 DEF SeekPlay, play
<1>18. CASE Restart
  BY <1>18 DEF Restart
<1>19. CASE UNCHANGED bookVars
  BY <1>19 DEF bookVars
<1> QED BY <1>1, <1>2, <1>3, <1>4, <1>5, <1>6, <1>7, <1>8, <1>9, <1>10, <1>11, <1>12, <1>13,
           <1>14, <1>15, <1>16, <1>17, <1>18, <1>19, <1>20
    DEF BookNext

---------------------------------------------------------------------------
\* In a cue sheet whose tracks begin in different seconds a later track begins later.
LEMMA LaterBegins ==
    ASSUME BookTypes, Ascending, cue, NEW i \in Tracks, NEW n \in Tracks, i < n
    PROVE  times[i] < times[n]
<1> DEFINE T == {k \in Tracks : i < k /\ ~(times[i] < times[k])}
<1>1. times \in [Tracks -> Nat] /\ Tracks \subseteq Nat
  BY BookConstants DEF BookTypes, BookFile
<1>2. CASE T # {}
  <2>1. T \subseteq Nat
    BY <1>1
  <2> HIDE DEF T
  <2>2. PICK k \in T : \A j \in T : ~(<<j, k>> \in OpToRel(<, Nat))
    BY <1>2, <2>1, WFMin, NatLessThanWellFounded, Zenon
  <2> USE DEF T
  <2>3. k \in Tracks \ {0} /\ k - 1 \in Tracks /\ i <= k - 1 /\ ~(times[i] < times[k])
    <3>1. k \in Tracks /\ i < k /\ ~(times[i] < times[k])
      OBVIOUS
    <3> QED BY <3>1, BookConstants DEF Tracks
  <2>4. times[k - 1] < times[k]
    BY <2>3 DEF Ascending
  <2>5. k - 1 \in T
    BY <1>1, <2>3, <2>4
  <2>6. <<k - 1, k>> \in OpToRel(<, Nat)
    <3>1. <<k - 1, k>> \in Nat \X Nat /\ <<k - 1, k>>[1] < <<k - 1, k>>[2]
      BY <1>1, <2>3
    <3> QED BY <3>1 DEF OpToRel
  <2> QED BY <2>2, <2>5, <2>6
<1>3. CASE T = {}
  BY <1>3
<1> QED BY <1>2, <1>3

\* There the track that is heard is the one whose seconds these are.
LEMMA HeardIs ==
    ASSUME BookTypes, Ascending, cue, cur_pos \in Tracks,
           times[cur_pos] <= base + written,
           cur_pos + 1 \in Tracks => base + written < times[cur_pos + 1]
    PROVE  Heard = cur_pos
<1> DEFINE IsHeard(i) ==
        \A n \in Tracks : IF n <= i THEN times[n] <= base + written ELSE times[n] > base + written
<1>1. /\ times \in [Tracks -> Nat] /\ Tracks = 0 .. items - 1
      /\ base + written \in Int /\ items \in Nat
  BY BookConstants DEF BookTypes, BookFile, Tracks
<1>2. ASSUME NEW n \in Tracks, n <= cur_pos PROVE times[n] <= base + written
  <2>1. n = cur_pos \/ times[n] < times[cur_pos]
    BY <1>1, <1>2, LaterBegins
  <2> QED BY <1>1, <2>1
<1>3. ASSUME NEW n \in Tracks, ~(n <= cur_pos) PROVE times[n] > base + written
  <2>1. cur_pos + 1 \in Tracks
    BY <1>1, <1>3
  <2>2. n = cur_pos + 1 \/ times[cur_pos + 1] < times[n]
    BY <1>1, <1>3, <2>1, LaterBegins
  <2> QED BY <1>1, <2>1, <2>2
<1>4. IsHeard(cur_pos)
  BY <1>2, <1>3
<1>5. ASSUME NEW i \in Tracks, IsHeard(i) PROVE i = cur_pos
  <2>1. CASE i < cur_pos
    BY <1>1, <1>5, <2>1
  <2>2. CASE cur_pos < i
    <3>1. cur_pos + 1 \in Tracks /\ cur_pos + 1 <= i
      BY <1>1, <2>2
    <3> QED BY <1>1, <1>5, <3>1
  <2> QED BY <1>1, <2>1, <2>2
<1>6. Heard = CHOOSE i \in Tracks : IsHeard(i)
  BY DEF Heard
<1> QED BY <1>4, <1>5, <1>6

\* The timer and the play keep together.
LEMMA TimerStep ==
    ASSUME BookTypes, TimerInv, [BookNext]_bookVars
    PROVE  TimerInv'
<1> USE BookConstants DEF
      TimerInv, Now, OnAir, NeedsTimer, Tracks, contents, position, lengths, updating,
      client
<1>a. BookFile /\ cur_pos \in Nat /\ cur_start \in Int /\ written \in Nat /\ base \in Int
      /\ delay \in Nat \cup {Off}
  BY DEF BookTypes
<1>b. /\ times \in [Tracks -> Nat]
      /\ (cue => \A i \in Tracks : i + 1 \in Tracks => times[i] <= times[i + 1])
      /\ (~cue => \A i \in Tracks : times[i] = 0)
  BY <1>a DEF BookFile
<1> USE <1>a, <1>b
<1>1. CASE Runs
  BY <1>1 DEF Runs
<1>2. CASE Begins
  BY <1>2 DEF Begins, Measured, CueTime
<1>3. CASE BeginThrows
  BY <1>3 DEF BeginThrows, Measured, CueTime
<1>4. CASE Opens
  BY <1>4 DEF Opens, updateTrackLen, InFile
<1>5. CASE OpenFails
  BY <1>5 DEF OpenFails
<1>6. CASE Second
  BY <1>6 DEF Second
<1>7. CASE Ends
  BY <1>7 DEF Ends
<1>8. CASE Over
  BY <1>8 DEF Over
<1>9. CASE CueNext
  BY <1>9 DEF CueNext
<1>10. CASE CueStarts
  BY <1>10 DEF CueStarts, getCurPosition, audioGetCurPosition
<1>20. CASE SaveName
  BY <1>20 DEF SaveName, Quiet, Here, running
<1>11. CASE SaveSeconds
  BY <1>11 DEF SaveSeconds, getCurPosition, audioGetCurPosition, Quiet, Here, running
<1>12. CASE SaveStart
  BY <1>12 DEF SaveStart
<1>13. CASE SavePos
  BY <1>13 DEF SavePos
<1>14. CASE ClickTrack
  BY <1>14 DEF ClickTrack, play, Ready
<1>15. CASE ClickBook
  BY <1>15 DEF ClickBook, play, Ready
<1>16. CASE SeekPos
  BY <1>16 DEF SeekPos
<1>17. CASE SeekPlay
  BY <1>17 DEF SeekPlay, play
<1>18. CASE Restart
  BY <1>18 DEF Restart
<1>19. CASE UNCHANGED bookVars
  BY <1>19 DEF bookVars
<1> QED BY <1>1, <1>2, <1>3, <1>4, <1>5, <1>6, <1>7, <1>8, <1>9, <1>10, <1>11, <1>12, <1>13,
           <1>14, <1>15, <1>16, <1>17, <1>18, <1>19, <1>20
    DEF BookNext

\* The calls that make a second of a play, and the start of the track in it, fit together.
LEMMA StartStep ==
    ASSUME BookTypes, TimerInv, StartInv, [BookNext]_bookVars
    PROVE  StartInv'
<1> USE BookConstants DEF
      StartInv, TimerInv, Now, OnAir, NeedsTimer, Tracks, contents, position, lengths,
      updating, client
<1>a. BookFile /\ cur_pos \in Nat /\ cur_start \in Int /\ written \in Nat /\ base \in Int
      /\ delay \in Nat \cup {Off}
  BY DEF BookTypes
<1>b. /\ times \in [Tracks -> Nat]
      /\ (cue => \A i \in Tracks : i + 1 \in Tracks => times[i] <= times[i + 1])
      /\ (~cue => \A i \in Tracks : times[i] = 0)
  BY <1>a DEF BookFile
<1> USE <1>a, <1>b
<1>c. /\ getCurPosition \in Int /\ (at # "play" => getCurPosition = cur_start)
      /\ at = "play" /\ ~deep /\ written < Half => getCurPosition = written + cur_start
  BY Answers
<1> USE <1>c
<1>1. CASE Runs
  BY <1>1 DEF Runs
<1>2. CASE Begins
  BY <1>2 DEF Begins, Measured
<1>3. CASE BeginThrows
  BY <1>3 DEF BeginThrows, Measured
<1>4. CASE Opens
  BY <1>4 DEF Opens, updateTrackLen, InFile
<1>5. CASE OpenFails
  BY <1>5 DEF OpenFails
<1>6. CASE Second
  BY <1>6 DEF Second
<1>7. CASE Ends
  BY <1>7 DEF Ends
<1>8. CASE Over
  BY <1>8 DEF Over
<1>9. CASE CueNext
  BY <1>9 DEF CueNext
<1>10. CASE CueStarts
  BY <1>10 DEF CueStarts
<1>20. CASE SaveName
  BY <1>20 DEF SaveName, Quiet, Here, running
<1>11. CASE SaveSeconds
  BY <1>11 DEF SaveSeconds, getCurPosition, audioGetCurPosition, Quiet, Here, running
<1>12. CASE SaveStart
  BY <1>12 DEF SaveStart
<1>13. CASE SavePos
  BY <1>13 DEF SavePos
<1>14. CASE ClickTrack
  BY <1>14 DEF ClickTrack, play, Ready
<1>15. CASE ClickBook
  BY <1>15 DEF ClickBook, play, Ready
<1>16. CASE SeekPos
  BY <1>16 DEF SeekPos
<1>17. CASE SeekPlay
  BY <1>17 DEF SeekPlay, play
<1>18. CASE Restart
  BY <1>18 DEF Restart
<1>19. CASE UNCHANGED bookVars
  BY <1>19 DEF bookVars
<1> QED BY <1>1, <1>2, <1>3, <1>4, <1>5, <1>6, <1>7, <1>8, <1>9, <1>10, <1>11, <1>12, <1>13,
           <1>14, <1>15, <1>16, <1>17, <1>18, <1>19, <1>20
    DEF BookNext

\* A save in peace collects what is heard.
LEMMA SaveStep ==
    ASSUME BookTypes, TimerInv, StartInv, SaveInv, [BookNext]_bookVars
    PROVE  SaveInv'
<1> USE BookConstants DEF
      SaveInv, StartInv, TimerInv, Now, OnAir, NeedsTimer, Within, Spot, Tracks, contents,
      position, lengths, updating, client
<1>a. BookFile /\ cur_pos \in Nat /\ cur_start \in Int /\ written \in Nat /\ base \in Int
      /\ delay \in Nat \cup {Off}
  BY DEF BookTypes
<1>b. /\ times \in [Tracks -> Nat]
      /\ (cue => \A i \in Tracks : i + 1 \in Tracks => times[i] <= times[i + 1])
      /\ (~cue => \A i \in Tracks : times[i] = 0)
  BY <1>a DEF BookFile
<1> USE <1>a, <1>b
<1>c. /\ getCurPosition \in Int /\ (at # "play" => getCurPosition = cur_start)
      /\ at = "play" /\ ~deep /\ written < Half => getCurPosition = written + cur_start
  BY Answers
<1> USE <1>c
<1>d. seconds \in Int /\ book \in [pos : Nat, time : Int] /\ curTrackStart \in Int
  BY DEF BookTypes
<1> USE <1>d
<1>1. CASE Runs
  BY <1>1 DEF Runs
<1>2. CASE Begins
  BY <1>2 DEF Begins, Measured
<1>3. CASE BeginThrows
  BY <1>3 DEF BeginThrows, Measured
<1>4. CASE Opens
  BY <1>4 DEF Opens, updateTrackLen, InFile
<1>5. CASE OpenFails
  BY <1>5 DEF OpenFails
<1>6. CASE Second
  BY <1>6 DEF Second
<1>7. CASE Ends
  BY <1>7 DEF Ends
<1>8. CASE Over
  BY <1>8 DEF Over
<1>9. CASE CueNext
  BY <1>9 DEF CueNext
<1>10. CASE CueStarts
  BY <1>10 DEF CueStarts
<1>20. CASE SaveName
  BY <1>20 DEF SaveName, Quiet, Here, running
<1>11. CASE SaveSeconds
  <2>1. CASE ~(from # NoPlace /\ Quiet)
    BY <1>11, <2>1 DEF SaveSeconds
  <2>2. CASE from # NoPlace /\ Quiet
    <3>1. /\ OnAir /\ ~task /\ from' = Here /\ seconds' = getCurPosition /\ saving' = "start"
          /\ UNCHANGED <<cue, times, cur_pos, curTrackStart>>
      BY <1>11, <2>2 DEF SaveSeconds, Quiet
    <3>2. times[cur_pos] + (getCurPosition - curTrackStart) = Now
      <4>1. cur_pos \in Tracks /\ times[cur_pos] \in Nat
        BY <2>2, <3>1
      <4>2. CASE at = "open"
        <5>1. getCurPosition = cur_start /\ curTrackStart = 0 /\ Now = times[cur_pos] + cur_start
          BY <4>2
        <5> QED BY <4>1, <5>1
      <4>3. CASE at = "play" /\ written < Half /\ ~deep
        <5>1. /\ getCurPosition = written + cur_start /\ Now = base + written
              /\ base = times[cur_pos] + cur_start - curTrackStart
          BY <3>1, <4>3
        <5> HIDE DEF Now, StartInv, TimerInv, SaveInv
        <5> QED BY <4>1, <5>1
      <4> QED BY <2>2, <4>2, <4>3 DEF Quiet
    <3>3. Here = Spot(cur_pos, getCurPosition - curTrackStart)
      BY <2>2, <3>2 DEF Here, Quiet
    <3>4. NeedsTimer => Within(cur_pos, getCurPosition - curTrackStart)
      <4>1. NeedsTimer => delay \in Nat /\ Now + delay = times[cur_pos + 1]
        BY <2>2, <3>1
      <4>2. Now \in Int /\ (cue /\ cur_pos + 1 \in Tracks => times[cur_pos + 1] \in Int)
        BY <2>2, <3>1
      <4> HIDE DEF Now, NeedsTimer
      <4> QED BY <3>2, <4>1, <4>2
    <3>5. book.pos = cur_pos /\ book' = book /\ cur_pos \in Tracks
      BY <1>11, <2>2, <3>1 DEF SaveSeconds
    <3> QED BY <3>1, <3>3, <3>4, <3>5
  <2> QED BY <2>1, <2>2
<1>12. CASE SaveStart
  BY <1>12 DEF SaveStart
<1>13. CASE SavePos
  BY <1>13 DEF SavePos
<1>14. CASE ClickTrack
  BY <1>14 DEF ClickTrack, play, Ready
<1>15. CASE ClickBook
  BY <1>15 DEF ClickBook, play, Ready
<1>16. CASE SeekPos
  <2>1. CASE from' = NoPlace
    BY <1>16, <2>1 DEF SeekPos
  <2>2. CASE from' # NoPlace
    <3>1. /\ from' = Spot(Heard, 0) /\ at = "play" /\ ~task /\ Ascending /\ delay # 0
          /\ cur_start >= 0 /\ saving' = "seek" /\ seconds' = cur_pos
          /\ UNCHANGED <<cur_pos, times, cue>>
      BY <1>16, <2>2 DEF SeekPos, Quiet
    <3>2. Heard = cur_pos
      <4>1. CASE cue
        <5>1. cur_pos + 1 \in Tracks => NeedsTimer
          BY <3>1, <4>1 DEF Ascending
        <5> QED BY <3>1, <4>1, <5>1, HeardIs
      <4>2. CASE ~cue
        BY <4>2 DEF Heard
      <4> QED BY <4>1, <4>2
    <3> QED BY <3>1, <3>2
  <2> QED BY <2>1, <2>2
<1>17. CASE SeekPlay
  BY <1>17 DEF SeekPlay, play
<1>18. CASE Restart
  BY <1>18 DEF Restart
<1>19. CASE UNCHANGED bookVars
  BY <1>19 DEF bookVars
<1> QED BY <1>1, <1>2, <1>3, <1>4, <1>5, <1>6, <1>7, <1>8, <1>9, <1>10, <1>11, <1>12, <1>13,
           <1>14, <1>15, <1>16, <1>17, <1>18, <1>19, <1>20
    DEF BookNext

\* The bookmark of such a save names the second that was heard.
LEMMA BookStep ==
    ASSUME BookTypes, TimerInv, SaveInv, BookInv, [BookNext]_bookVars
    PROVE  BookInv'
<1> USE BookConstants DEF
      SaveInv, BookInv, Timed, NeedsTimer, Within, Spot, Tracks, contents, position,
      lengths, updating, client
<1>a. BookFile /\ cur_pos \in Nat /\ cur_start \in Int /\ written \in Nat /\ base \in Int
      /\ delay \in Nat \cup {Off}
  BY DEF BookTypes
<1>b. /\ times \in [Tracks -> Nat]
      /\ (cue => \A i \in Tracks : i + 1 \in Tracks => times[i] <= times[i + 1])
      /\ (~cue => \A i \in Tracks : times[i] = 0)
  BY <1>a DEF BookFile
<1> USE <1>a, <1>b
<1>d. seconds \in Int /\ book \in [pos : Nat, time : Int] /\ curTrackStart \in Int
  BY DEF BookTypes
<1> USE <1>d
<1>1. CASE Runs
  BY <1>1 DEF Runs
<1>2. CASE Begins
  BY <1>2 DEF Begins, Measured
<1>3. CASE BeginThrows
  BY <1>3 DEF BeginThrows, Measured
<1>4. CASE Opens
  BY <1>4 DEF Opens, updateTrackLen, InFile
<1>5. CASE OpenFails
  BY <1>5 DEF OpenFails
<1>6. CASE Second
  BY <1>6 DEF Second
<1>7. CASE Ends
  BY <1>7 DEF Ends
<1>8. CASE Over
  BY <1>8 DEF Over
<1>9. CASE CueNext
  BY <1>9 DEF CueNext
<1>10. CASE CueStarts
  BY <1>10 DEF CueStarts
<1>20. CASE SaveName
  BY <1>20 DEF SaveName, Quiet, Here, running
<1>11. CASE SaveSeconds
  BY <1>11 DEF SaveSeconds, Quiet, Here, running
<1>12. CASE SaveStart
  BY <1>12 DEF SaveStart
<1>13. CASE SavePos
  BY <1>13 DEF SavePos
<1>14. CASE ClickTrack
  BY <1>14 DEF ClickTrack, play, Ready
<1>15. CASE ClickBook
  BY <1>15 DEF ClickBook, play, Ready
<1>16. CASE SeekPos
  BY <1>16 DEF SeekPos
<1>17. CASE SeekPlay
  BY <1>17 DEF SeekPlay, play
<1>18. CASE Restart
  BY <1>18 DEF Restart
<1>19. CASE UNCHANGED bookVars
  BY <1>19 DEF bookVars
<1> QED BY <1>1, <1>2, <1>3, <1>4, <1>5, <1>6, <1>7, <1>8, <1>9, <1>10, <1>11, <1>12, <1>13,
           <1>14, <1>15, <1>16, <1>17, <1>18, <1>19, <1>20
    DEF BookNext

\* A play from it goes to that second.
LEMMA BackStep ==
    ASSUME BookTypes, TimerInv, SaveInv, BookInv, BackInv, [BookNext]_bookVars
    PROVE  BackInv'
<1> USE BookConstants DEF
      BackInv, SaveInv, BookInv, Timed, NeedsTimer, Within, Spot, Tracks, contents,
      position, lengths, updating, client, TimerInv, Now, OnAir
<1>a. BookFile /\ cur_pos \in Nat /\ cur_start \in Int /\ written \in Nat /\ base \in Int
      /\ delay \in Nat \cup {Off}
  BY DEF BookTypes
<1>b. /\ times \in [Tracks -> Nat]
      /\ (cue => \A i \in Tracks : i + 1 \in Tracks => times[i] <= times[i + 1])
      /\ (~cue => \A i \in Tracks : times[i] = 0)
  BY <1>a DEF BookFile
<1> USE <1>a, <1>b
<1>d. seconds \in Int /\ book \in [pos : Nat, time : Int] /\ curTrackStart \in Int
  BY DEF BookTypes
<1> USE <1>d
<1>1. CASE Runs
  BY <1>1 DEF Runs
<1>2. CASE Begins
  BY <1>2 DEF Begins, Measured, CueTime
<1>3. CASE BeginThrows
  BY <1>3 DEF BeginThrows, Measured, CueTime
<1>4. CASE Opens
  BY <1>4 DEF Opens, updateTrackLen, InFile
<1>5. CASE OpenFails
  BY <1>5 DEF OpenFails
<1>6. CASE Second
  BY <1>6 DEF Second
<1>7. CASE Ends
  BY <1>7 DEF Ends
<1>8. CASE Over
  BY <1>8 DEF Over
<1>9. CASE CueNext
  <2>1. CASE back # NoPlace
    <3>1. delay = 0 /\ delay # Off /\ ~task /\ cue /\ at = "open" /\ cur_pos + 1 \in Tracks
      BY <1>9, <2>1 DEF CueNext
    <3>2. times[cur_pos] + cur_start + delay = times[cur_pos + 1]
      BY <3>1
    <3>3. back = <<0, times[cur_pos + 1] + 0>>
      BY <2>1, <3>1, <3>2
    <3> QED BY <1>9, <3>1, <3>3 DEF CueNext
  <2>2. CASE back = NoPlace
    BY <1>9, <2>2 DEF CueNext
  <2> QED BY <2>1, <2>2
<1>10. CASE CueStarts
  BY <1>10 DEF CueStarts
<1>20. CASE SaveName
  BY <1>20 DEF SaveName, Quiet, Here, running
<1>11. CASE SaveSeconds
  BY <1>11 DEF SaveSeconds, Quiet, Here, running
<1>12. CASE SaveStart
  BY <1>12 DEF SaveStart
<1>13. CASE SavePos
  BY <1>13 DEF SavePos
<1>14. CASE ClickTrack
  BY <1>14 DEF ClickTrack, play, Ready
<1>15. CASE ClickBook
  BY <1>15 DEF ClickBook, play, Ready
<1>16. CASE SeekPos
  BY <1>16 DEF SeekPos
<1>17. CASE SeekPlay
  <2>1. PICK s \in 0 .. MaxTime :
          /\ play(seconds, s)
          /\ back' = IF from = NoPlace \/ s > Length(seconds) THEN NoPlace
                      ELSE <<from[1], from[2] + s>>
    BY <1>17 DEF SeekPlay
  <2>2. CASE back' # NoPlace
    <3>1. /\ seconds \in Tracks /\ cur_pos' = seconds /\ cur_start' = s /\ at' = "call"
          /\ UNCHANGED <<times, cue>>
      BY <2>1 DEF play
    <3>2. from = Spot(seconds, 0) /\ ~(s > Length(seconds)) /\ back' = <<from[1], from[2] + s>>
      BY <1>17, <2>1, <2>2 DEF SeekPlay
    <3>3. back' = Spot(seconds, s)
      BY <3>1, <3>2
    <3>4. cue /\ seconds + 1 \in Tracks => times[seconds] + s <= times[seconds + 1]
      BY <3>1, <3>2 DEF Length
    <3> QED BY <3>1, <3>3, <3>4
  <2> QED BY <2>2
<1>18. CASE Restart
  BY <1>18 DEF Restart
<1>19. CASE UNCHANGED bookVars
  BY <1>19 DEF bookVars
<1> QED BY <1>1, <1>2, <1>3, <1>4, <1>5, <1>6, <1>7, <1>8, <1>9, <1>10, <1>11, <1>12, <1>13,
           <1>14, <1>15, <1>16, <1>17, <1>18, <1>19, <1>20
    DEF BookNext

\* The length that is shown stays that of the track.
LEMMA LengthStep ==
    ASSUME BookTypes, TimerInv, LengthInv, [BookNext]_bookVars
    PROVE  LengthInv'
<1> USE BookConstants DEF
      LengthInv, Ascending, Length, TimerInv, Now, OnAir, NeedsTimer, Tracks, contents,
      position, lengths, updating, client
<1>a. BookFile /\ cur_pos \in Nat /\ cur_start \in Int /\ written \in Nat /\ base \in Int
      /\ delay \in Nat \cup {Off}
  BY DEF BookTypes
<1>b. /\ times \in [Tracks -> Nat]
      /\ (cue => \A i \in Tracks : i + 1 \in Tracks => times[i] <= times[i + 1])
      /\ (~cue => \A i \in Tracks : times[i] = 0)
  BY <1>a DEF BookFile
<1> USE <1>a, <1>b
<1>c. ends \in [Tracks -> Nat] /\ (cue => \A i, n \in Tracks : ends[i] = ends[n])
  BY DEF BookTypes, BookFile
<1> USE <1>c
<1>1. CASE Runs
  BY <1>1 DEF Runs
<1>2. CASE Begins
  BY <1>2 DEF Begins, Measured, CueTime
<1>3. CASE BeginThrows
  BY <1>3 DEF BeginThrows, Measured, CueTime
<1>4. CASE Opens
  BY <1>4 DEF Opens, updateTrackLen, InFile
<1>5. CASE OpenFails
  BY <1>5 DEF OpenFails
<1>6. CASE Second
  BY <1>6 DEF Second
<1>7. CASE Ends
  BY <1>7 DEF Ends
<1>8. CASE Over
  BY <1>8 DEF Over
<1>9. CASE CueNext
  BY <1>9 DEF CueNext
<1>10. CASE CueStarts
  BY <1>10 DEF CueStarts
<1>20. CASE SaveName
  BY <1>20 DEF SaveName, Quiet, Here, running
<1>11. CASE SaveSeconds
  BY <1>11 DEF SaveSeconds, Quiet, Here, running
<1>12. CASE SaveStart
  BY <1>12 DEF SaveStart
<1>13. CASE SavePos
  BY <1>13 DEF SavePos
<1>14. CASE ClickTrack
  BY <1>14 DEF ClickTrack, play, Ready
<1>15. CASE ClickBook
  BY <1>15 DEF ClickBook, play, Ready
<1>16. CASE SeekPos
  BY <1>16 DEF SeekPos
<1>17. CASE SeekPlay
  BY <1>17 DEF SeekPlay, play
<1>18. CASE Restart
  BY <1>18 DEF Restart
<1>19. CASE UNCHANGED bookVars
  BY <1>19 DEF bookVars
<1> QED BY <1>1, <1>2, <1>3, <1>4, <1>5, <1>6, <1>7, <1>8, <1>9, <1>10, <1>11, <1>12, <1>13,
           <1>14, <1>15, <1>16, <1>17, <1>18, <1>19, <1>20
    DEF BookNext

---------------------------------------------------------------------------
BookSafe ==
    BookTypes /\ TimerInv /\ StartInv /\ SaveInv /\ BookInv /\ BackInv /\ LengthInv

LEMMA BookStarts == BookInit => BookSafe
<1> SUFFICES ASSUME BookInit PROVE BookSafe
  OBVIOUS
<1> USE BookConstants
<1>1. BookFile
  <2>1. times \in [Tracks -> Nat] /\ ends \in [Tracks -> Nat]
    <3>1. CASE cue
      <4>1. times \in [Tracks -> 0 .. MaxTime]
        BY <3>1 DEF BookInit
      <4>2. PICK e \in times[items - 1] + 1 .. MaxTime : ends = [i \in Tracks |-> e]
        BY <3>1 DEF BookInit
      <4> QED BY <4>1, <4>2
    <3>2. CASE ~cue
      BY <3>2 DEF BookInit
    <3> QED BY <3>1, <3>2
  <2>2. ASSUME cue, NEW i \in Tracks, i + 1 \in Tracks PROVE times[i] <= times[i + 1]
    <3>1. i + 1 \in Tracks \ {0} /\ (i + 1) - 1 = i
      BY <2>2 DEF Tracks
    <3> QED BY <2>2, <3>1 DEF BookInit
  <2>3. cue => \A i, n \in Tracks : ends[i] = ends[n]
    BY DEF BookInit
  <2>4. ~cue => \A i \in Tracks : times[i] = 0
    BY DEF BookInit
  <2> QED BY <2>1, <2>2, <2>3, <2>4 DEF BookFile
<1>2. BookTypes
  BY <1>1 DEF BookInit, BookTypes
<1>3. TimerInv /\ StartInv /\ SaveInv /\ BookInv /\ BackInv /\ LengthInv
  BY DEF BookInit, TimerInv, OnAir, StartInv, SaveInv, BookInv, BackInv, LengthInv
<1> QED BY <1>2, <1>3 DEF BookSafe

LEMMA BookKept == BookSafe /\ [BookNext]_bookVars => BookSafe'
<1> QED BY TypesStep, TimerStep, StartStep, SaveStep, BookStep, BackStep, LengthStep
    DEF BookSafe

LEMMA BookIsSafe == BookSpec => []BookSafe
<1> QED BY BookStarts, BookKept, PTL DEF BookSpec

\* While a cue sheet plays, whose tracks begin in different seconds, the track that the
\* service shows is the one that is heard, whatever second the play began at.
THEOREM BookShown == BookSpec => []ShownIsHeard
<1>1. BookSafe => ShownIsHeard
  <2> SUFFICES ASSUME BookSafe, cue, Ascending, at = "play", delay # 0, ~task, cur_start >= 0
               PROVE  /\ cur_pos \in Tracks /\ base + written >= times[cur_pos]
                      /\ cur_pos + 1 < items => base + written < times[cur_pos + 1]
    BY DEF ShownIsHeard
  <2> USE BookConstants
  <2>1. cur_pos \in Tracks /\ base + written >= times[cur_pos]
    BY DEF BookSafe, TimerInv
  <2>2. ASSUME cur_pos + 1 < items PROVE base + written < times[cur_pos + 1]
    <3>1. cur_pos + 1 \in Tracks \ {0} /\ (cur_pos + 1) - 1 = cur_pos
      BY <2>1, <2>2 DEF Tracks
    <3>2. times[cur_pos] < times[cur_pos + 1]
      BY <3>1 DEF Ascending
    <3>3. /\ delay \in Nat \ {0} /\ base + written + delay = times[cur_pos + 1]
          /\ base \in Int /\ written \in Nat
      <4>1. delay # Off
        BY <2>2, <3>2 DEF BookSafe, TimerInv, OnAir, NeedsTimer
      <4> QED BY <4>1 DEF BookSafe, TimerInv, BookTypes, OnAir, Now
    <3> QED BY <3>3
  <2> QED BY <2>1, <2>2
<1> QED BY <1>1, BookIsSafe, PTL

\* The length that is shown is that of the track, for the tracks of a cue sheet too, when
\* the file was opened before its last track was due.
THEOREM BookLength == BookSpec => []LengthIsShown
<1>1. BookSafe => LengthIsShown
  BY DEF BookSafe, LengthInv, LengthIsShown, OnAir
<1> QED BY <1>1, BookIsSafe, PTL

\* A bookmark that was saved in peace names the second that was heard when saveBook
\* asked for it, although its four calls are answered while the play goes on.
THEOREM BookHeard == BookSpec => []BookIsHeard
<1>1. BookSafe => BookIsHeard
  BY DEF BookSafe, BookInv, BookIsHeard
<1> QED BY <1>1, BookIsSafe, PTL

\* A play from such a bookmark, or from where the seek bar was let go, begins in that
\* second of that file, whatever happens before the file is open.
THEOREM BookComesBack == BookSpec => ComesBack
<1>1. ASSUME BookSafe, [BookNext]_bookVars
      PROVE  [back # NoPlace /\ at = "open" /\ at' = "play" =>
                <<IF cue THEN 0 ELSE cur_pos, base'>> = back]_bookVars
  <2> SUFFICES ASSUME BookNext, back # NoPlace, at = "open", at' = "play"
               PROVE  <<IF cue THEN 0 ELSE cur_pos, base'>> = back
    BY <1>1 DEF bookVars, position
  <2>1. Opens
    BY DEF BookNext, Runs, Begins, BeginThrows, OpenFails, Second, Ends, Over, CueNext,
           CueStarts, SaveName, SaveSeconds, SaveStart, SavePos, ClickTrack, ClickBook, SeekPos,
           SeekPlay, play, Restart, position
  <2>2. base' = times[cur_pos] + cur_start
    BY <2>1 DEF Opens
  <2>3. Spot(cur_pos, cur_start) = back
    BY <1>1 DEF BookSafe, BackInv
  <2> QED BY <2>2, <2>3 DEF Spot
<1> QED BY <1>1, BookIsSafe, PTL DEF BookSpec, ComesBack
============================================================================
