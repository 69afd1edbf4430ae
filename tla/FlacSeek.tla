----------------------------- MODULE FlacSeek -----------------------------
(***************************************************************************)
(* flac_seek: the search for the frame that holds the sample a track is to *)
(* be played from.  A flac file has no index, so the search guesses an     *)
(* offset by interpolation, looks for the next frame header from there,    *)
(* and narrows its bounds, in samples and in bytes, with what it finds.    *)
(*                                                                         *)
(* A file is the set of the offsets of its frames, counted from the end of *)
(* the metadata, and the number of the first sample of each.  Every frame  *)
(* has Block samples but the last, which may be shorter.  The file may be  *)
(* damaged: then a frame has any number in its header.  fakes are offsets  *)
(* in the audio data that look like a header and do not decode.            *)
(***************************************************************************)
EXTENDS Integers, FiniteSets

CONSTANTS
    FileLen,      \* bytes of the file, without the metadata
    Block,        \* samples in a frame
    SampleSize,   \* bytes of a sample of all channels, not compressed
    Overhead,     \* added to the guess of a frame's size; 64
    Near,         \* frames that are rather decoded one by one than sought; 4
    Rate,         \* samples per second
    NoFrame,      \* a look that has found nothing
    MaxFrames,    \* bound: frames of a file
    MaxFakes,     \* bound: false headers in a file
    Numbers       \* bound: sample numbers in the headers of a damaged file

ASSUME FileAssumption ==
    /\ FileLen \in Nat \ {0} /\ Block \in Nat \ {0} /\ SampleSize \in Nat
    /\ Overhead \in Nat \ {0} /\ Near \in Nat /\ Rate \in Nat \ {0}
    /\ NoFrame \notin Nat /\ Numbers \subseteq Nat

VARIABLES
    frames, first, lastBlock, fakes,   \* the file; first[f]: a frame's first sample
    totalsamples,                      \* of STREAMINFO; 0 when not known
    table,                             \* the seek table: some frames' first samples
    start,                             \* the second to play from
    attempt,                           \* 1, or 2: the second after it is tried
    phase,                             \* "call", "seek", "found" or "failed"
    lower_bound, lower_bound_sample, upper_bound, upper_bound_sample,
    pos, needs_seek, first_seek, approx_bytes_per_frame,
    this_frame                         \* the frame of the last look, or NoFrame

file == <<frames, first, lastBlock, fakes, totalsamples, table, start>>
lower == <<lower_bound, lower_bound_sample>>
upper == <<upper_bound, upper_bound_sample>>
how == <<needs_seek, first_seek, approx_bytes_per_frame>>
flacVars == <<file, attempt, phase, lower, upper, pos, how, this_frame>>

\* The least and the greatest element, as a set of one element or none.
Least(S) == {x \in S : \A y \in S : x <= y}
Greatest(S) == {x \in S : \A y \in S : x >= y}
The(S) == CHOOSE x \in S : TRUE

\* The frame after f, or the end of the file.
After(f) == Least({g \in frames : g > f})
NextFrame(f) == IF After(f) = {} THEN FileLen ELSE The(After(f))
blocksize(f) == IF NextFrame(f) = FileLen THEN lastBlock ELSE Block
Size(f) == NextFrame(f) - f
target == (start + attempt - 1) * Rate

---------------------------------------------------------------------------
\* A file that is as its encoder wrote it, or damaged.
FlacInit ==
    /\ frames \in {S \in SUBSET (0 .. FileLen - 1) : 0 \in S /\ Cardinality(S) <= MaxFrames}
    /\ lastBlock \in 1 .. Block
    /\ LET true == [f \in frames |-> Block * Cardinality({g \in frames : g < f})] IN
       \/ /\ first = true
          /\ \E S \in SUBSET frames : table = [f \in S |-> true[f]]
          /\ totalsamples \in {0, Block * (Cardinality(frames) - 1) + lastBlock}
          /\ fakes \in {S \in SUBSET (0 .. FileLen - 1 \ frames) : Cardinality(S) <= MaxFakes}
       \/ /\ first \in [frames -> Numbers] /\ table = [f \in {} |-> 0] /\ fakes = {}
          /\ totalsamples = Block * (Cardinality(frames) - 1) + lastBlock
    /\ start \in 1 .. (Block * Cardinality(frames)) \div Rate
    /\ attempt = 1 /\ phase = "call"
    /\ lower_bound = 0 /\ lower_bound_sample = 0 /\ upper_bound = 0 /\ upper_bound_sample = 0
    /\ pos = -1 /\ needs_seek = TRUE /\ first_seek = TRUE /\ approx_bytes_per_frame = 0
    /\ this_frame = NoFrame

---------------------------------------------------------------------------
\* The call.

\* flac_init: the last point of the seek table that is not after the start, and the
\* first that is; the second try does not look for points of its own.
Lo == Greatest({f \in DOMAIN table : table[f] <= start * Rate})
Hi == Least({f \in DOMAIN table : table[f] > start * Rate})
PointOf(S) == IF S = {} THEN [sample |-> 0, offset |-> 0]
                        ELSE [sample |-> table[The(S)], offset |-> The(S)]
lo == PointOf(Lo)
hi == PointOf(Hi)
TableHelps == lo.sample < hi.sample /\ lo.offset <= hi.offset

\* The size of a frame: that of one not compressed, or the mean of the STREAMINFO.
Uncompressed(samples) == samples * SampleSize + Overhead
FirstApprox == {Uncompressed(Block)} \cup
    {(Size(f) + Size(g)) \div 2 + 1 : f, g \in frames}

SeekCall ==
    /\ phase = "call" /\ phase' = "seek"
    /\ lower_bound' = IF TableHelps THEN lo.offset ELSE 0
    /\ lower_bound_sample' = IF TableHelps THEN lo.sample ELSE 0
    /\ upper_bound' = IF TableHelps THEN hi.offset ELSE FileLen
    /\ upper_bound_sample' = IF TableHelps THEN hi.sample
                             ELSE IF totalsamples > 0 THEN totalsamples ELSE target
    /\ pos' = -1 /\ needs_seek' = TRUE /\ first_seek' = TRUE
    /\ approx_bytes_per_frame' \in FirstApprox
    /\ this_frame' = NoFrame /\ UNCHANGED <<file, attempt>>

---------------------------------------------------------------------------
\* One turn of the loop.

BoundsCross == lower_bound_sample >= upper_bound_sample \/ lower_bound > upper_bound

\* Mutant: the place may be before the lower bound.
PlaceBelow(g) == IF ~needs_seek THEN pos ELSE IF g >= upper_bound THEN upper_bound - 1 ELSE g
PlaceOf(g) ==
    LET p == IF g >= upper_bound THEN upper_bound - 1 ELSE g
    IN  IF ~needs_seek THEN pos ELSE IF p < lower_bound THEN lower_bound ELSE p

\* Where to look: by interpolation, one frame before, and within the bounds.
Guess == lower_bound - approx_bytes_per_frame
         + ((target - lower_bound_sample) * (upper_bound - lower_bound))
           \div (upper_bound_sample - lower_bound_sample)
Place == PlaceOf(Guess)

\* The next header from p on, of a frame or false.
Header(p) == Least({h \in frames \cup fakes : h >= p})

\* frame_sync, called until a frame decodes, ten times at most.  A false header does not,
\* and its decoder gives up anywhere after it, perhaps beyond the headers of frames or
\* with no bytes left: one failure has every outcome that ten have.
Sync(p) ==
    IF Header(p) # {} /\ Header(p) \subseteq frames
    THEN Header(p)
    ELSE {NoFrame} \cup {f \in frames : Header(p) # {} /\ f > p}

\* f holds the sample that is looked for.
Holds(f) == target >= first[f] /\ target < first[f] + blocksize(f)
\* f is not before the upper bound, which only the first look may find.
Beyond(f) == first[f] + blocksize(f) >= upper_bound_sample /\ ~first_seek

Looks ==
    /\ phase = "seek" /\ ~BoundsCross
    /\ this_frame' \in Sync(Place)
    /\ UNCHANGED <<file, attempt>>

\* The bounds have crossed.
BoundsFail ==
    /\ phase = "seek" /\ BoundsCross /\ phase' = "failed"
    /\ UNCHANGED <<file, attempt, lower, upper, pos, how, this_frame>>

\* No frame from there on, or none that decodes.
SyncFails ==
    /\ Looks /\ this_frame' = NoFrame /\ phase' = "failed" /\ pos' = Place
    /\ UNCHANGED <<lower, upper, how>>

Found ==
    /\ Looks /\ this_frame' # NoFrame /\ Holds(this_frame')
    /\ phase' = "found" /\ pos' = Place
    /\ UNCHANGED <<lower, upper, how>>

\* "Our last move backwards wasn't big enough, try again."  Mutant: as far as before.
StepSame ==
    /\ Looks /\ this_frame' # NoFrame /\ ~Holds(this_frame') /\ Beyond(this_frame')
    /\ Place # lower_bound /\ needs_seek
    /\ pos' = Place
    /\ UNCHANGED <<phase, lower, upper, how>>

StepBack ==
    /\ Looks /\ this_frame' # NoFrame /\ ~Holds(this_frame') /\ Beyond(this_frame')
    /\ Place # lower_bound /\ needs_seek
    /\ approx_bytes_per_frame' = 2 * approx_bytes_per_frame /\ pos' = Place
    /\ UNCHANGED <<phase, lower, upper, needs_seek, first_seek>>

\* There is nowhere to go back to.  Mutant: it does not try.
NoStepBack ==
    /\ Looks /\ this_frame' # NoFrame /\ ~Holds(this_frame') /\ Beyond(this_frame')
    /\ phase' = "failed" /\ pos' = Place
    /\ UNCHANGED <<lower, upper, how>>

StepFails ==
    /\ Looks /\ this_frame' # NoFrame /\ ~Holds(this_frame') /\ Beyond(this_frame')
    /\ Place = lower_bound \/ ~needs_seek
    /\ phase' = "failed" /\ pos' = Place
    /\ UNCHANGED <<lower, upper, how>>

\* "Make sure we are not seeking in a corrupted stream."
Corrupted ==
    /\ Looks /\ this_frame' # NoFrame /\ ~Holds(this_frame') /\ ~Beyond(this_frame')
    /\ first[this_frame'] < lower_bound_sample
    /\ phase' = "failed" /\ pos' = Place
    /\ UNCHANGED <<lower, upper, how>>

\* The frame is after the sample: it bounds the search from above.
NarrowUpper ==
    /\ Looks /\ this_frame' # NoFrame /\ ~Beyond(this_frame')
    /\ first[this_frame'] >= lower_bound_sample /\ target < first[this_frame']
    /\ upper_bound' = this_frame' /\ upper_bound_sample' = first[this_frame']
    /\ first_seek' = FALSE /\ pos' = Place
    /\ approx_bytes_per_frame' = Uncompressed(blocksize(this_frame'))
    /\ UNCHANGED <<phase, lower, needs_seek>>

\* Mutant: the samples of the frame are counted twice.
NarrowLowerTwice ==
    /\ Looks /\ this_frame' # NoFrame /\ ~Beyond(this_frame')
    /\ LET f == this_frame' IN
       /\ first[f] >= lower_bound_sample /\ target >= first[f] + blocksize(f)
       /\ lower_bound' = NextFrame(f) /\ lower_bound_sample' = first[f] + 2 * blocksize(f)
       /\ approx_bytes_per_frame' = Uncompressed(blocksize(f))
    /\ first_seek' = FALSE /\ pos' = Place /\ UNCHANGED <<phase, upper, needs_seek>>

\* It is before the sample: the next one bounds the search from below, and is looked
\* at next when the sample is not far.
NarrowLower ==
    /\ Looks /\ this_frame' # NoFrame /\ ~Beyond(this_frame')
    /\ LET f == this_frame' IN
       /\ first[f] >= lower_bound_sample /\ target >= first[f] + blocksize(f)
       /\ lower_bound' = NextFrame(f) /\ lower_bound_sample' = first[f] + blocksize(f)
       /\ first_seek' = FALSE
       /\ approx_bytes_per_frame' = Uncompressed(blocksize(f))
       /\ IF target < first[f] + Near * blocksize(f)
          THEN pos' = NextFrame(f) /\ needs_seek' = FALSE
          ELSE pos' = Place /\ UNCHANGED needs_seek
    /\ UNCHANGED <<phase, upper>>

\* flacPlay tries once more, from the next second on.
Again ==
    /\ phase = "failed" /\ attempt = 1 /\ attempt' = 2 /\ phase' = "call"
    /\ UNCHANGED <<file, lower, upper, pos, how, this_frame>>

FlacNext ==
    \/ SeekCall \/ BoundsFail \/ SyncFails \/ Found \/ StepBack \/ StepFails
    \/ Corrupted \/ NarrowUpper \/ NarrowLower \/ Again

FlacSpec == FlacInit /\ [][FlacNext]_flacVars

---------------------------------------------------------------------------
\* What the search promises.

\* The headers are numbered as the encoder did, and STREAMINFO has their number.
WellFormed ==
    /\ 0 \in frames /\ first[0] = 0
    /\ \A f \in frames : \/ NextFrame(f) = FileLen /\ totalsamples = first[f] + lastBlock
                         \/ NextFrame(f) \in frames /\ first[NextFrame(f)] = first[f] + Block
    /\ \A f, g \in frames : f < g => NextFrame(f) <= g /\ first[f] + Block <= first[g]
    /\ \A f \in DOMAIN table : table[f] = first[f]

\* The sample is in the part of the file that is searched.
Reachable == target < IF TableHelps THEN hi.sample ELSE totalsamples

FlacTypeOK ==
    /\ frames \subseteq 0 .. FileLen - 1 /\ first \in [frames -> Nat] /\ lastBlock \in 1 .. Block
    /\ totalsamples \in Nat
    /\ fakes \subseteq 0 .. FileLen - 1
    /\ DOMAIN table \subseteq frames /\ \A f \in DOMAIN table : table[f] \in Nat
    /\ start \in Nat /\ attempt \in {1, 2} /\ phase \in {"call", "seek", "found", "failed"}
    /\ lower_bound \in 0 .. FileLen /\ upper_bound \in 0 .. FileLen
    /\ lower_bound_sample \in Nat /\ upper_bound_sample \in Nat
    /\ pos \in -1 .. FileLen /\ needs_seek \in BOOLEAN /\ first_seek \in BOOLEAN
    /\ approx_bytes_per_frame \in Nat /\ this_frame \in frames \cup {NoFrame}

\* The loop invariant: the frame that holds the sample is between the two bounds,
\* in samples and in bytes.
Brackets ==
    phase = "seek" /\ WellFormed /\ Reachable =>
        /\ lower_bound_sample <= target /\ target < upper_bound_sample
        /\ \A f \in frames : Holds(f) => lower_bound <= f /\ f < upper_bound

\* The search of a file that is not damaged gives up only where no frame follows the
\* place it looked at, or a false header comes before the next frame: its bounds never
\* cross, and it never runs out of steps back.
GivesUpLost ==
    phase = "failed" /\ WellFormed /\ Reachable => Header(pos) \cap frames = {}

\* A turn takes away from what is left of the search: it uses up the first look's
\* licence to leave the bounds, or brings the bounds closer in samples, or, between
\* the same bounds, moves its guess back while that is still after the lower one.
Shrinks ==
    /\ lower_bound_sample < upper_bound_sample
    /\ \/ first_seek /\ ~first_seek'
       \/ /\ first_seek' = first_seek
          /\ \/ upper_bound_sample' - lower_bound_sample'
                < upper_bound_sample - lower_bound_sample
             \/ /\ UNCHANGED <<lower, upper, needs_seek>>
                /\ lower_bound < Guess /\ Guess' < Guess

\* Every turn of flac_seek that goes on does, also in a damaged file: the three
\* measures, in this order, cannot go down for ever (flac/main.c:340-439).
RoundsShrink == [][phase = "seek" /\ phase' = "seek" => Shrinks]_flacVars

\* "while(1)": the search ends, also in a damaged file.
SearchEnds == phase = "seek" ~> phase # "seek"
===========================================================================
