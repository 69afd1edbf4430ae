-------------------------- MODULE FlacSeek_proofs --------------------------
(***************************************************************************)
(* For every file, frame size and start: the search of flac_seek keeps its *)
(* types, and in a file that is not damaged its bounds never let go of the *)
(* frame that holds the sample, and never cross.  In every file, damaged   *)
(* or not, each turn leaves less to search than there was before it.       *)
(***************************************************************************)
EXTENDS FlacSeek, FiniteSetTheorems, TLAPS

---------------------------------------------------------------------------
\* Helpers on sets and on the frames of a file.

\* The(S) is the element of a set that has one.
LEMMA TheIs == ASSUME NEW S, S # {} PROVE The(S) \in S
  BY DEF The

\* The frame after f is a frame, or the end of the file.
LEMMA NextFrameIs ==
  ASSUME FlacTypeOK, NEW f \in frames
  PROVE  /\ NextFrame(f) \in 0 .. FileLen
         /\ NextFrame(f) > f
         /\ NextFrame(f) = FileLen \/ NextFrame(f) \in frames
  <1>1. CASE After(f) = {}
    BY <1>1, FileAssumption DEF NextFrame, FlacTypeOK
  <1>2. CASE After(f) # {}
    <2>1. The(After(f)) \in After(f)
      BY <1>2, TheIs
    <2>2. The(After(f)) \in frames /\ The(After(f)) > f
      BY <2>1 DEF After, Least
    <2>3. NextFrame(f) = The(After(f))
      BY <1>2 DEF NextFrame
    <2>4. NextFrame(f) \in frames /\ NextFrame(f) > f
      BY <2>2, <2>3
    <2>5. frames \subseteq 0 .. FileLen
      BY FileAssumption DEF FlacTypeOK
    <2> QED BY <2>4, <2>5
  <1> QED BY <1>1, <1>2

\* A frame has samples, and no more than Block.
LEMMA BlockSize ==
  ASSUME FlacTypeOK, NEW f \in frames
  PROVE  blocksize(f) \in Nat /\ blocksize(f) > 0 /\ blocksize(f) <= Block
  BY FileAssumption DEF blocksize, FlacTypeOK

\* A product and a quotient of the kind the code forms.
LEMMA ProductNat == ASSUME NEW a \in Nat, NEW b \in Nat PROVE a * b \in Nat
  OBVIOUS

LEMMA QuotientInt ==
  ASSUME NEW a \in Int, NEW b \in Int, NEW c \in Int, c > 0
  PROVE  (a * b) \div c \in Int
  <1>1. a * b \in Int
    OBVIOUS
  <1> QED BY <1>1

\* The start of the second try is one second after that of the first.
LEMMA TargetIs ==
  ASSUME FlacTypeOK
  PROVE  target \in Nat /\ start * Rate \in Nat /\ start * Rate <= target
  <1>1. start \in Nat /\ Rate \in Nat /\ attempt \in {1, 2}
    BY FileAssumption DEF FlacTypeOK
  <1>2. start * Rate \in Nat
    BY <1>1, ProductNat
  <1>3. target = IF attempt = 1 THEN start * Rate ELSE start * Rate + Rate
    <2>1. CASE attempt = 1
      BY <1>1, <2>1 DEF target
    <2>2. CASE attempt = 2
      <3>1. (start + 1) * Rate = start * Rate + Rate
        BY <1>1
      <3> QED BY <1>1, <2>2, <3>1 DEF target
    <2> QED BY <1>1, <2>1, <2>2
  <1> QED BY <1>1, <1>2, <1>3

---------------------------------------------------------------------------
\* Where the loop looks, and what it finds.

LEMMA PlaceIs ==
  ASSUME FlacTypeOK, ~BoundsCross
  PROVE  /\ Place \in -1 .. FileLen
         /\ needs_seek => Place >= lower_bound
         /\ ~needs_seek => Place = pos
  <1>1. Guess \in Int
    <2>1. target \in Nat
      BY TargetIs
    <2>2. upper_bound_sample - lower_bound_sample > 0
      BY DEF BoundsCross, FlacTypeOK
    <2> DEFINE q == ((target - lower_bound_sample) * (upper_bound - lower_bound))
                      \div (upper_bound_sample - lower_bound_sample)
    <2>3. q \in Int
      BY <2>1, <2>2, QuotientInt DEF FlacTypeOK
    <2>4. Guess = lower_bound - approx_bytes_per_frame + q
      BY DEF Guess
    <2> HIDE DEF q
    <2> QED BY <2>3, <2>4 DEF FlacTypeOK
  <1> QED BY <1>1, FileAssumption DEF Place, PlaceOf, BoundsCross, FlacTypeOK

\* frame_sync finds no frame before its place, and finds the frame it stands on.
LEMMA SyncIs ==
  ASSUME FlacTypeOK, NEW p \in Int, NEW f \in Sync(p)
  PROVE  /\ f = NoFrame \/ (f \in frames /\ f >= p)
         /\ f = NoFrame => Header(p) \cap frames = {}
         /\ p \in frames => f = p
  <1>1. (\A g \in frames : g \in Int) /\ (\A h \in fakes : h \in Int) /\ NoFrame \notin frames
    <2>1. frames \subseteq 0 .. FileLen - 1 /\ fakes \subseteq 0 .. FileLen - 1 /\ FileLen \in Nat
      BY FileAssumption DEF FlacTypeOK
    <2>2. \A g \in 0 .. FileLen - 1 : g \in Nat /\ g \in Int
      BY <2>1
    <2>3. NoFrame \notin Nat
      BY FileAssumption
    <2> QED BY <2>1, <2>2, <2>3
  <1>2. \A h \in Header(p) : h \in frames \cup fakes /\ h >= p /\ (\A g \in frames : g >= p => h <= g)
    BY DEF Header, Least
  <1>3. f = NoFrame \/ (f \in frames /\ f >= p)
    BY <1>1, <1>2 DEF Sync
  <1>4. \A g, h \in Header(p) : g = h
    BY <1>1 DEF Header, Least
  <1>5. f = NoFrame => Header(p) \cap frames = {}
    BY <1>1, <1>4 DEF Sync
  <1>6. ASSUME p \in frames PROVE f = p
    <2>1. ASSUME NEW h \in Header(p) PROVE h = p
      <3>1. h \in Int /\ h >= p
        BY <1>1, <1>2
      <3>2. h <= p
        BY <1>2, <1>6
      <3> QED BY <3>1, <3>2
    <2>2. p \in Header(p)
      BY <1>1, <1>6 DEF Header, Least
    <2>3. Header(p) = {p}
      BY <2>1, <2>2
    <2> QED BY <1>6, <2>3 DEF Sync
  <1> QED BY <1>3, <1>5, <1>6

\* What a turn of the loop finds, from its place on.
LEMMA LookIs ==
  ASSUME FlacTypeOK, Looks, this_frame' # NoFrame
  PROVE  this_frame' \in frames /\ this_frame' >= Place
  BY PlaceIs, SyncIs DEF Looks

---------------------------------------------------------------------------
\* The types.

LEMMA InitTypes == FlacInit => FlacTypeOK
  <1> SUFFICES ASSUME FlacInit PROVE FlacTypeOK
    OBVIOUS
  <1>1. frames \subseteq 0 .. FileLen - 1 /\ 0 \in frames
    BY DEF FlacInit
  <1>2. IsFiniteSet(0 .. FileLen - 1)
    BY FileAssumption, FS_Interval
  <1>3. \A S \in SUBSET frames : Cardinality(S) \in Nat
    BY <1>1, <1>2, FS_Subset, FS_CardinalityType
  <1>4. Cardinality(frames) \in Nat \ {0}
    BY <1>1, <1>2, <1>3, FS_Subset, FS_EmptySet
  <1>5. Block \in Nat \ {0} /\ lastBlock \in 1 .. Block
    BY FileAssumption DEF FlacInit
  <1>6. Block * (Cardinality(frames) - 1) + lastBlock \in Nat
    <2>1. Block * (Cardinality(frames) - 1) \in Nat
      BY <1>4, <1>5, ProductNat
    <2> QED BY <1>5, <2>1
  <1>7. totalsamples \in Nat
    BY <1>6 DEF FlacInit
  <1> DEFINE number(f) == Block * Cardinality({g \in frames : g < f})
  <1>8. \A f \in frames : number(f) \in Nat
    BY <1>3, <1>5, ProductNat
  <1>9. /\ first \in [frames -> Nat]
        /\ fakes \subseteq 0 .. FileLen - 1
        /\ DOMAIN table \subseteq frames
        /\ \A f \in DOMAIN table : table[f] \in Nat
    <2>1. CASE /\ first = [f \in frames |-> number(f)]
               /\ \E S \in SUBSET frames : table = [f \in S |-> first[f]]
               /\ fakes \in {S \in SUBSET (0 .. FileLen - 1 \ frames) : Cardinality(S) <= MaxFakes}
      BY <1>8, <2>1
    <2>2. CASE first \in [frames -> Numbers] /\ table = [f \in {} |-> 0] /\ fakes = {}
      BY <2>2, FileAssumption
    <2> QED BY <2>1, <2>2 DEF FlacInit
  <1>10. start \in Nat /\ attempt \in {1, 2} /\ phase = "call"
    BY DEF FlacInit
  <1>11. /\ lower_bound = 0 /\ lower_bound_sample = 0 /\ upper_bound = 0 /\ upper_bound_sample = 0
         /\ pos = -1 /\ needs_seek = TRUE /\ first_seek = TRUE /\ approx_bytes_per_frame = 0
         /\ this_frame = NoFrame
    BY DEF FlacInit
  <1> QED BY <1>1, <1>5, <1>7, <1>9, <1>10, <1>11, FileAssumption DEF FlacTypeOK


\* What the calls and the turns that go on leave alone of the types.
LEMMA FileTypes ==
  ASSUME FlacTypeOK, UNCHANGED file
  PROVE  /\ frames' \subseteq 0 .. FileLen - 1 /\ first' \in [frames' -> Nat] /\ lastBlock' \in 1 .. Block
         /\ totalsamples' \in Nat
         /\ fakes' \subseteq 0 .. FileLen - 1
         /\ DOMAIN table' \subseteq frames' /\ \A f \in DOMAIN table' : table'[f] \in Nat
         /\ start' \in Nat
  BY DEF FlacTypeOK, file

LEMMA UncompressedNat == ASSUME NEW n \in Nat PROVE Uncompressed(n) \in Nat
  BY ProductNat, FileAssumption DEF Uncompressed

\* The points of the seek table, and the size that is guessed first.
LEMMA PointIs ==
  ASSUME FlacTypeOK, NEW S \in SUBSET DOMAIN table
  PROVE  /\ PointOf(S).sample \in Nat /\ PointOf(S).offset \in 0 .. FileLen
         /\ S # {} => /\ PointOf(S).offset \in S
                      /\ PointOf(S).sample = table[PointOf(S).offset]
  <1>1. CASE S = {}
    BY <1>1, FileAssumption DEF PointOf
  <1>2. CASE S # {}
    <2>1. The(S) \in S
      BY <1>2, TheIs
    <2>2. PointOf(S).offset = The(S) /\ PointOf(S).sample = table[The(S)]
      BY <1>2 DEF PointOf
    <2>3. The(S) \in frames /\ table[The(S)] \in Nat
      BY <2>1 DEF FlacTypeOK
    <2>4. frames \subseteq 0 .. FileLen
      BY FileAssumption DEF FlacTypeOK
    <2> QED BY <2>1, <2>2, <2>3, <2>4
  <1> QED BY <1>1, <1>2

LEMMA ApproxNat == ASSUME FlacTypeOK, NEW a \in FirstApprox PROVE a \in Nat
  <1>1. CASE a = Uncompressed(Block)
    BY <1>1, UncompressedNat, FileAssumption
  <1>2. ASSUME NEW f \in frames, NEW g \in frames, a = (Size(f) + Size(g)) \div 2 + 1
        PROVE  a \in Nat
    <2>1. Size(f) \in Nat /\ Size(g) \in Nat
      BY NextFrameIs, FileAssumption DEF Size, FlacTypeOK
    <2> QED BY <1>2, <2>1
  <1> QED BY <1>1, <1>2 DEF FirstApprox

LEMMA TypesKept == FlacTypeOK /\ [FlacNext]_flacVars => FlacTypeOK'
  <1> SUFFICES ASSUME FlacTypeOK, [FlacNext]_flacVars PROVE FlacTypeOK'
    OBVIOUS
  <1> USE FileAssumption
  <1>1. ASSUME SeekCall PROVE FlacTypeOK'
    <2>1. UNCHANGED file
      BY <1>1 DEF SeekCall
    <2>2. Lo \in SUBSET DOMAIN table /\ Hi \in SUBSET DOMAIN table
      BY DEF Lo, Hi, Least, Greatest
    <2>3. /\ lo.sample \in Nat /\ lo.offset \in 0 .. FileLen
          /\ hi.sample \in Nat /\ hi.offset \in 0 .. FileLen
      BY <2>2, PointIs DEF lo, hi
    <2>4. /\ lower_bound' \in 0 .. FileLen /\ upper_bound' \in 0 .. FileLen
          /\ lower_bound_sample' \in Nat /\ upper_bound_sample' \in Nat
      BY <1>1, <2>3, TargetIs DEF SeekCall, FlacTypeOK
    <2>5. approx_bytes_per_frame' \in Nat
      BY <1>1, ApproxNat DEF SeekCall
    <2>6. /\ attempt' \in {1, 2} /\ phase' \in {"call", "seek", "found", "failed"}
          /\ pos' \in -1 .. FileLen /\ needs_seek' \in BOOLEAN /\ first_seek' \in BOOLEAN
          /\ this_frame' \in frames' \cup {NoFrame}
      BY <1>1 DEF SeekCall, FlacTypeOK
    <2> QED BY <2>1, <2>4, <2>5, <2>6, FileTypes DEF FlacTypeOK
  <1>2. ASSUME BoundsFail PROVE FlacTypeOK'
    BY <1>2 DEF BoundsFail, FlacTypeOK, file, lower, upper, how
  <1>3. ASSUME Again PROVE FlacTypeOK'
    BY <1>3 DEF Again, FlacTypeOK, file, lower, upper, how
  <1>4. ASSUME UNCHANGED flacVars PROVE FlacTypeOK'
    BY <1>4 DEF flacVars, FlacTypeOK, file, lower, upper, how
  <1>5. ASSUME Looks, pos' = Place,
               \/ UNCHANGED phase
               \/ phase' \in {"found", "failed"},
               UNCHANGED <<lower, upper, needs_seek>>,
               first_seek' \in BOOLEAN, approx_bytes_per_frame' \in Nat
        PROVE  FlacTypeOK'
    <2>1. UNCHANGED file /\ UNCHANGED attempt /\ ~BoundsCross
      BY <1>5 DEF Looks
    <2>2. this_frame' \in frames' \cup {NoFrame}
      BY <1>5, <2>1, LookIs DEF file
    <2>3. pos' \in -1 .. FileLen
      BY <1>5, <2>1, PlaceIs
    <2>4. /\ attempt' \in {1, 2} /\ phase' \in {"call", "seek", "found", "failed"}
          /\ lower_bound' \in 0 .. FileLen /\ upper_bound' \in 0 .. FileLen
          /\ lower_bound_sample' \in Nat /\ upper_bound_sample' \in Nat
          /\ needs_seek' \in BOOLEAN
      BY <1>5, <2>1 DEF FlacTypeOK, lower, upper
    <2> QED BY <1>5, <2>1, <2>2, <2>3, <2>4, FileTypes DEF FlacTypeOK
  <1>6. ASSUME SyncFails \/ Found \/ StepFails \/ Corrupted PROVE FlacTypeOK'
    <2>1. /\ Looks /\ pos' = Place /\ phase' \in {"found", "failed"}
          /\ UNCHANGED <<lower, upper, how>>
      BY <1>6 DEF SyncFails, Found, StepFails, Corrupted
    <2>2. first_seek' \in BOOLEAN /\ approx_bytes_per_frame' \in Nat /\ UNCHANGED needs_seek
      BY <2>1 DEF how, FlacTypeOK
    <2> QED BY <1>5, <2>1, <2>2
  <1>7. ASSUME StepBack PROVE FlacTypeOK'
    <2>1. /\ Looks /\ pos' = Place /\ UNCHANGED phase
          /\ UNCHANGED <<lower, upper, needs_seek, first_seek>>
          /\ approx_bytes_per_frame' = 2 * approx_bytes_per_frame
      BY <1>7 DEF StepBack
    <2>2. first_seek' \in BOOLEAN /\ approx_bytes_per_frame' \in Nat
      BY <2>1 DEF FlacTypeOK
    <2> QED BY <1>5, <2>1, <2>2
  <1>8. ASSUME NarrowUpper PROVE FlacTypeOK'
    <2>1. /\ Looks /\ this_frame' # NoFrame /\ pos' = Place /\ UNCHANGED <<phase, lower, needs_seek>>
          /\ upper_bound' = this_frame' /\ upper_bound_sample' = first[this_frame']
          /\ first_seek' = FALSE /\ approx_bytes_per_frame' = Uncompressed(blocksize(this_frame'))
      BY <1>8 DEF NarrowUpper
    <2>2. UNCHANGED file /\ UNCHANGED attempt /\ ~BoundsCross /\ this_frame' \in frames
      BY <2>1, LookIs DEF Looks
    <2>3. /\ upper_bound' \in 0 .. FileLen /\ upper_bound_sample' \in Nat
          /\ approx_bytes_per_frame' \in Nat
      BY <2>1, <2>2, BlockSize, UncompressedNat DEF FlacTypeOK
    <2>4. /\ pos' \in -1 .. FileLen
          /\ this_frame' \in frames' \cup {NoFrame}
      BY <2>1, <2>2, PlaceIs DEF file
    <2>5. /\ attempt' \in {1, 2} /\ phase' \in {"call", "seek", "found", "failed"}
          /\ lower_bound' \in 0 .. FileLen /\ lower_bound_sample' \in Nat
          /\ needs_seek' \in BOOLEAN /\ first_seek' \in BOOLEAN
      BY <2>1, <2>2 DEF FlacTypeOK, lower
    <2> QED BY <2>2, <2>3, <2>4, <2>5, FileTypes DEF FlacTypeOK
  <1>9. ASSUME NarrowLower PROVE FlacTypeOK'
    <2>1. /\ Looks /\ this_frame' # NoFrame /\ UNCHANGED <<phase, upper>>
          /\ lower_bound' = NextFrame(this_frame')
          /\ lower_bound_sample' = first[this_frame'] + blocksize(this_frame')
          /\ first_seek' = FALSE /\ approx_bytes_per_frame' = Uncompressed(blocksize(this_frame'))
          /\ \/ pos' = NextFrame(this_frame') /\ needs_seek' = FALSE
             \/ pos' = Place /\ UNCHANGED needs_seek
      BY <1>9 DEF NarrowLower
    <2>2. UNCHANGED file /\ UNCHANGED attempt /\ ~BoundsCross /\ this_frame' \in frames
      BY <2>1, LookIs DEF Looks
    <2>3. NextFrame(this_frame') \in 0 .. FileLen
      BY <2>2, NextFrameIs
    <2>4. lower_bound_sample' \in Nat /\ approx_bytes_per_frame' \in Nat
      BY <2>1, <2>2, BlockSize, UncompressedNat DEF FlacTypeOK
    <2>5. pos' \in -1 .. FileLen /\ needs_seek' \in BOOLEAN
      <3>1. Place \in -1 .. FileLen /\ NextFrame(this_frame') \in -1 .. FileLen
        BY <2>2, <2>3, PlaceIs
      <3>2. needs_seek \in BOOLEAN
        BY DEF FlacTypeOK
      <3> QED BY <2>1, <3>1, <3>2
    <2>6. /\ attempt' \in {1, 2} /\ phase' \in {"call", "seek", "found", "failed"}
          /\ upper_bound' \in 0 .. FileLen /\ upper_bound_sample' \in Nat
          /\ first_seek' \in BOOLEAN /\ this_frame' \in frames' \cup {NoFrame}
      BY <2>1, <2>2 DEF FlacTypeOK, upper, file
    <2> QED BY <2>1, <2>2, <2>3, <2>4, <2>5, <2>6, FileTypes DEF FlacTypeOK
  <1> QED BY <1>1, <1>2, <1>3, <1>4, <1>6, <1>7, <1>8, <1>9 DEF FlacNext

\* Type correctness of the search of a flac file.
THEOREM FlacTypes == FlacSpec => []FlacTypeOK
  <1> QED BY InitTypes, TypesKept, PTL DEF FlacSpec

---------------------------------------------------------------------------
\* The inductive invariant.

Good == WellFormed /\ Reachable

\* The lower bound is a frame, the upper one a frame or the end; after a near miss
\* the search stands on the lower bound.
Bounds ==
    /\ lower_bound_sample <= target /\ target < upper_bound_sample
    /\ lower_bound \in frames /\ lower_bound_sample = first[lower_bound]
    /\ \/ upper_bound \in frames /\ upper_bound_sample = first[upper_bound]
       \/ upper_bound = FileLen /\ upper_bound_sample = totalsamples
    /\ ~needs_seek => pos = lower_bound /\ target < lower_bound_sample + Near * Block

IInv ==
    /\ FlacTypeOK
    /\ phase = "seek" /\ Good => Bounds
    /\ GivesUpLost

\* A file does not change, nor the sample within one try.
LEMMA GoodKept ==
  ASSUME UNCHANGED file, UNCHANGED attempt
  PROVE  (Good' => Good) /\ target' = target
  <1>1. target' = target
    BY DEF target, file
  <1>2. WellFormed' => WellFormed
    BY DEF file, WellFormed, NextFrame, After
  <1>3. Reachable' => Reachable
    <2>1. Lo' = Lo /\ Hi' = Hi
      BY DEF file, Lo, Hi
    <2>2. lo' = lo /\ hi' = hi
      BY <2>1 DEF file, lo, hi, PointOf
    <2>3. TableHelps' = TableHelps
      BY <2>2 DEF TableHelps
    <2> QED BY <1>1, <2>2, <2>3 DEF file, Reachable
  <1> QED BY <1>1, <1>2, <1>3 DEF Good


\* In a file that is not damaged the first samples grow with the offsets.
LEMMA FramesGrow ==
  ASSUME FlacTypeOK, WellFormed, NEW f \in frames, NEW g \in frames
  PROVE  /\ f \in Nat /\ g \in Nat /\ first[f] \in Nat /\ first[g] \in Nat
         /\ f < g => first[f] + Block <= first[g] /\ NextFrame(f) <= g
         /\ f >= g => first[f] >= first[g]
  <1>1. f \in Nat /\ g \in Nat /\ first[f] \in Nat /\ first[g] \in Nat
    BY FileAssumption DEF FlacTypeOK
  <1>2. /\ f < g => first[f] + Block <= first[g] /\ NextFrame(f) <= g
        /\ g < f => first[g] + Block <= first[f]
    BY DEF WellFormed
  <1>3. f >= g => first[f] >= first[g]
    BY <1>1, <1>2, FileAssumption
  <1> QED BY <1>1, <1>2, <1>3

\* A frame in the bounds that ends before the sample is not the last: the next one
\* begins where it ends.
LEMMA NextBegins ==
  ASSUME FlacTypeOK, WellFormed, Bounds, NEW f \in frames,
         target >= first[f] + blocksize(f)
  PROVE  /\ NextFrame(f) \in frames /\ blocksize(f) = Block
         /\ first[NextFrame(f)] = first[f] + Block
  <1>1. target \in Nat /\ first[f] \in Nat /\ f \in 0 .. FileLen - 1
    BY TargetIs DEF FlacTypeOK
  <1>2. NextFrame(f) # FileLen
    <2> SUFFICES ASSUME NextFrame(f) = FileLen PROVE FALSE
      OBVIOUS
    <2>1. blocksize(f) = lastBlock /\ lastBlock \in 1 .. Block
      BY DEF blocksize, FlacTypeOK
    <2>2. FileLen \notin frames
      BY FileAssumption DEF FlacTypeOK
    <2>3. totalsamples = first[f] + lastBlock
      BY <2>2 DEF WellFormed
    <2>4. target >= totalsamples
      BY <2>1, <2>3
    <2>5. CASE upper_bound_sample = totalsamples
      BY <1>1, <2>4, <2>5 DEF Bounds, FlacTypeOK
    <2>6. CASE upper_bound \in frames /\ upper_bound_sample = first[upper_bound]
      <3>1. upper_bound \in 0 .. FileLen - 1
        BY <2>6 DEF FlacTypeOK
      <3>2. ~(f < upper_bound)
        BY <1>1, <2>6, <3>1, FramesGrow, FileAssumption
      <3>3. first[upper_bound] <= first[f] /\ first[upper_bound] \in Nat
        BY <1>1, <2>6, <3>1, <3>2, FramesGrow, FileAssumption
      <3>4. target < first[upper_bound]
        BY <2>6 DEF Bounds
      <3> QED BY <1>1, <2>1, <3>3, <3>4, FileAssumption
    <2> QED BY <2>5, <2>6 DEF Bounds
  <1>3. NextFrame(f) \in frames /\ first[NextFrame(f)] = first[f] + Block
    BY <1>2 DEF WellFormed
  <1> QED BY <1>2, <1>3 DEF blocksize

\* The bounds do not cross, and what a look finds is not before the lower one.
LEMMA BoundsApart ==
  ASSUME FlacTypeOK, WellFormed, Bounds PROVE ~BoundsCross
  <1>1. target \in Nat /\ lower_bound_sample < upper_bound_sample
    BY TargetIs DEF Bounds, FlacTypeOK
  <1>2. CASE upper_bound = FileLen
    BY <1>1, <1>2, FileAssumption DEF BoundsCross, FlacTypeOK
  <1>3. CASE upper_bound \in frames /\ upper_bound_sample = first[upper_bound]
    <2>1. ~(lower_bound >= upper_bound)
      BY <1>1, <1>3, FramesGrow DEF Bounds
    <2> QED BY <1>1, <2>1, FileAssumption DEF BoundsCross, FlacTypeOK
  <1> QED BY <1>2, <1>3 DEF Bounds

LEMMA LookInBounds ==
  ASSUME FlacTypeOK, WellFormed, Bounds, Looks, this_frame' # NoFrame
  PROVE  /\ this_frame' \in frames /\ this_frame' >= lower_bound
         /\ first[this_frame'] >= lower_bound_sample
         /\ Place = lower_bound \/ ~needs_seek => this_frame' = lower_bound
  <1>1. ~BoundsCross
    BY DEF Looks
  <1>2. Place >= lower_bound /\ (~needs_seek => Place = lower_bound) /\ Place \in Int
    BY <1>1, PlaceIs, FileAssumption DEF Bounds, FlacTypeOK
  <1>3. this_frame' \in frames /\ this_frame' >= Place
    BY LookIs
  <1>4. this_frame' >= lower_bound
    BY <1>2, <1>3, FileAssumption DEF FlacTypeOK
  <1>5. lower_bound \in frames /\ lower_bound_sample = first[lower_bound]
    BY DEF Bounds
  <1>6. first[this_frame'] >= lower_bound_sample
    BY <1>3, <1>4, <1>5, FramesGrow
  <1>7. Place = lower_bound => this_frame' = lower_bound
    BY <1>2, <1>5, SyncIs DEF Looks
  <1> QED BY <1>2, <1>3, <1>4, <1>6, <1>7


---------------------------------------------------------------------------
\* Each step keeps the bounds.

\* flac_init and the call: the table's points, or the whole file.
LEMMA CallBounds ==
  ASSUME FlacTypeOK, SeekCall, Good
  PROVE  Bounds'
  <1>1. UNCHANGED file /\ UNCHANGED attempt
    BY DEF SeekCall
  <1>2. target' = target /\ target \in Nat /\ start * Rate \in Nat /\ start * Rate <= target
    BY <1>1, GoodKept, TargetIs
  <1>3. WellFormed /\ Reachable
    BY DEF Good
  <1>4. 0 \in frames /\ first[0] = 0 /\ \A f \in DOMAIN table : f \in frames /\ table[f] = first[f]
    BY <1>3 DEF WellFormed, FlacTypeOK
  <1>5. needs_seek' = TRUE
    BY DEF SeekCall
  <1>6. CASE TableHelps
    <2>1. /\ lower_bound' = lo.offset /\ lower_bound_sample' = lo.sample
          /\ upper_bound' = hi.offset /\ upper_bound_sample' = hi.sample
      BY <1>6 DEF SeekCall
    <2>2. Lo \in SUBSET DOMAIN table /\ Hi \in SUBSET DOMAIN table
      BY DEF Lo, Hi, Least, Greatest
    <2>3. \A f \in Lo : table[f] <= start * Rate
      BY DEF Lo, Greatest
    <2>4. lo.sample <= target /\ lo.offset \in frames /\ lo.sample = first[lo.offset]
      <3>1. CASE Lo = {}
        BY <1>2, <1>4, <3>1 DEF lo, PointOf
      <3>2. CASE Lo # {}
        <4>1. lo.offset \in Lo /\ lo.sample = table[lo.offset] /\ lo.sample \in Nat
          BY <2>2, <3>2, PointIs DEF lo
        <4>2. lo.sample <= start * Rate
          BY <2>3, <4>1
        <4>3. lo.offset \in frames /\ table[lo.offset] = first[lo.offset]
          BY <1>4, <2>2, <4>1
        <4> QED BY <1>2, <4>1, <4>2, <4>3
      <3> QED BY <3>1, <3>2
    <2>5. target < hi.sample /\ hi.offset \in frames /\ hi.sample = first[hi.offset]
      <3>1. target < hi.sample
        BY <1>3, <1>6 DEF Reachable
      <3>2. Hi # {}
        <4>1. CASE Hi = {}
          BY <1>2, <3>1, <4>1 DEF hi, PointOf
        <4> QED BY <4>1
      <3>3. hi.offset \in Hi /\ hi.sample = table[hi.offset]
        BY <2>2, <3>2, PointIs DEF hi
      <3> QED BY <1>4, <2>2, <3>1, <3>3
    <2> QED BY <1>1, <1>2, <1>5, <2>1, <2>4, <2>5 DEF Bounds, file
  <1>7. CASE ~TableHelps
    <2>1. target < totalsamples
      BY <1>3, <1>7 DEF Reachable
    <2>2. totalsamples > 0
      BY <1>2, <2>1 DEF FlacTypeOK
    <2>3. /\ lower_bound' = 0 /\ lower_bound_sample' = 0
          /\ upper_bound' = FileLen /\ upper_bound_sample' = totalsamples
      BY <1>7, <2>2 DEF SeekCall
    <2> QED BY <1>1, <1>2, <1>4, <1>5, <2>1, <2>3 DEF Bounds, file
  <1> QED BY <1>6, <1>7

\* "Our last move backwards wasn't big enough."
LEMMA BackBounds ==
  ASSUME FlacTypeOK, WellFormed, Bounds, StepBack
  PROVE  Bounds'
  <1>1. /\ UNCHANGED file /\ UNCHANGED attempt /\ needs_seek' = TRUE
        /\ UNCHANGED <<lower, upper>>
    BY DEF StepBack, Looks
  <1>2. target' = target
    BY <1>1, GoodKept
  <1> QED BY <1>1, <1>2 DEF Bounds, file, lower, upper

LEMMA UpperBounds ==
  ASSUME FlacTypeOK, WellFormed, Bounds, NarrowUpper
  PROVE  Bounds'
  <1>1. /\ Looks /\ this_frame' # NoFrame /\ target < first[this_frame'] /\ pos' = Place
        /\ UNCHANGED <<lower, needs_seek>>
        /\ upper_bound' = this_frame' /\ upper_bound_sample' = first[this_frame']
    BY DEF NarrowUpper
  <1>2. UNCHANGED file /\ UNCHANGED attempt /\ ~BoundsCross /\ target' = target
    BY <1>1, GoodKept DEF Looks
  <1>3. this_frame' \in frames
    BY <1>1, LookInBounds
  <1>4. ~needs_seek => pos' = lower_bound
    BY <1>1, <1>2, PlaceIs DEF Bounds
  <1> QED BY <1>1, <1>2, <1>3, <1>4 DEF Bounds, file, lower

LEMMA LowerBounds ==
  ASSUME FlacTypeOK, WellFormed, Bounds, NarrowLower
  PROVE  Bounds'
  <1> DEFINE f == this_frame'
  <1>1. /\ Looks /\ f # NoFrame /\ target >= first[f] + blocksize(f)
        /\ UNCHANGED upper
        /\ lower_bound' = NextFrame(f) /\ lower_bound_sample' = first[f] + blocksize(f)
        /\ IF target < first[f] + Near * blocksize(f)
           THEN pos' = NextFrame(f) /\ needs_seek' = FALSE
           ELSE pos' = Place /\ UNCHANGED needs_seek
    BY DEF NarrowLower
  <1>2. UNCHANGED file /\ UNCHANGED attempt /\ target' = target /\ target \in Nat
    BY <1>1, GoodKept, TargetIs DEF Looks
  <1>3. f \in frames /\ (~needs_seek => f = lower_bound)
    BY <1>1, LookInBounds
  <1>4. NextFrame(f) \in frames /\ blocksize(f) = Block /\ first[NextFrame(f)] = first[f] + Block
    BY <1>1, <1>3, NextBegins
  <1>5. first[f] \in Nat
    BY <1>3 DEF FlacTypeOK
  <1>6. Near * Block \in Nat
    BY ProductNat, FileAssumption
  <1>7. CASE target < first[f] + Near * Block
    <2>1. needs_seek' = FALSE /\ pos' = NextFrame(f)
      BY <1>1, <1>4, <1>7
    <2>2. target < lower_bound_sample' + Near * Block
      BY <1>1, <1>2, <1>4, <1>5, <1>6, <1>7, FileAssumption
    <2> QED BY <1>1, <1>2, <1>4, <2>1, <2>2 DEF Bounds, file, upper
  <1>8. CASE ~(target < first[f] + Near * Block)
    <2>1. UNCHANGED needs_seek
      BY <1>1, <1>4, <1>8
    <2>2. needs_seek
      BY <1>3, <1>8 DEF Bounds
    <2> QED BY <1>1, <1>2, <1>4, <2>1, <2>2 DEF Bounds, file, upper
  <1> QED BY <1>7, <1>8

\* A search that stands on the lower bound finds the sample there.
LEMMA NeverBeyond ==
  ASSUME FlacTypeOK, WellFormed, Bounds, Looks, this_frame' # NoFrame,
         ~Holds(this_frame'), Beyond(this_frame')
  PROVE  Place # lower_bound /\ needs_seek
  <1> SUFFICES ASSUME Place = lower_bound \/ ~needs_seek PROVE FALSE
    OBVIOUS
  <1>1. this_frame' = lower_bound /\ this_frame' \in frames
    BY LookInBounds
  <1>2. first[this_frame'] <= target /\ target < upper_bound_sample
    BY <1>1 DEF Bounds
  <1>3. first[this_frame'] + blocksize(this_frame') >= upper_bound_sample
    BY DEF Beyond
  <1>4. target \in Nat /\ first[this_frame'] \in Nat /\ upper_bound_sample \in Nat
        /\ blocksize(this_frame') \in Nat
    BY <1>1, TargetIs, BlockSize DEF FlacTypeOK
  <1> QED BY <1>2, <1>3, <1>4 DEF Holds

LEMMA InvKept == IInv /\ [FlacNext]_flacVars => IInv'
  <1> SUFFICES ASSUME IInv, [FlacNext]_flacVars PROVE IInv'
    OBVIOUS
  <1>1. FlacTypeOK /\ FlacTypeOK'
    BY TypesKept DEF IInv
  <1>2. phase = "seek" /\ Good => Bounds /\ WellFormed
    BY DEF IInv, Good
  \* A step that goes on with the search.
  <1>3. ASSUME Good' => Good, Good /\ phase = "seek" => Bounds', phase' = "seek", phase = "seek"
        PROVE  IInv'
    BY <1>1, <1>3 DEF IInv, GivesUpLost
  \* A step that ends it.
  <1>4. ASSUME phase' # "seek", phase' # "failed" PROVE IInv'
    BY <1>1, <1>4 DEF IInv, GivesUpLost
  <1>5. ASSUME phase' = "failed", (Good' => FALSE) \/ (Header(pos) \cap frames = {})' PROVE IInv'
    BY <1>1, <1>5 DEF IInv, GivesUpLost, Good
  <1>6. ASSUME SeekCall PROVE IInv'
    <2>1. phase' = "seek" /\ UNCHANGED file /\ UNCHANGED attempt
      BY <1>6 DEF SeekCall
    <2>2. Good' => Bounds'
      BY <1>1, <1>6, <2>1, GoodKept, CallBounds
    <2> QED BY <1>1, <2>1, <2>2 DEF IInv, GivesUpLost
  <1>7. ASSUME BoundsFail PROVE IInv'
    <2>1. phase = "seek" /\ phase' = "failed" /\ BoundsCross /\ (Good' => Good)
      BY <1>7, GoodKept DEF BoundsFail
    <2>2. ~Good
      BY <1>1, <1>2, <2>1, BoundsApart
    <2> QED BY <1>5, <2>1, <2>2
  <1>8. ASSUME SyncFails PROVE IInv'
    <2>1. Looks /\ this_frame' = NoFrame /\ phase' = "failed" /\ pos' = Place
      BY <1>8 DEF SyncFails
    <2>2. ~BoundsCross /\ NoFrame \in Sync(Place) /\ UNCHANGED file
      BY <2>1 DEF Looks
    <2>3. Place \in Int
      BY <1>1, <2>2, PlaceIs, FileAssumption
    <2>4. Header(Place) \cap frames = {}
      BY <1>1, <2>2, <2>3, SyncIs
    <2>5. (Header(pos) \cap frames = {})'
      BY <2>1, <2>2, <2>4 DEF Header, Least, file
    <2> QED BY <1>5, <2>1, <2>5
  <1>9. ASSUME Found PROVE IInv'
    BY <1>4, <1>9 DEF Found
  <1>10. ASSUME Looks PROVE phase = "seek" /\ (Good' => Good)
    BY <1>10, GoodKept DEF Looks
  <1>11. ASSUME StepBack PROVE IInv'
    <2>1. Looks /\ phase' = phase
      BY <1>11 DEF StepBack
    <2>2. Good /\ phase = "seek" => Bounds'
      BY <1>1, <1>2, <1>11, BackBounds
    <2> QED BY <1>3, <1>10, <2>1, <2>2
  <1>12. ASSUME StepFails PROVE IInv'
    <2>1. /\ Looks /\ this_frame' # NoFrame /\ ~Holds(this_frame') /\ Beyond(this_frame')
          /\ (Place = lower_bound \/ ~needs_seek) /\ phase' = "failed"
      BY <1>12 DEF StepFails
    <2>2. ~Good
      BY <1>1, <1>2, <1>10, <2>1, NeverBeyond
    <2> QED BY <1>5, <1>10, <2>1, <2>2
  <1>13. ASSUME Corrupted PROVE IInv'
    <2>1. /\ Looks /\ this_frame' # NoFrame /\ phase' = "failed"
          /\ first[this_frame'] < lower_bound_sample
      BY <1>13 DEF Corrupted
    <2>2. ASSUME Good PROVE FALSE
      <3>1. first[this_frame'] >= lower_bound_sample /\ this_frame' \in frames
        BY <1>1, <1>2, <1>10, <2>1, <2>2, LookInBounds
      <3>2. first[this_frame'] \in Nat /\ lower_bound_sample \in Nat
        BY <1>1, <3>1 DEF FlacTypeOK
      <3> QED BY <2>1, <3>1, <3>2
    <2> QED BY <1>5, <1>10, <2>1, <2>2
  <1>14. ASSUME NarrowUpper PROVE IInv'
    <2>1. Looks /\ phase' = phase
      BY <1>14 DEF NarrowUpper
    <2>2. Good /\ phase = "seek" => Bounds'
      BY <1>1, <1>2, <1>14, UpperBounds
    <2> QED BY <1>3, <1>10, <2>1, <2>2
  <1>15. ASSUME NarrowLower PROVE IInv'
    <2>1. Looks /\ phase' = phase
      BY <1>15 DEF NarrowLower
    <2>2. Good /\ phase = "seek" => Bounds'
      BY <1>1, <1>2, <1>15, LowerBounds
    <2> QED BY <1>3, <1>10, <2>1, <2>2
  <1>16. ASSUME Again PROVE IInv'
    BY <1>4, <1>16 DEF Again
  <1>17. ASSUME UNCHANGED flacVars PROVE IInv'
    <2>1. /\ UNCHANGED file /\ UNCHANGED <<attempt, phase, lower, upper, pos, how, this_frame>>
      BY <1>17 DEF flacVars
    <2>2. (Good' => Good) /\ target' = target
      BY <2>1, GoodKept
    <2>3. Bounds => Bounds'
      BY <2>1, <2>2 DEF Bounds, file, lower, upper, how
    <2>4. GivesUpLost'
      <3>1. Header(pos)' = Header(pos) /\ frames' = frames
        BY <2>1 DEF Header, Least, file
      <3> QED BY <2>1, <2>2, <3>1 DEF IInv, GivesUpLost, Good
    <2> QED BY <1>1, <2>1, <2>2, <2>3, <2>4 DEF IInv
  <1> QED BY <1>6, <1>7, <1>8, <1>9, <1>11, <1>12, <1>13, <1>14, <1>15, <1>16, <1>17 DEF FlacNext

LEMMA InvInit == FlacInit => IInv
  <1>1. FlacInit => phase = "call"
    BY DEF FlacInit
  <1> QED BY <1>1, InitTypes DEF IInv, GivesUpLost

\* The frame that holds the sample is between the bounds.
LEMMA InvBrackets == IInv => Brackets
  <1> SUFFICES ASSUME FlacTypeOK, WellFormed, Bounds, NEW f \in frames, Holds(f)
               PROVE  lower_bound <= f /\ f < upper_bound
    BY DEF IInv, Brackets, Good, Bounds
  <1>1. /\ target \in Nat /\ first[f] \in Nat /\ f \in 0 .. FileLen - 1
        /\ blocksize(f) \in Nat /\ blocksize(f) <= Block
    BY TargetIs, BlockSize DEF FlacTypeOK
  <1>2. first[f] <= target /\ target < first[f] + blocksize(f)
    BY DEF Holds
  <1>3. lower_bound <= f
    <2>1. lower_bound \in frames /\ first[lower_bound] <= target
      BY DEF Bounds
    <2>2. f < lower_bound => first[f] + Block <= first[lower_bound]
      BY <2>1, FramesGrow
    <2>3. first[lower_bound] \in Nat /\ lower_bound \in Nat
      BY <2>1, FramesGrow
    <2> QED BY <1>1, <1>2, <2>1, <2>2, <2>3, FileAssumption
  <1>4. f < upper_bound
    <2>1. CASE upper_bound = FileLen
      BY <1>1, <2>1, FileAssumption
    <2>2. CASE upper_bound \in frames /\ upper_bound_sample = first[upper_bound]
      <3>1. target < first[upper_bound]
        BY <2>2 DEF Bounds
      <3>2. f >= upper_bound => first[f] >= first[upper_bound]
        BY <2>2, FramesGrow
      <3>3. first[upper_bound] \in Nat /\ upper_bound \in Nat
        BY <2>2, FramesGrow
      <3> QED BY <1>1, <1>2, <3>1, <3>2, <3>3
    <2> QED BY <2>1, <2>2 DEF Bounds
  <1> QED BY <1>3, <1>4

\* The loop invariant of flac_seek, for every file that is not damaged.
THEOREM SearchBrackets == FlacSpec => []Brackets
  <1> QED BY InvInit, InvKept, InvBrackets, PTL DEF FlacSpec

\* A search of such a file gives up only where the next header, if there is one, is false.
THEOREM SearchGivesUpLost == FlacSpec => []GivesUpLost
  <1>1. IInv => GivesUpLost
    BY DEF IInv
  <1> QED BY <1>1, InvInit, InvKept, PTL DEF FlacSpec

---------------------------------------------------------------------------
\* The turns that go on.

\* The guessed size of a frame is positive, so that a step back is one.
LEMMA UncompressedPositive ==
  ASSUME NEW n \in Nat PROVE Uncompressed(n) \in Nat /\ Uncompressed(n) > 0
  <1>1. n * SampleSize \in Nat
    BY ProductNat, FileAssumption
  <1> QED BY <1>1, FileAssumption DEF Uncompressed

LEMMA ApproxPositive == ASSUME FlacTypeOK, NEW a \in FirstApprox PROVE a \in Nat /\ a > 0
  <1>1. CASE a = Uncompressed(Block)
    BY <1>1, UncompressedPositive, FileAssumption
  <1>2. ASSUME NEW f \in frames, NEW g \in frames, a = (Size(f) + Size(g)) \div 2 + 1
        PROVE  a \in Nat /\ a > 0
    <2>1. Size(f) \in Nat /\ Size(g) \in Nat
      BY NextFrameIs, FileAssumption DEF Size, FlacTypeOK
    <2>2. (Size(f) + Size(g)) \div 2 \in Nat
      BY <2>1
    <2> QED BY <1>2, <2>2
  <1> QED BY <1>1, <1>2 DEF FirstApprox

StepInv == FlacTypeOK /\ (phase = "seek" => approx_bytes_per_frame > 0)

LEMMA StepInvKept == StepInv /\ [FlacNext]_flacVars => StepInv'
  <1> SUFFICES ASSUME StepInv, [FlacNext]_flacVars PROVE StepInv'
    OBVIOUS
  <1>1. FlacTypeOK /\ FlacTypeOK'
    BY TypesKept DEF StepInv
  <1>2. CASE SeekCall
    BY <1>1, <1>2, ApproxPositive DEF StepInv, SeekCall
  <1>3. CASE BoundsFail \/ SyncFails \/ Found \/ StepFails \/ Corrupted \/ Again
    BY <1>1, <1>3 DEF StepInv, BoundsFail, SyncFails, Found, StepFails, Corrupted, Again
  <1>4. CASE StepBack
    BY <1>1, <1>4 DEF StepInv, StepBack, Looks, FlacTypeOK
  <1>5. CASE NarrowUpper \/ NarrowLower
    <2>1. /\ Looks /\ this_frame' # NoFrame
          /\ approx_bytes_per_frame' = Uncompressed(blocksize(this_frame'))
      BY <1>5 DEF NarrowUpper, NarrowLower
    <2>2. blocksize(this_frame') \in Nat
      BY <1>1, <2>1, LookIs, BlockSize DEF Looks
    <2> QED BY <1>1, <2>1, <2>2, UncompressedPositive DEF StepInv
  <1>6. CASE UNCHANGED flacVars
    BY <1>1, <1>6 DEF StepInv, flacVars, how
  <1> QED BY <1>2, <1>3, <1>4, <1>5, <1>6 DEF FlacNext

\* The guess is a number, and goes back when the size it is made with grows.
LEMMA GuessBack ==
  ASSUME StepInv, phase = "seek", StepBack
  PROVE  lower_bound < Guess /\ Guess' < Guess
  <1>1. /\ FlacTypeOK /\ approx_bytes_per_frame \in Nat /\ approx_bytes_per_frame > 0
    BY DEF StepInv, FlacTypeOK
  <1>2. /\ ~BoundsCross /\ UNCHANGED <<file, attempt, lower, upper>>
        /\ Place # lower_bound /\ needs_seek
        /\ approx_bytes_per_frame' = 2 * approx_bytes_per_frame
    BY DEF StepBack, Looks
  <1>3. target' = target /\ target \in Nat
    BY <1>1, <1>2, GoodKept, TargetIs
  <1> DEFINE q == ((target - lower_bound_sample) * (upper_bound - lower_bound))
                    \div (upper_bound_sample - lower_bound_sample)
  <1>4. q \in Int
    <2>1. upper_bound_sample - lower_bound_sample > 0
      BY <1>1, <1>2 DEF BoundsCross, FlacTypeOK
    <2> QED BY <1>1, <1>3, <2>1, QuotientInt DEF FlacTypeOK
  <1>5. Guess = lower_bound - approx_bytes_per_frame + q
    BY DEF Guess
  <1>6. Guess' = lower_bound - 2 * approx_bytes_per_frame + q
    BY <1>2, <1>3 DEF Guess, lower, upper
  <1> HIDE DEF q
  <1>7. lower_bound \in Int /\ upper_bound \in Int
    BY <1>1 DEF FlacTypeOK
  <1>8. lower_bound < Guess
    <2>1. Guess \in Int
      BY <1>1, <1>4, <1>5, <1>7
    <2>2. Place = IF Guess >= upper_bound
                  THEN IF upper_bound - 1 < lower_bound THEN lower_bound ELSE upper_bound - 1
                  ELSE IF Guess < lower_bound THEN lower_bound ELSE Guess
      BY <1>2 DEF Place, PlaceOf
    <2> HIDE DEF q
    <2> QED BY <1>2, <1>7, <2>1, <2>2
  <1>9. Guess' < Guess
    BY <1>1, <1>4, <1>5, <1>6, <1>7
  <1> QED BY <1>8, <1>9

\* The three turns that go on.
LEMMA TurnShrinks ==
  ASSUME StepInv, FlacNext, phase = "seek", phase' = "seek"
  PROVE  Shrinks
  <1>1. FlacTypeOK
    BY DEF StepInv
  <1>2. StepBack \/ NarrowUpper \/ NarrowLower
    BY DEF FlacNext, SeekCall, BoundsFail, SyncFails, Found, StepFails, Corrupted, Again
  <1>3. Looks /\ this_frame' # NoFrame /\ this_frame' \in frames /\ ~BoundsCross
    BY <1>1, <1>2, LookIs DEF StepBack, NarrowUpper, NarrowLower, Looks
  <1>4. /\ lower_bound_sample \in Nat /\ upper_bound_sample \in Nat
        /\ first_seek \in BOOLEAN
        /\ first[this_frame'] \in Nat
        /\ blocksize(this_frame') \in Nat /\ blocksize(this_frame') > 0
    BY <1>1, <1>3, BlockSize DEF FlacTypeOK
  <1>5. lower_bound_sample < upper_bound_sample
    BY <1>3, <1>4 DEF BoundsCross
  <1>6. CASE StepBack
    <2>1. UNCHANGED <<lower, upper, needs_seek, first_seek>>
      BY <1>6 DEF StepBack
    <2>2. lower_bound < Guess /\ Guess' < Guess
      BY <1>6, GuessBack
    <2> QED BY <1>5, <2>1, <2>2 DEF Shrinks
  \* The first look may leave the bounds; later ones do not.
  <1>7. CASE NarrowUpper
    <2>1. /\ ~Beyond(this_frame') /\ first_seek' = FALSE
          /\ upper_bound_sample' = first[this_frame'] /\ UNCHANGED lower
      BY <1>7 DEF NarrowUpper
    <2>2. CASE first_seek
      BY <1>5, <2>1, <2>2 DEF Shrinks
    <2>3. CASE ~first_seek
      <3>1. ~(first[this_frame'] + blocksize(this_frame') >= upper_bound_sample)
        BY <2>1, <2>3 DEF Beyond
      <3>2. upper_bound_sample' < upper_bound_sample
        BY <1>4, <2>1, <3>1
      <3>3. lower_bound_sample' = lower_bound_sample
        BY <2>1 DEF lower
      <3>4. upper_bound_sample' - lower_bound_sample' < upper_bound_sample - lower_bound_sample
        BY <1>4, <2>1, <3>2, <3>3
      <3>5. first_seek' = first_seek
        BY <1>4, <2>1, <2>3
      <3> QED BY <1>5, <3>4, <3>5 DEF Shrinks
    <2> QED BY <2>2, <2>3
  <1>8. CASE NarrowLower
    <2>1. /\ first_seek' = FALSE /\ first[this_frame'] >= lower_bound_sample
          /\ lower_bound_sample' = first[this_frame'] + blocksize(this_frame')
          /\ UNCHANGED upper
      BY <1>8 DEF NarrowLower
    <2>2. CASE first_seek
      BY <1>5, <2>1, <2>2 DEF Shrinks
    <2>3. CASE ~first_seek
      <3>1. lower_bound_sample' > lower_bound_sample /\ lower_bound_sample' \in Nat
        BY <1>4, <2>1
      <3>2. upper_bound_sample' = upper_bound_sample
        BY <2>1 DEF upper
      <3>3. upper_bound_sample' - lower_bound_sample' < upper_bound_sample - lower_bound_sample
        <4>1. \A l, n, u \in Nat : n > l => u - n < u - l
          OBVIOUS
        <4>2. lower_bound_sample \in Nat /\ upper_bound_sample \in Nat
          BY <1>4
        <4> QED BY <3>1, <3>2, <4>1, <4>2
      <3>4. first_seek' = first_seek
        BY <1>4, <2>1, <2>3
      <3> QED BY <1>5, <3>3, <3>4 DEF Shrinks
    <2> QED BY <2>2, <2>3
  <1> QED BY <1>2, <1>6, <1>7, <1>8

\* No turn of flac_seek leaves it where it was: what is left of the search shrinks
\* with each, whatever is in the file.
THEOREM SearchShrinks == FlacSpec => RoundsShrink
  <1>1. FlacInit => StepInv
    <2>1. FlacInit => phase = "call"
      BY DEF FlacInit
    <2> QED BY <2>1, InitTypes DEF StepInv
  <1>2. StepInv /\ [FlacNext]_flacVars
        => [phase = "seek" /\ phase' = "seek" => Shrinks]_flacVars
    BY TurnShrinks
  <1>3. StepInv /\ [FlacNext]_flacVars => StepInv'
    BY StepInvKept
  <1> QED BY <1>1, <1>2, <1>3, PTL DEF FlacSpec, RoundsShrink
============================================================================
