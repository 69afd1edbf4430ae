-------------------------- MODULE PlayFrom_proofs --------------------------
(***************************************************************************)
(* What is proved of the searches of flac and alac files, and of           *)
(* bookmarks, holds of a play from any second: a play is the search of its *)
(* decoder, and nobody else touches what that keeps.  The searches in ape  *)
(* and wv files are proved here.                                           *)
(***************************************************************************)
EXTENDS PlayFrom, FlacSeek_proofs, AlacSeek_proofs, Bookmark_proofs

---------------------------------------------------------------------------
\* The search in an ape file of any number of frames of any size.  The invariant counts
\* samples: what has been decoded and what is still to be dropped make up the sample that
\* is looked for.

\* The file, and the place of the decoder in it.
FileOK ==
    /\ totalframes \in Nat \ {0} /\ finalframeblocks \in 1 .. BlocksPerFrame
    /\ apeStart \in Nat
PlaceOK ==
    /\ currentframe \in 0 .. totalframes - 1
    /\ nblocks \in 0 .. FrameBlocks(currentframe) /\ samplestoskip \in Nat

Counted == Decoded + samplestoskip = start_sample

ApeInv ==
    /\ FileOK
    /\ apePhase \in {"call", "skip", "play", "end", "failed"}
    /\ apePhase = "skip" => PlaceOK /\ Counted
    /\ ApeIsNear

\* Arithmetic that the code relies on.

LEMMA FrameSize ==
  ASSUME FileOK, NEW f \in Nat
  PROVE  FrameBlocks(f) \in 1 .. BlocksPerFrame
  <1> QED BY ApeAssumption DEF FileOK, FrameBlocks

LEMMA ChunkSize ==
  ASSUME nblocks \in Nat
  PROVE  /\ blockstodecode \in Nat /\ blockstodecode <= nblocks
         /\ blockstodecode <= BlocksPerLoop /\ (nblocks > 0 => blockstodecode > 0)
  <1> QED BY ApeAssumption DEF blockstodecode

LEMMA Natural ==
  ASSUME FileOK
  PROVE  /\ start_sample \in Nat /\ totalsamples_ape \in Nat
         /\ totalsamples_ape <= totalframes * BlocksPerFrame
  <1>1. start_sample \in Nat
    BY ApeAssumption DEF FileOK, start_sample
  <1>2. (totalframes - 1) * BlocksPerFrame = totalframes * BlocksPerFrame - BlocksPerFrame
    BY ApeAssumption DEF FileOK
  <1>3. (totalframes - 1) * BlocksPerFrame \in Nat
    BY ApeAssumption DEF FileOK
  <1> QED BY <1>1, <1>2, <1>3, ApeAssumption DEF FileOK, totalsamples_ape

\* The steps.

LEMMA CallStep ==
  ASSUME ApeInv, ape_calc_seekpos
  PROVE  ApeInv'
  <1> DEFINE n == start_sample \div BlocksPerFrame
  <1>1. FileOK /\ apePhase = "call" /\ UNCHANGED apeFile
    BY DEF ApeInv, ape_calc_seekpos
  <1>2. /\ FileOK' /\ start_sample' = start_sample /\ totalsamples_ape' = totalsamples_ape
        /\ totalframes' = totalframes /\ finalframeblocks' = finalframeblocks
    BY <1>1 DEF apeFile, FileOK, start_sample, totalsamples_ape
  <1>3. /\ start_sample \in Nat /\ n \in Nat /\ n * BlocksPerFrame <= start_sample
    BY <1>1, Natural, Division, ApeAssumption
  <1>4. CASE n >= totalframes
    <2>1. apePhase' = "failed"
      BY <1>4 DEF ape_calc_seekpos
    <2>2. totalframes * BlocksPerFrame <= n * BlocksPerFrame
      BY <1>1, <1>3, <1>4, Monotone, ApeAssumption DEF FileOK
    <2>3. totalframes * BlocksPerFrame \in Nat /\ n * BlocksPerFrame \in Nat
      BY <1>1, <1>3, ApeAssumption DEF FileOK
    <2>4. start_sample >= totalsamples_ape
      BY <1>1, <1>3, <2>2, <2>3, Natural
    <2> QED BY <1>2, <2>1, <2>4 DEF ApeInv, ApeIsNear
  <1>5. CASE ~(n >= totalframes)
    <2>1. /\ apePhase' = "skip" /\ currentframe' = n /\ nblocks' = FrameBlocks(n)
          /\ samplestoskip' = start_sample - n * BlocksPerFrame
      BY <1>5 DEF ape_calc_seekpos
    <2>2. n \in 0 .. totalframes - 1
      BY <1>1, <1>3, <1>5 DEF FileOK
    <2>3. FrameBlocks(n)' = FrameBlocks(n)
      BY <1>2 DEF FrameBlocks
    <2>4. FrameBlocks(n) \in Nat /\ n * BlocksPerFrame \in Nat
      BY <1>1, <1>3, FrameSize, ApeAssumption
    <2>5. PlaceOK'
      BY <1>2, <1>3, <2>1, <2>2, <2>3, <2>4 DEF PlaceOK
    <2>6. Decoded' = n * BlocksPerFrame + FrameBlocks(n) - FrameBlocks(n)
      BY <1>2, <2>1 DEF Decoded, FrameBlocks
    <2>7. Counted'
      BY <1>2, <1>3, <2>1, <2>4, <2>6 DEF Counted
    <2> QED BY <1>2, <2>1, <2>5, <2>7 DEF ApeInv, ApeIsNear
  <1> QED BY <1>4, <1>5

\* While samples are dropped the file is what it was.
LEMMA SkipKeeps ==
  ASSUME ApeInv, apePhase = "skip", UNCHANGED apeFile
  PROVE  /\ FileOK /\ FileOK' /\ PlaceOK /\ Counted
         /\ start_sample' = start_sample /\ totalsamples_ape' = totalsamples_ape
         /\ totalframes' = totalframes /\ finalframeblocks' = finalframeblocks
         /\ start_sample \in Nat /\ nblocks \in Nat /\ samplestoskip \in Nat
         /\ FrameBlocks(currentframe) \in 1 .. BlocksPerFrame
         /\ currentframe * BlocksPerFrame \in Nat
  <1>1. FileOK /\ PlaceOK /\ Counted
    BY DEF ApeInv
  <1>2. currentframe \in Nat
    BY <1>1 DEF PlaceOK, FileOK
  <1>3. FrameBlocks(currentframe) \in 1 .. BlocksPerFrame
    BY <1>1, <1>2, FrameSize
  <1>4. nblocks \in Nat /\ samplestoskip \in Nat
    BY <1>1, <1>3 DEF PlaceOK
  <1>5. currentframe * BlocksPerFrame \in Nat
    BY <1>2, ApeAssumption
  <1>6. FileOK' /\ start_sample' = start_sample /\ totalsamples_ape' = totalsamples_ape
    BY <1>1 DEF apeFile, FileOK, start_sample, totalsamples_ape
  <1> QED BY <1>1, <1>3, <1>4, <1>5, <1>6, Natural DEF apeFile

LEMMA ChunkStep ==
  ASSUME ApeInv, SkipChunk
  PROVE  ApeInv'
  <1>1. /\ apePhase = "skip" /\ UNCHANGED apeFile /\ apePhase' = "skip"
        /\ currentframe' = currentframe /\ samplestoskip >= blockstodecode
        /\ samplestoskip' = samplestoskip - blockstodecode
        /\ nblocks' = nblocks - blockstodecode
    BY DEF SkipChunk
  <1>2. FrameBlocks(currentframe)' = FrameBlocks(currentframe)
    BY <1>1 DEF FrameBlocks, apeFile
  <1>3. blockstodecode \in Nat /\ blockstodecode <= nblocks
    BY <1>1, SkipKeeps, ChunkSize
  <1>4. PlaceOK'
    BY <1>1, <1>2, <1>3, SkipKeeps DEF PlaceOK
  <1>5. Decoded' = Decoded + blockstodecode /\ Decoded \in Int
    BY <1>1, <1>2, <1>3, SkipKeeps DEF Decoded
  <1>6. Counted'
    BY <1>1, <1>3, <1>5, SkipKeeps DEF Counted
  <1> QED BY <1>1, <1>4, <1>6, SkipKeeps DEF ApeInv, ApeIsNear

LEMMA PartStep ==
  ASSUME ApeInv, SkipPart
  PROVE  ApeInv'
  <1>1. /\ apePhase = "skip" /\ UNCHANGED apeFile /\ apePhase' = "play"
        /\ nblocks > 0 /\ samplestoskip < blockstodecode
        /\ heard' = Decoded + IF samplestoskip = 0 THEN 0 ELSE blockstodecode - samplestoskip
    BY DEF SkipPart
  <1>2. /\ blockstodecode \in Nat /\ blockstodecode <= BlocksPerLoop
        /\ BlocksPerLoop \in Nat
    BY <1>1, SkipKeeps, ChunkSize, ApeAssumption
  <1>3. Decoded \in Int /\ start_sample = Decoded + samplestoskip
    BY <1>1, SkipKeeps DEF Decoded, Counted
  <1>4. heard' - start_sample \in 1 - BlocksPerLoop .. BlocksPerLoop - 1
    BY <1>1, <1>2, <1>3, SkipKeeps
  <1>5. ApeIsNear'
    BY <1>1, <1>4, SkipKeeps, ApeAssumption DEF ApeIsNear
  <1> QED BY <1>1, <1>5, SkipKeeps DEF ApeInv

LEMMA FrameStep ==
  ASSUME ApeInv, NextApeFrame
  PROVE  ApeInv'
  <1>1. /\ apePhase = "skip" /\ UNCHANGED apeFile /\ nblocks = 0
        /\ samplestoskip' = samplestoskip
    BY DEF NextApeFrame
  <1>2. currentframe \in Nat /\ currentframe < totalframes /\ totalframes \in Nat
    BY <1>1, SkipKeeps DEF PlaceOK, FileOK
  <1>3. CASE currentframe + 1 < totalframes
    <2>1. /\ currentframe' = currentframe + 1 /\ nblocks' = FrameBlocks(currentframe + 1)
          /\ apePhase' = "skip"
      BY <1>3 DEF NextApeFrame
    <2>2. FrameBlocks(currentframe)' = nblocks' /\ nblocks' \in 1 .. BlocksPerFrame
      BY <1>1, <1>2, <2>1, SkipKeeps, FrameSize DEF FrameBlocks
    <2>3. PlaceOK'
      BY <1>1, <1>2, <1>3, <2>1, <2>2, SkipKeeps DEF PlaceOK
    <2>4. (currentframe + 1) * BlocksPerFrame = currentframe * BlocksPerFrame + BlocksPerFrame
      BY <1>2, ApeAssumption
    <2>5. FrameBlocks(currentframe) = BlocksPerFrame
      BY <1>2, <1>3 DEF FrameBlocks
    <2>6. Decoded' = currentframe' * BlocksPerFrame
      BY <2>1, <2>2, <2>4, <1>1, SkipKeeps, ApeAssumption DEF Decoded
    <2>7. Decoded = currentframe * BlocksPerFrame + BlocksPerFrame
      BY <1>1, <2>5, SkipKeeps, ApeAssumption DEF Decoded
    <2>8. Counted'
      BY <1>1, <2>1, <2>4, <2>6, <2>7, SkipKeeps DEF Counted
    <2> QED BY <1>1, <2>1, <2>3, <2>8, SkipKeeps DEF ApeInv, ApeIsNear
  <1>4. CASE ~(currentframe + 1 < totalframes)
    <2>1. apePhase' = "end" /\ currentframe = totalframes - 1
      BY <1>2, <1>4 DEF NextApeFrame
    <2>2. Decoded = totalsamples_ape
      BY <1>1, <2>1, SkipKeeps DEF Decoded, totalsamples_ape, FrameBlocks, FileOK
    <2>3. start_sample >= totalsamples_ape
      BY <1>1, <2>2, SkipKeeps, Natural DEF Counted
    <2> QED BY <1>1, <2>1, <2>3, SkipKeeps DEF ApeInv, ApeIsNear
  <1> QED BY <1>3, <1>4

\* apePlay begins less than a chunk from the sample that was asked for, and gives up only
\* when the file does not have it.
THEOREM ApeBeginsNear == ApeSpec => []ApeIsNear
  <1>1. ApeInit => ApeInv
    <2> SUFFICES ASSUME ApeInit PROVE ApeInv
      OBVIOUS
    <2>1. (BlocksPerFrame * totalframes) \div ApeRate \in Int
      BY ApeAssumption DEF ApeInit
    <2>2. FileOK
      BY <2>1, ApeAssumption DEF ApeInit, FileOK
    <2> QED BY <2>2 DEF ApeInit, ApeInv, ApeIsNear
  <1>2. ApeInv /\ [ApeNext]_apeVars => ApeInv'
    <2> SUFFICES ASSUME ApeInv, [ApeNext]_apeVars PROVE ApeInv'
      OBVIOUS
    <2>1. CASE ape_calc_seekpos
      BY <2>1, CallStep
    <2>2. CASE SkipChunk
      BY <2>2, ChunkStep
    <2>3. CASE SkipPart
      BY <2>3, PartStep
    <2>4. CASE NextApeFrame
      BY <2>4, FrameStep
    <2>5. CASE UNCHANGED apeVars
      BY <2>5 DEF apeVars, apeFile, ApeInv, FileOK, PlaceOK, Counted, ApeIsNear, Decoded,
        FrameBlocks, start_sample, totalsamples_ape
    <2> QED BY <2>1, <2>2, <2>3, <2>4, <2>5 DEF ApeNext
  <1>3. ApeInv => ApeIsNear
    BY DEF ApeInv
  <1> QED BY <1>1, <1>2, <1>3, PTL DEF ApeSpec

---------------------------------------------------------------------------
\* Plays.

\* A play implements the specification of flac_seek.
THEOREM PlaysFlac == Spec => FlacSpec
  <1>1. Init => FlacInit
    BY DEF Init, NoFlac
  <1>2. [Next]_vars => [FlacNext]_flacVars
    <2>1. flacPlay => FlacNext
      BY DEF flacPlay
    <2>2. apePlay \/ alacPlay \/ wvPlay \/ bookmark => UNCHANGED flacVars
      BY DEF apePlay, alacPlay, wvPlay, bookmark
    <2>3. UNCHANGED vars => UNCHANGED flacVars
      BY DEF vars
    <2> QED BY <2>1, <2>2, <2>3 DEF Next
  <1> QED BY <1>1, <1>2, PTL DEF Spec, FlacSpec

\* The three results about flac_seek, of a play.
THEOREM PlayBrackets == Spec => [](FlacTypeOK /\ Brackets /\ GivesUpLost)
  <1> QED BY PlaysFlac, FlacTypes, SearchBrackets, SearchGivesUpLost, PTL

\* The search of a play in a flac file has no turn that leaves it where it was.
THEOREM PlayShrinks == Spec => RoundsShrink
  <1> QED BY PlaysFlac, SearchShrinks

\* A play implements the specification of apePlay's search.
THEOREM PlaysApe == Spec => ApeSpec
  <1>1. Init => ApeInit
    BY DEF Init, NoApe
  <1>2. [Next]_vars => [ApeNext]_apeVars
    <2>1. apePlay => ApeNext
      BY DEF apePlay
    <2>2. flacPlay \/ alacPlay \/ wvPlay \/ bookmark => UNCHANGED apeVars
      BY DEF flacPlay, alacPlay, wvPlay, bookmark
    <2>3. UNCHANGED vars => UNCHANGED apeVars
      BY DEF vars
    <2> QED BY <2>1, <2>2, <2>3 DEF Next
  <1> QED BY <1>1, <1>2, PTL DEF Spec, ApeSpec

\* An ape file plays from near the second that was asked for.
THEOREM PlayBeginsNear == Spec => []ApeIsNear
  <1> QED BY PlaysApe, ApeBeginsNear, PTL

\* The service and its client, who know no formats, implement the specification of
\* bookmarks.
THEOREM PlaysBook == Spec => BookSpec
  <1>1. Init => BookInit
    BY DEF Init, NoBook
  <1>2. [Next]_vars => [BookNext]_bookVars
    <2>1. bookmark => BookNext
      BY DEF bookmark
    <2>2. flacPlay \/ apePlay \/ alacPlay \/ wvPlay => UNCHANGED bookVars
      BY DEF flacPlay, apePlay, alacPlay, wvPlay
    <2>3. UNCHANGED vars => UNCHANGED bookVars
      BY DEF vars
    <2> QED BY <2>1, <2>2, <2>3 DEF Next
  <1> QED BY <1>1, <1>2, PTL DEF Spec, BookSpec

\* The track and the length that are shown are those of what is heard, and a bookmark
\* names the second that was heard and leads back to it.
THEOREM PlayIsShown ==
  Spec => [](ShownIsHeard /\ LengthIsShown /\ BookIsHeard) /\ ComesBack
  <1> QED BY PlaysBook, BookShown, BookLength, BookHeard, BookComesBack, PTL

---------------------------------------------------------------------------
\* The search in an alac file.

\* The search in an alac file keeps its invariant.
LEMMA AlacAlways == Spec => []AlacInv
  <1>1. Init => AlacInv
    <2>1. Init => AlacInit
      BY DEF Init, NoAlac
    <2>2. AlacInit => alacPhase = "call"
      BY DEF AlacInit
    <2> QED BY <2>1, <2>2, AlacStarts DEF AlacInv, AlacOffset, AlacOnTime
  <1>2. AlacInv /\ [Next]_vars => AlacInv'
    <2>1. [Next]_vars => alac_seek \/ UNCHANGED alacVars
      BY DEF Next, alacPlay, flacPlay, apePlay, wvPlay, bookmark, vars
    <2> QED BY <2>1, AlacStep, AlacStays
  <1> QED BY <1>1, <1>2, PTL DEF Spec

\* Whatever the tables, alac_seek goes to the bytes of the block it plays first: the two
\* searches of get_sample_offset, over the runs of chunks and by division, name the chunk
\* that really holds the block.
THEOREM AlacGoesToBlock == Spec => []AlacOffset
  <1>1. AlacInv => AlacOffset
    BY DEF AlacInv
  <1> QED BY <1>1, AlacAlways, PTL

\* A sound sample of the file is found: the block alac_seek plays first begins at the time
\* it says and not after the one asked for, also where the search takes a whole run and
\* names the block after it; in a plain file the block holds the sample.
THEOREM AlacBeginsOnTime == Spec => []AlacOnTime
  <1>1. AlacInv => AlacOnTime
    BY DEF AlacInv
  <1> QED BY <1>1, AlacAlways, PTL

---------------------------------------------------------------------------
\* The search in a wv file.

\* A proportion of n bytes is no more than n bytes.
LEMMA Proportion ==
  ASSUME NEW n \in Nat, NEW a \in Nat, NEW b \in Nat \ {0}, a <= b
  PROVE  (n * a) \div b \in 0 .. n
  <1> DEFINE q == (n * a) \div b
  <1>1. n * a \in Nat /\ n * a <= n * b /\ n * b \in Nat
    <2>1. a * n <= b * n
      BY Monotone
    <2>2. n * a = a * n /\ n * b = b * n
      OBVIOUS
    <2> QED BY <2>1, <2>2
  <1>2. q \in Nat /\ q * b <= n * a
    BY <1>1, Division
  <1> HIDE DEF q
  <1>3. CASE q >= n + 1
    <2>1. (n + 1) * b <= q * b
      BY <1>2, <1>3, Monotone
    <2>2. (n + 1) * b = n * b + b
      OBVIOUS
    <2>3. q * b \in Nat
      BY <1>2
    <2> QED BY <1>1, <1>2, <2>1, <2>2, <2>3
  <1>4. q \in 0 .. n
    BY <1>2, <1>3
  <1> QED BY <1>4 DEF q

\* The blocks ahead of an offset have a first one.
LEMMA NextBlock ==
  ASSUME NEW p, blocks \subseteq Nat, Ahead(p) # {}
  PROVE  Next_block(p) \in blocks
  <1>1. Ahead(p) \subseteq Nat
    BY DEF Ahead
  <1>2. PICK b \in Ahead(p) : \A a \in Ahead(p) : b <= a
    BY <1>1, LeastOf, Zenon
  <1>3. Next_block(p) \in Ahead(p)
    BY <1>2 DEF Next_block
  <1> QED BY <1>3 DEF Ahead

\* The file, and where the search is in it: as long as it knows its block, it went to
\* a place of the file.
WvInv ==
    /\ blocks \subseteq 0 .. WvLen - WvHead /\ 0 \in blocks
    /\ wvStart \in Nat /\ need_sample <= num_samples - 1
    /\ idx \in 0 .. num_samples \cup {NoIndex}
    /\ seek_offs \in 0 .. WvLen
    /\ idx # NoIndex => went \in 0 .. WvLen

\* The numbers of samples.
LEMMA Samples ==
  ASSUME blocks \subseteq 0 .. WvLen - WvHead
  PROVE  /\ num_samples \in Nat /\ (0 \in blocks => num_samples > 0)
         /\ \A b : index(b) \in 0 .. num_samples
  <1>1. IsFiniteSet(blocks) /\ Cardinality(blocks) \in Nat
    <2>1. IsFiniteSet(0 .. WvLen - WvHead)
      BY WvAssumption, FS_Interval
    <2> QED BY <2>1, FS_Subset, FS_CardinalityType
  <1>2. ASSUME NEW b PROVE index(b) \in 0 .. num_samples
    <2> DEFINE before == {a \in blocks : a < b}
    <2>1. IsFiniteSet(before) /\ Cardinality(before) <= Cardinality(blocks)
      BY <1>1, FS_Subset
    <2>2. Cardinality(before) \in Nat
      BY <2>1, FS_CardinalityType
    <2>3. Cardinality(before) * WvBlock <= Cardinality(blocks) * WvBlock
      BY <1>1, <2>1, <2>2, Monotone, WvAssumption
    <2> HIDE DEF before
    <2>4. WvBlock * Cardinality(before) \in 0 .. WvBlock * Cardinality(blocks)
      BY <1>1, <2>2, <2>3, WvAssumption
    <2> QED BY <2>4 DEF before, index, num_samples
  <1>3. num_samples \in Nat
    BY <1>1, WvAssumption DEF num_samples
  <1>4. ASSUME 0 \in blocks PROVE num_samples > 0
    <2>1. Cardinality(blocks) # 0
      BY <1>1, <1>4, FS_EmptySet
    <2> QED BY <1>1, <2>1, WvAssumption DEF num_samples
  <1> QED BY <1>2, <1>3, <1>4

LEMMA WvStarts ==
  ASSUME WvInit
  PROVE  WvInv
  <1>1. blocks \subseteq 0 .. WvLen - WvHead /\ 0 \in blocks
    BY DEF WvInit
  <1>2. num_samples \in Nat \ {0}
    BY <1>1, Samples
  <1>3. wvStart \in Nat \ {0} /\ wvStart <= (num_samples - 1) \div WvRate
    BY DEF WvInit
  <1>4. need_sample <= num_samples - 1
    <2> DEFINE n == num_samples - 1
               q == n \div WvRate
    <2>1. n \in Nat /\ q \in Nat /\ q * WvRate <= n
      BY <1>2, Division, WvAssumption
    <2>2. wvStart * WvRate <= q * WvRate
      BY <1>3, <2>1, Monotone, WvAssumption
    <2> HIDE DEF q
    <2> QED BY <1>3, <2>1, <2>2, WvAssumption DEF need_sample
  <1> QED BY <1>1, <1>2, <1>3, <1>4, WvAssumption DEF WvInv, WvInit

LEMMA ReopenStep ==
  ASSUME WvInv, NEW p \in 0 .. WvLen, Reopen(p)
  PROVE  WvInv' /\ went' \in 0 .. WvLen
  <1>1. UNCHANGED <<blocks, wvStart, num_samples, need_sample>>
    BY DEF Reopen, wvFile, num_samples, need_sample
  <1>2. IndexAt(p) \in 0 .. num_samples \cup {NoIndex}
    BY Samples DEF WvInv, IndexAt
  <1>3. PlaceAfter(p) \in 0 .. WvLen
    <2>1. blocks \subseteq Nat
      BY WvAssumption DEF WvInv
    <2>2. CASE Ahead(p) # {}
      <3>1. Next_block(p) \in 0 .. WvLen - WvHead
        BY <2>1, <2>2, NextBlock DEF WvInv
      <3> QED BY <2>2, <3>1, WvAssumption DEF PlaceAfter
    <2> QED BY <2>2, WvAssumption DEF PlaceAfter
  <1> QED BY <1>1, <1>2, <1>3 DEF WvInv, Reopen

LEMMA WvStep ==
  ASSUME WvInv, [WvNext]_wvVars
  PROVE  WvInv' /\ (idx # NoIndex => went' \in 0 .. WvLen \/ UNCHANGED wvVars)
  <1>1. /\ num_samples \in Nat /\ need_sample \in Nat /\ need_sample <= num_samples - 1
        /\ WvLen \in Nat /\ NoIndex \notin Nat /\ seek_offs \in 0 .. WvLen
        /\ idx \in 0 .. num_samples \cup {NoIndex}
    BY Samples, WvAssumption DEF WvInv, need_sample
  <1>2. CASE WvOpen
    <2> DEFINE p == (need_sample * WvLen) \div num_samples
    <2>1. p \in 0 .. WvLen
      <3>1. need_sample * WvLen = WvLen * need_sample
        BY <1>1
      <3> QED BY <1>1, <3>1, Proportion
    <2>2. /\ seek_offs' = p /\ went' = p /\ idx' = IndexAt(p)
          /\ UNCHANGED <<blocks, wvStart, num_samples, need_sample>>
      BY <1>2 DEF WvOpen, wvFile, num_samples, need_sample
    <2>3. IndexAt(p) \in 0 .. num_samples \cup {NoIndex}
      BY Samples DEF WvInv, IndexAt
    <2> HIDE DEF p
    <2> QED BY <2>1, <2>2, <2>3 DEF WvInv
  <1>3. CASE Forward
    <2> DEFINE q == ((WvLen - seek_offs) * (need_sample - idx)) \div (num_samples - idx)
    <2>1. idx \in 0 .. num_samples /\ need_sample > idx /\ Reopen(seek_offs + q)
      BY <1>1, <1>3 DEF Forward
    <2>2. q \in 0 .. WvLen - seek_offs
      BY <1>1, <2>1, Proportion
    <2> HIDE DEF q
    <2>3. seek_offs + q \in 0 .. WvLen
      BY <1>1, <2>2
    <2> QED BY <2>1, <2>3, ReopenStep
  <1>4. CASE Backward
    <2> DEFINE q == (seek_offs * (idx - need_sample)) \div idx
    <2>1. idx \in 0 .. num_samples /\ need_sample < idx /\ Reopen(seek_offs - q)
      BY <1>1, <1>4 DEF Backward
    <2>2. q \in 0 .. seek_offs
      BY <1>1, <2>1, Proportion
    <2> HIDE DEF q
    <2>3. seek_offs - q \in 0 .. WvLen
      BY <1>1, <2>2
    <2> QED BY <2>1, <2>3, ReopenStep
  <1>5. CASE Astray
    <2>1. CASE \E p \in 0 .. WvLen : Reopen(p)
      BY <2>1, ReopenStep
    <2>2. CASE idx' = NoIndex /\ seek_offs' = WvLen /\ UNCHANGED wvFile
      <3>1. UNCHANGED <<blocks, wvStart, num_samples, need_sample>>
        BY <2>2 DEF wvFile, num_samples, need_sample
      <3> QED BY <1>1, <1>5, <2>2, <3>1 DEF WvInv, Astray
    <2> QED BY <1>5, <2>1, <2>2 DEF Astray
  <1>6. CASE WvPlays \/ UNCHANGED wvVars
    <2>1. UNCHANGED <<blocks, wvStart, num_samples, need_sample, idx, seek_offs, went>>
      BY <1>6 DEF WvPlays, wvVars, wvFile, num_samples, need_sample
    <2> QED BY <2>1 DEF WvInv
  <1> QED BY <1>2, <1>3, <1>4, <1>5, <1>6 DEF WvNext

\* From a block it has found, no round of the interpolation leaves the file, whatever
\* its blocks and the second: the quotients of wvPlay stay below one, whichever side of
\* the block the sample is on, and no lseek of such a round can fail.
THEOREM WvStaysInFile == Spec => WvInFile
  <1>1. Init => WvInv
    BY WvStarts DEF Init, NoWv
  <1>2. [Next]_vars => [WvNext]_wvVars
    <2>1. wvPlay => WvNext
      BY DEF wvPlay
    <2>2. flacPlay \/ apePlay \/ alacPlay \/ bookmark => UNCHANGED wvVars
      BY DEF flacPlay, apePlay, alacPlay, bookmark
    <2>3. UNCHANGED vars => UNCHANGED wvVars
      BY DEF vars
    <2> QED BY <2>1, <2>2, <2>3 DEF Next
  <1>3. WvInv /\ [WvNext]_wvVars =>
          WvInv' /\ [idx # NoIndex => went' \in 0 .. WvLen]_wvVars
    BY WvStep
  <1> QED BY <1>1, <1>2, <1>3, PTL DEF Spec, WvInFile
============================================================================
