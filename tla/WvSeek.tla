------------------------------ MODULE WvSeek ------------------------------
(***************************************************************************)
(* Playing a wavpack file from a given second: wvPlay opens the file again *)
(* at an interpolated offset, up to five times, and takes the block it     *)
(* finds there as the next bound of the interpolation.  A place after the  *)
(* last header gives no block; only the first open is tested for that.     *)
(***************************************************************************)
EXTENDS Integers, FiniteSets

CONSTANTS
    WvLen,        \* bytes of the file
    WvBlock,      \* samples in a block
    WvHead,       \* bytes that an open reads of a block
    WvRate,       \* samples per second
    Rounds,       \* 5
    MaxBlocks,    \* bound: blocks of a file
    NoIndex       \* WavpackGetSampleIndex of no context

ASSUME WvAssumption ==
    {WvLen, WvBlock, WvHead, WvRate, Rounds, MaxBlocks} \subseteq Nat \ {0} /\ NoIndex \notin Nat

VARIABLES
    blocks,       \* the offsets of the blocks in the file
    wvStart,      \* the second to play from
    wvPhase,      \* "call", "seek", "play" or "failed"
    idx,          \* first sample of the block that is open, or NoIndex
    seek_offs,    \* the offset the code takes it to be at
    went,         \* where the last lseek went, or -1: it failed
    wvRound       \* rounds so far

wvFile == <<blocks, wvStart>>
wvVars == <<wvFile, wvPhase, idx, seek_offs, went, wvRound>>

num_samples == WvBlock * Cardinality(blocks)
need_sample == wvStart * WvRate
index(b) == WvBlock * Cardinality({a \in blocks : a < b})

WvInit ==
    /\ blocks \in {S \in SUBSET (0 .. WvLen - WvHead) : 0 \in S /\ Cardinality(S) <= MaxBlocks
                     /\ \A a, b \in S : a < b => b - a >= WvHead}
    /\ wvStart \in 1 .. (num_samples - 1) \div WvRate
    /\ wvPhase = "call" /\ idx = 0 /\ seek_offs = 0 /\ went = 0 /\ wvRound = 0

\* WavpackOpenFileInput from offset p: the next block, and the place after its header.
Ahead(p) == {b \in blocks : b >= p}
Next_block(p) == CHOOSE b \in Ahead(p) : \A a \in Ahead(p) : b <= a
IndexAt(p) == IF Ahead(p) = {} THEN NoIndex ELSE index(Next_block(p))
PlaceAfter(p) == IF Ahead(p) = {} THEN WvLen ELSE Next_block(p) + WvHead

\* The first open, at an offset in proportion to the sample.
WvOpen ==
    /\ wvPhase = "call"
    /\ LET p == (need_sample * WvLen) \div num_samples IN
       /\ seek_offs' = p /\ went' = p /\ idx' = IndexAt(p)
       /\ wvPhase' = IF Ahead(p) = {} THEN "failed" ELSE "seek"
    /\ UNCHANGED <<wvFile, wvRound>>

\* A round goes to offset p and opens the file there.
Reopen(p) ==
    /\ went' = p /\ idx' = IndexAt(p) /\ seek_offs' = PlaceAfter(p)
    /\ wvRound' = wvRound + 1 /\ UNCHANGED <<wvFile, wvPhase>>

WvSeeks == wvPhase = "seek" /\ wvRound < Rounds

\* Mutant: in proportion to all samples.
ForwardFar ==
    /\ WvSeeks /\ idx # NoIndex /\ need_sample > idx
    /\ Reopen(seek_offs + ((WvLen - seek_offs) * need_sample) \div (num_samples - idx))

Forward ==
    /\ WvSeeks /\ idx # NoIndex /\ need_sample > idx
    /\ Reopen(seek_offs + ((WvLen - seek_offs) * (need_sample - idx)) \div (num_samples - idx))

Backward ==
    /\ WvSeeks /\ idx # NoIndex /\ need_sample < idx
    /\ Reopen(seek_offs - (seek_offs * (idx - need_sample)) \div idx)

\* (uint32_t) -1 passes for a sample far ahead: the products overflow, and the lseek
\* goes anywhere or fails.
Astray ==
    /\ WvSeeks /\ idx = NoIndex
    /\ \/ \E p \in 0 .. WvLen : Reopen(p)
       \/ /\ went' = -1 /\ idx' = NoIndex /\ seek_offs' = WvLen
          /\ wvRound' = wvRound + 1 /\ UNCHANGED <<wvFile, wvPhase>>

WvPlays ==
    /\ wvPhase = "seek" /\ (wvRound = Rounds \/ need_sample = idx)
    /\ wvPhase' = "play" /\ UNCHANGED <<wvFile, idx, seek_offs, went, wvRound>>

WvNext == WvOpen \/ Forward \/ Backward \/ Astray \/ WvPlays

---------------------------------------------------------------------------
\* From a block it has found, no round of the interpolation leaves the file: the
\* quotients stay below one, whichever side the sample is on.
WvInFile == [][idx # NoIndex => went' \in 0 .. WvLen]_wvVars
=============================================================================
