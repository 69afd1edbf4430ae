------------------------------ MODULE ApeSeek ------------------------------
(***************************************************************************)
(* Playing an ape file from a given second.  The file has a seek table     *)
(* with the offset of each frame; of the frame that holds the sample,      *)
(* apePlay decodes chunk after chunk and drops what comes before it.       *)
(***************************************************************************)
EXTENDS Integers

CONSTANTS
    BlocksPerFrame,   \* samples in a frame, but the last
    BlocksPerLoop,    \* samples decoded at a time; 4608
    ApeRate,          \* samples per second
    MaxApeFrames      \* bound: frames of a file

ASSUME ApeAssumption ==
    {BlocksPerFrame, BlocksPerLoop, ApeRate, MaxApeFrames} \subseteq Nat \ {0}

VARIABLES
    totalframes, finalframeblocks,   \* of the file
    apeStart,                        \* the second to play from
    apePhase,                        \* "call", "skip", "play", "end" or "failed"
    currentframe, nblocks,           \* where the decoder is: samples left in the frame
    samplestoskip,
    heard                            \* the first sample that is played, or -1

apeFile == <<totalframes, finalframeblocks, apeStart>>
apeVars == <<apeFile, apePhase, currentframe, nblocks, samplestoskip, heard>>

start_sample == apeStart * ApeRate
totalsamples_ape == (totalframes - 1) * BlocksPerFrame + finalframeblocks

\* How many samples frame f has.
FrameBlocks(f) == IF f = totalframes - 1 THEN finalframeblocks ELSE BlocksPerFrame
blockstodecode == IF nblocks < BlocksPerLoop THEN nblocks ELSE BlocksPerLoop
\* The sample that is decoded next.
Decoded == currentframe * BlocksPerFrame + FrameBlocks(currentframe) - nblocks

ApeInit ==
    /\ totalframes \in 1 .. MaxApeFrames /\ finalframeblocks \in 1 .. BlocksPerFrame
    /\ apeStart \in 1 .. (BlocksPerFrame * totalframes) \div ApeRate
    /\ apePhase = "call" /\ currentframe = 0 /\ nblocks = 0
    /\ samplestoskip = 0 /\ heard = -1

\* ape_calc_seekpos: the frame of the sample.  The seek table ends with the last.
ape_calc_seekpos ==
    /\ apePhase = "call"
    /\ LET n == start_sample \div BlocksPerFrame IN
       IF n >= totalframes
       THEN apePhase' = "failed" /\ UNCHANGED <<currentframe, nblocks, samplestoskip>>
       ELSE /\ apePhase' = "skip" /\ currentframe' = n /\ nblocks' = FrameBlocks(n)
            /\ samplestoskip' = start_sample - n * BlocksPerFrame
    /\ UNCHANGED <<apeFile, heard>>

\* Mutant: the chunk is dropped and not counted.
SkipForgets ==
    /\ apePhase = "skip" /\ nblocks > 0 /\ samplestoskip >= blockstodecode
    /\ nblocks' = nblocks - blockstodecode
    /\ UNCHANGED <<apeFile, apePhase, currentframe, samplestoskip, heard>>

\* A chunk that is dropped as a whole.
SkipChunk ==
    /\ apePhase = "skip" /\ nblocks > 0 /\ samplestoskip # 0
    /\ samplestoskip >= blockstodecode
    /\ samplestoskip' = samplestoskip - blockstodecode
    /\ nblocks' = nblocks - blockstodecode
    /\ UNCHANGED <<apeFile, apePhase, currentframe, heard>>

\* The chunk with the sample.  The code drops as many as are to be kept.
SkipPart ==
    /\ apePhase = "skip" /\ nblocks > 0 /\ samplestoskip < blockstodecode
    /\ heard' = Decoded + IF samplestoskip = 0 THEN 0 ELSE blockstodecode - samplestoskip
    /\ samplestoskip' = 0 /\ nblocks' = nblocks - blockstodecode /\ apePhase' = "play"
    /\ UNCHANGED <<apeFile, currentframe>>

NextApeFrame ==
    /\ apePhase = "skip" /\ nblocks = 0
    /\ IF currentframe + 1 < totalframes
       THEN /\ currentframe' = currentframe + 1 /\ nblocks' = FrameBlocks(currentframe + 1)
            /\ UNCHANGED apePhase
       ELSE apePhase' = "end" /\ UNCHANGED <<currentframe, nblocks>>
    /\ UNCHANGED <<apeFile, samplestoskip, heard>>

ApeNext == ape_calc_seekpos \/ SkipChunk \/ SkipPart \/ NextApeFrame
ApeSpec == ApeInit /\ [][ApeNext]_apeVars

---------------------------------------------------------------------------
\* Playing begins less than a chunk from the sample that was asked for, and it
\* begins if the file has that sample.
ApeIsNear ==
    /\ apePhase = "play" => heard - start_sample \in 1 - BlocksPerLoop .. BlocksPerLoop - 1
    /\ apePhase \in {"end", "failed"} => start_sample >= totalsamples_ape
=============================================================================
