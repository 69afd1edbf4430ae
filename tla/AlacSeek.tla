----------------------------- MODULE AlacSeek -----------------------------
(***************************************************************************)
(* Playing an alac file from a given second, with the tables of an m4a:    *)
(* runs of blocks of equal duration, runs of chunks with equally many      *)
(* blocks, the offset of each chunk and the size of each block.            *)
(***************************************************************************)
EXTENDS Integers, Sequences, FiniteSets, FiniteSetsExt

CONSTANTS
    MaxRuns,      \* bound: runs of durations
    Counts,       \* bound: blocks in a run of durations, or in a chunk
    Durations,    \* bound: sound samples in a block
    ByteSizes,    \* bound: bytes of a block
    MaxChunks     \* bound: chunks of a file

ASSUME AlacAssumption ==
    /\ MaxRuns \in Nat /\ MaxChunks \in Nat
    /\ Counts \subseteq Nat \ {0} /\ Durations \subseteq Nat \ {0} /\ ByteSizes \subseteq Nat

VARIABLES
    time_to_sample,      \* runs of durations
    sample_byte_size,    \* of each block, from 0
    chunks,              \* how many blocks each chunk of the file really has
    sample_to_chunk,     \* the runs of chunks in the file's table
    sound_sample_loc,    \* the sound sample to play from
    alacPhase,           \* "call" or "play"
    current_sample,      \* the block that is played first
    sound_samples_done,  \* its first sound sample
    offset               \* where in the file the code goes

tables == <<time_to_sample, sample_byte_size, chunks, sample_to_chunk, sound_sample_loc>>
alacVars == <<tables, alacPhase, current_sample, sound_samples_done, offset>>

num_sample_byte_sizes == Cardinality(DOMAIN sample_byte_size)
Blocks(runs) == [i \in DOMAIN runs |-> runs[i].sample_count]
Sounds(runs) == [i \in DOMAIN runs |-> runs[i].sample_count * runs[i].sample_duration]

\* f[m] + ... + f[n - 1].
Total(f, m, n) == LET sum[i \in Nat] == IF i <= m THEN 0 ELSE sum[i - 1] + f[i - 1] IN sum[n]

---------------------------------------------------------------------------
\* A file: the blocks in their chunks, with Gap bytes between two chunks.

Gap == 1
BlocksBefore(c) == Total(chunks, 1, c)
chunk_offset(c) == c * Gap + Total(sample_byte_size, 0, BlocksBefore(c))

\* Where the bytes of block s really are, and when it is really heard.
TrueOffset(s) ==
    LET c == Max({i \in DOMAIN chunks : BlocksBefore(i) <= s}) IN
    chunk_offset(c) + Total(sample_byte_size, BlocksBefore(c), s)
SamplesBefore(i) == Total(Blocks(time_to_sample), 1, i)
SoundsBefore(i) == Total(Sounds(time_to_sample), 1, i)
TrueRun(s) == Max({i \in DOMAIN time_to_sample : SamplesBefore(i) <= s})
TrueStart(s) ==
    LET i == TrueRun(s) IN
    SoundsBefore(i) + (s - SamplesBefore(i)) * time_to_sample[i].sample_duration
SoundSamples == SoundsBefore(Len(time_to_sample) + 1)

SeqsOf(S, n) == UNION {[1 .. m -> S] : m \in 1 .. n}

\* Every chunk that differs from the one before begins a run; another may.
AlacInit ==
    /\ chunks \in SeqsOf(Counts, MaxChunks)
    /\ LET n == BlocksBefore(Len(chunks) + 1) IN
       /\ sample_byte_size \in [0 .. n - 1 -> ByteSizes]
       /\ time_to_sample \in
            {t \in SeqsOf([sample_count : 1 .. n, sample_duration : Durations], MaxRuns) :
               Total(Blocks(t), 1, Len(t) + 1) = n}
    /\ \E r \in SeqsOf(DOMAIN chunks, Len(chunks)) :
        /\ r[1] = 1 /\ \A i, j \in DOMAIN r : i < j => r[i] < r[j]
        /\ \A c \in DOMAIN chunks \ {1} :
              chunks[c] # chunks[c - 1] => \E i \in DOMAIN r : r[i] = c
        /\ sample_to_chunk = [i \in DOMAIN r |->
                                 [first_chunk |-> r[i], num_samples |-> chunks[r[i]]]]
    /\ sound_sample_loc \in 1 .. SoundSamples
    /\ alacPhase = "call" /\ current_sample = 0 /\ sound_samples_done = 0 /\ offset = 0

---------------------------------------------------------------------------
\* The blocks of the runs of chunks before run i, and the run with block s.
RangeSamples ==
    [i \in 1 .. Len(sample_to_chunk) - 1 |->
        (sample_to_chunk[i + 1].first_chunk - sample_to_chunk[i].first_chunk)
        * sample_to_chunk[i].num_samples]
RangeBefore(i) == Total(RangeSamples, 1, i)

\* Mutant: the loop ends before the last run.
ChunkRunShort(s) == Max({1} \cup {i \in DOMAIN sample_to_chunk :
                                   i < Len(sample_to_chunk) /\ RangeBefore(i) <= s})
ChunkRun(s) == Max({i \in DOMAIN sample_to_chunk : RangeBefore(i) <= s})

\* 0 when there is no such block.
get_sample_offset(s) ==
    LET i == ChunkRun(s)
        run == sample_to_chunk[i]
        chunk == IF s >= sample_to_chunk[1].num_samples
                 THEN run.first_chunk + (s - RangeBefore(i)) \div run.num_samples ELSE 1
        chunk_sample == RangeBefore(i) + (chunk - run.first_chunk) * run.num_samples
    IN  IF s >= num_sample_byte_sizes \/ chunk_sample > s THEN 0
        ELSE chunk_offset(IF chunk > Len(chunks) THEN Len(chunks) ELSE chunk)
             + Total(sample_byte_size, chunk_sample, s)

\* The run in which the search for a sound sample ends, if it is not after the last.
Steps(i) == (sound_sample_loc - SoundsBefore(i)) \div time_to_sample[i].sample_duration

\* Mutant: a run ends one block early.
EndsInEarly == {i \in DOMAIN time_to_sample : Steps(i) < time_to_sample[i].sample_count - 1}
EndsIn == {i \in DOMAIN time_to_sample : Steps(i) <= time_to_sample[i].sample_count}

alac_seek ==
    /\ alacPhase = "call" /\ alacPhase' = "play"
    /\ IF EndsIn = {}
       THEN current_sample' = num_sample_byte_sizes /\ sound_samples_done' = SoundSamples
       ELSE LET i == Min(EndsIn) IN
            /\ current_sample' = SamplesBefore(i) + Steps(i)
            /\ sound_samples_done' = SoundsBefore(i) + Steps(i) * time_to_sample[i].sample_duration
    /\ offset' = get_sample_offset(current_sample')
    /\ UNCHANGED tables

---------------------------------------------------------------------------
\* alac_seek goes to the bytes of the block it plays first, whatever the tables.
AlacOffset ==
    alacPhase = "play" /\ current_sample < num_sample_byte_sizes => offset = TrueOffset(current_sample)

\* The block it plays begins at the time it says, and not after the one asked for; in
\* a file as encoders write it, where only the last block may be shorter, it holds it.
Plain == \A s, r \in DOMAIN sample_byte_size : s < r =>
    LET d(q) == time_to_sample[TrueRun(q)].sample_duration IN
    d(s) = d(0) /\ d(r) <= d(0)
AlacOnTime ==
    alacPhase = "play" /\ sound_sample_loc < SoundSamples =>
        /\ current_sample < num_sample_byte_sizes
        /\ sound_samples_done = TrueStart(current_sample) /\ sound_samples_done <= sound_sample_loc
        /\ Plain => sound_sample_loc <
             sound_samples_done + time_to_sample[TrueRun(current_sample)].sample_duration
===========================================================================
