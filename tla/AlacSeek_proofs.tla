-------------------------- MODULE AlacSeek_proofs --------------------------
(***************************************************************************)
(* The search in an alac file with tables of any size.  What is before a   *)
(* chunk or a run is a sum over a table; a sum is a recursive function,    *)
(* which has first to be shown to exist.  Then the two searches of         *)
(* get_sample_offset name the chunk that holds the block, and the search   *)
(* of alac_seek the run that holds the sound sample.                       *)
(***************************************************************************)
EXTENDS AlacSeek, WellFoundedInduction, FiniteSetTheorems, SequenceTheorems, TLAPS

\* Numbers.  The library's induction takes an operator as a parameter: here the least
\* number for which a formula fails is the least of a set.

\* A set of numbers has a least one.
LEMMA LeastOf ==
  ASSUME NEW T, T \subseteq Nat, T # {}
  PROVE  \E a \in T : \A b \in T : a <= b
  <1>1. PICK a \in T : \A b \in T : ~(<<b, a>> \in OpToRel(<, Nat))
    BY WFMin, NatLessThanWellFounded, Zenon
  <1>2. ASSUME NEW b \in T PROVE a <= b
    <2>1. a \in Nat /\ b \in Nat
      OBVIOUS
    <2>2. CASE b < a
      <3>1. <<b, a>> \in Nat \X Nat /\ <<b, a>>[1] < <<b, a>>[2]
        BY <2>1, <2>2
      <3> QED BY <1>1, <3>1 DEF OpToRel
    <2> QED BY <2>1, <2>2
  <1> QED BY <1>2

\* A bounded one has a greatest.
LEMMA GreatestOf ==
  ASSUME NEW T, T \subseteq Nat, T # {}, NEW n \in Nat, \A a \in T : a <= n
  PROVE  \E a \in T : \A b \in T : b <= a
  <1> DEFINE D == {d \in Nat : \A a \in T : a <= d}
  <1>1. n \in D /\ D \subseteq Nat
    OBVIOUS
  <1>2. PICK d \in D : \A e \in D : d <= e
    BY <1>1, LeastOf, Zenon
  <1>3. PICK a \in T : a \in Nat
    OBVIOUS
  <1>4. CASE d \in T
    BY <1>2, <1>4
  <1>5. CASE d \notin T
    <2>1. d \in Nat /\ \A b \in T : b \in Nat /\ b <= d /\ b # d
      BY <1>2, <1>5
    <2>2. d - 1 \in Nat /\ \A b \in T : b <= d - 1
      BY <1>3, <2>1
    <2>3. d - 1 \in D
      BY <2>2
    <2>4. d <= d - 1
      BY <1>2, <2>3
    <2> QED BY <2>1, <2>4
  <1> QED BY <1>4, <1>5

\* What Max and Min of a set of numbers are.
LEMMA MaxIs ==
  ASSUME NEW T, T \subseteq Nat, NEW n \in Nat, \A a \in T : a <= n, T # {}
  PROVE  Max(T) \in T /\ \A a \in T : a <= Max(T)
  <1>1. \E a \in T : \A b \in T : a >= b
    BY GreatestOf
  <1> QED BY <1>1 DEF Max

LEMMA MinIs ==
  ASSUME NEW T, T \subseteq Nat, T # {}
  PROVE  Min(T) \in T /\ \A a \in T : Min(T) <= a
  <1>1. \E a \in T : \A b \in T : a <= b
    BY LeastOf, Zenon
  <1> QED BY <1>1 DEF Min

\* A quotient is a number, and so many divisors are no more than the dividend.
LEMMA Division ==
  ASSUME NEW a \in Nat, NEW b \in Nat \ {0}
  PROVE  /\ a \div b \in Nat
         /\ (a \div b) * b <= a
  <1>1. a \div b \in Nat
    OBVIOUS
  <1>2. b * (a \div b) <= a
    OBVIOUS
  <1> QED BY <1>1, <1>2

LEMMA Monotone ==
  ASSUME NEW a \in Nat, NEW b \in Nat, NEW c \in Nat, a <= b
  PROVE  a * c <= b * c
  OBVIOUS

\* A quotient, below and above.
LEMMA Dividing ==
  ASSUME NEW a \in Nat, NEW b \in Nat \ {0}
  PROVE  /\ a \div b \in Nat
         /\ (a \div b) * b <= a /\ a < (a \div b + 1) * b
  <1>1. a \div b \in Nat /\ (a \div b) * b <= a
    BY Division
  <1>2. a < b * (a \div b) + b
    OBVIOUS
  <1>3. (a \div b + 1) * b = b * (a \div b) + b
    BY <1>1
  <1> QED BY <1>1, <1>2, <1>3

\* It is below a bound if the dividend is below so many divisors.
LEMMA QuotientBelow ==
  ASSUME NEW a \in Nat, NEW b \in Nat \ {0}, NEW c \in Nat, a < c * b
  PROVE  a \div b < c
  <1> DEFINE q == a \div b
  <1>1. q \in Nat /\ q * b <= a
    BY Division
  <1> HIDE DEF q
  <1>2. CASE c <= q
    <2>1. c * b <= q * b
      BY <1>1, <1>2, Monotone
    <2>2. c * b \in Nat /\ q * b \in Nat
      BY <1>1
    <2> QED BY <1>1, <2>1, <2>2
  <1> QED BY <1>1, <1>2 DEF q

---------------------------------------------------------------------------
\* Sums.

\* The first terms of the recursive sum, as a function of its own.
IsSum(h, f, m, k) == h = [i \in 0 .. k |-> IF i <= m THEN 0 ELSE h[i - 1] + f[i - 1]]

\* There are such first terms, however many.
LEMMA SumsExist ==
  ASSUME NEW f, NEW m \in Nat, NEW k \in Nat
  PROVE  \E h : IsSum(h, f, m, k)
  <1> DEFINE T == {n \in Nat : ~ \E h : IsSum(h, f, m, n)}
  <1>1. CASE T = {}
    <2>1. k \notin T
      BY <1>1
    <2> QED BY <2>1
  <1>2. CASE T # {}
    <2>1. T \subseteq Nat
      OBVIOUS
    <2>2. PICK n \in T : \A b \in T : n <= b
      BY <1>2, <2>1, LeastOf, Zenon
    <2>3. n \in Nat
      OBVIOUS
    <2>4. CASE n = 0
      <3> DEFINE h == [i \in 0 .. 0 |-> 0]
      <3>1. h = [i \in 0 .. 0 |-> IF i <= m THEN 0 ELSE h[i - 1] + f[i - 1]]
        OBVIOUS
      <3>2. IsSum(h, f, m, n)
        BY <2>4, <3>1 DEF IsSum
      <3> QED BY <3>2
    <2>5. CASE n # 0
      <3>1. n - 1 \in Nat /\ n - 1 \notin T
        BY <2>2, <2>3, <2>5
      <3>2. PICK g : IsSum(g, f, m, n - 1)
        BY <3>1
      <3> DEFINE last == IF n <= m THEN 0 ELSE g[n - 1] + f[n - 1]
                 h == [i \in 0 .. n |-> IF i = n THEN last ELSE g[i]]
      <3>3. ASSUME NEW i \in 0 .. n
            PROVE  h[i] = IF i <= m THEN 0 ELSE h[i - 1] + f[i - 1]
        <4>1. CASE i = n
          <5>1. n - 1 \in 0 .. n /\ n - 1 # n
            BY <2>3, <3>1
          <5>2. h[n - 1] = g[n - 1] /\ h[n] = last
            BY <2>3, <5>1
          <5> HIDE DEF h
          <5> QED BY <4>1, <5>2
        <4>2. CASE i # n
          <5>1. i \in 0 .. n - 1 /\ h[i] = g[i]
            BY <2>3, <4>2
          <5>2. g[i] = IF i <= m THEN 0 ELSE g[i - 1] + f[i - 1]
            BY <3>2, <5>1, Zenon DEF IsSum
          <5>3. CASE i <= m
            BY <5>1, <5>2, <5>3
          <5>4. CASE ~(i <= m)
            <6>1. i - 1 \in 0 .. n /\ i - 1 # n
              BY <2>3, <4>2, <5>4
            <6>2. h[i - 1] = g[i - 1]
              BY <6>1
            <6> HIDE DEF h
            <6> QED BY <5>1, <5>2, <5>4, <6>2
          <5> QED BY <5>3, <5>4
        <4> QED BY <4>1, <4>2
      <3>4. h = [i \in 0 .. n |-> h[i]]
        OBVIOUS
      <3> HIDE DEF h
      <3>5. IsSum(h, f, m, n)
        BY <3>3, <3>4 DEF IsSum
      <3> QED BY <3>5
    <2> QED BY <2>4, <2>5
  <1> QED BY <1>1, <1>2

\* They do not depend on how many there are.
LEMMA SumsAgree ==
  ASSUME NEW f, NEW m \in Nat, NEW k \in Nat, NEW l \in Nat, k <= l,
         NEW g, IsSum(g, f, m, k), NEW h, IsSum(h, f, m, l)
  PROVE  g[k] = h[k]
  <1> DEFINE T == {n \in 0 .. k : g[n] # h[n]}
  <1>1. CASE T = {}
    <2>1. k \in 0 .. k /\ k \notin T
      BY <1>1
    <2> QED BY <2>1
  <1>2. CASE T # {}
    <2>1. T \subseteq Nat
      OBVIOUS
    <2>2. PICK n \in T : \A b \in T : n <= b
      BY <1>2, <2>1, LeastOf, Zenon
    <2>3. n \in 0 .. k /\ n \in 0 .. l /\ g[n] # h[n]
      OBVIOUS
    <2>4. /\ g[n] = (IF n <= m THEN 0 ELSE g[n - 1] + f[n - 1])
          /\ h[n] = (IF n <= m THEN 0 ELSE h[n - 1] + f[n - 1])
      BY <2>3, Zenon DEF IsSum
    <2>5. ~(n <= m)
      BY <2>3, <2>4
    <2>6. n - 1 \in 0 .. k /\ n - 1 \notin T
      BY <2>2, <2>3, <2>5
    <2>7. g[n - 1] = h[n - 1]
      BY <2>6
    <2> HIDE DEF T
    <2> QED BY <2>3, <2>4, <2>5, <2>7
  <1> QED BY <1>1, <1>2

\* The sum that the tables are read with exists, and is taken one term at a time.
LEMMA TotalIs ==
  ASSUME NEW f, NEW m \in Nat, NEW n \in Nat
  PROVE  Total(f, m, n) = IF n <= m THEN 0 ELSE Total(f, m, n - 1) + f[n - 1]
  <1> DEFINE Sums(g) == g = [i \in Nat |-> IF i <= m THEN 0 ELSE g[i - 1] + f[i - 1]]
             part(k) == CHOOSE h : IsSum(h, f, m, k)
             all == [k \in Nat |-> part(k)[k]]
  <1>1. ASSUME NEW k \in Nat PROVE IsSum(part(k), f, m, k)
    BY SumsExist
  <1>2. ASSUME NEW k \in Nat
        PROVE  all[k] = IF k <= m THEN 0 ELSE all[k - 1] + f[k - 1]
    <2>1. /\ all[k] = part(k)[k]
          /\ k \in 0 .. k
      OBVIOUS
    <2>2. IsSum(part(k), f, m, k)
      BY <1>1
    <2> HIDE DEF part
    <2>3. part(k)[k] = IF k <= m THEN 0 ELSE part(k)[k - 1] + f[k - 1]
      BY <2>1, <2>2, Zenon DEF IsSum
    <2>4. CASE k <= m
      BY <2>1, <2>3, <2>4
    <2>5. CASE ~(k <= m)
      <3>1. k - 1 \in Nat /\ k - 1 <= k
        BY <2>5
      <3>2. IsSum(part(k - 1), f, m, k - 1)
        BY <1>1, <3>1
      <3>3. part(k - 1)[k - 1] = part(k)[k - 1]
        BY <2>2, <3>1, <3>2, SumsAgree
      <3>4. all[k - 1] = part(k - 1)[k - 1]
        BY <3>1
      <3> HIDE DEF all
      <3> QED BY <2>1, <2>3, <2>5, <3>3, <3>4
    <2> QED BY <2>4, <2>5
  <1>3. all = [k \in Nat |-> all[k]]
    OBVIOUS
  <1> HIDE DEF all
  <1>4. Sums(all)
    BY <1>2, <1>3
  <1> DEFINE sum == CHOOSE g : Sums(g)
  <1>5. Sums(sum)
    BY <1>4, Zenon
  <1>6. \A k \in Nat : Total(f, m, k) = sum[k]
    BY DEF Total
  <1>7. sum = [i \in Nat |-> IF i <= m THEN 0 ELSE sum[i - 1] + f[i - 1]]
    BY <1>5
  <1> HIDE DEF sum
  <1>8. sum[n] = IF n <= m THEN 0 ELSE sum[n - 1] + f[n - 1]
    BY <1>7, Zenon
  <1>9. CASE n <= m
    BY <1>6, <1>8, <1>9
  <1>10. CASE ~(n <= m)
    <2>1. n - 1 \in Nat
      BY <1>10
    <2> QED BY <1>6, <1>8, <1>10, <2>1
  <1> QED BY <1>9, <1>10

\* A sum of numbers is a number, and grows with each positive term.
LEMMA TotalGrows ==
  ASSUME NEW f, NEW m \in Nat, NEW l \in Nat,
         \A j \in m .. l - 1 : f[j] \in Nat
  PROVE  \A n \in m .. l :
           /\ Total(f, m, n) \in Nat
           /\ \A k \in m .. n : Total(f, m, k) <= Total(f, m, n)
  <1> DEFINE T == {n \in m .. l : ~(/\ Total(f, m, n) \in Nat
                                    /\ \A k \in m .. n : Total(f, m, k) <= Total(f, m, n))}
  <1>1. CASE T = {}
    BY <1>1
  <1>2. CASE T # {}
    <2>1. T \subseteq Nat
      OBVIOUS
    <2>2. PICK n \in T : \A b \in T : n <= b
      BY <1>2, <2>1, LeastOf, Zenon
    <2>3. /\ n \in m .. l /\ n \in Nat
          /\ ~(Total(f, m, n) \in Nat /\ \A k \in m .. n : Total(f, m, k) <= Total(f, m, n))
      OBVIOUS
    <2>4. Total(f, m, m) = 0
      BY TotalIs
    <2>5. n # m
      BY <2>3, <2>4
    <2>6. n - 1 \in m .. l /\ n - 1 \notin T /\ n - 1 \in m .. l - 1
      BY <2>2, <2>3, <2>5
    <2>7. /\ Total(f, m, n - 1) \in Nat
          /\ \A k \in m .. n - 1 : Total(f, m, k) <= Total(f, m, n - 1)
      BY <2>6
    <2>8. Total(f, m, n) = Total(f, m, n - 1) + f[n - 1] /\ f[n - 1] \in Nat
      BY <2>3, <2>5, <2>6, TotalIs
    <2>9. Total(f, m, n) \in Nat /\ Total(f, m, n - 1) <= Total(f, m, n)
      BY <2>7, <2>8
    <2>10. ASSUME NEW k \in m .. n PROVE Total(f, m, k) <= Total(f, m, n)
      <3>1. CASE k = n
        BY <2>9, <3>1
      <3>2. CASE k # n
        <4>1. k \in m .. n - 1 /\ k \in m .. l
          BY <2>3, <3>2
        <4>2. k \notin T
          BY <2>2, <2>3, <3>2, <4>1
        <4>3. Total(f, m, k) \in Nat
          BY <4>1, <4>2
        <4> HIDE DEF T
        <4> QED BY <2>7, <2>9, <4>1, <4>3
      <3> QED BY <3>1, <3>2
    <2> HIDE DEF T
    <2> QED BY <2>3, <2>9, <2>10
  <1> QED BY <1>1, <1>2

\* A sum of the same terms is a product.
LEMMA TotalOfEqual ==
  ASSUME NEW f, NEW a \in Nat, NEW l \in Nat, NEW d \in Nat, 1 <= a,
         Total(f, 1, a) \in Nat, \A j \in a .. l - 1 : f[j] = d
  PROVE  \A n \in a .. l : Total(f, 1, n) = Total(f, 1, a) + (n - a) * d
  <1> DEFINE T == {n \in a .. l : Total(f, 1, n) # Total(f, 1, a) + (n - a) * d}
  <1>1. CASE T = {}
    BY <1>1
  <1>2. CASE T # {}
    <2>1. T \subseteq Nat
      OBVIOUS
    <2>2. PICK n \in T : \A b \in T : n <= b
      BY <1>2, <2>1, LeastOf, Zenon
    <2>3. n \in a .. l /\ n \in Nat /\ Total(f, 1, n) # Total(f, 1, a) + (n - a) * d
      OBVIOUS
    <2>4. n # a
      <3>1. (a - a) * d = 0
        OBVIOUS
      <3> HIDE DEF T
      <3> QED BY <2>3, <3>1
    <2>5. n - 1 \in a .. l /\ n - 1 \notin T /\ n - 1 \in a .. l - 1 /\ ~(n <= 1)
      BY <2>2, <2>3, <2>4
    <2>6. Total(f, 1, n - 1) = Total(f, 1, a) + ((n - 1) - a) * d
      BY <2>5
    <2>7. Total(f, 1, n) = Total(f, 1, n - 1) + d
      BY <2>3, <2>5, TotalIs
    <2> DEFINE q == n - a
    <2>8. q \in Nat /\ (n - 1) - a = q - 1 /\ (q - 1) * d = q * d - d /\ q * d \in Nat
      BY <2>3, <2>4
    <2> HIDE DEF T
    <2>9. Total(f, 1, n) = Total(f, 1, a) + (q * d - d) + d
      BY <2>6, <2>7, <2>8
    <2>10. Total(f, 1, n) = Total(f, 1, a) + q * d
      BY <2>8, <2>9
    <2> QED BY <2>3, <2>10
  <1> QED BY <1>1, <1>2

---------------------------------------------------------------------------
\* The tables.

\* The first chunk of a run, and the blocks in each of its chunks.
First(i) == sample_to_chunk[i].first_chunk
InRun(i) == sample_to_chunk[i].num_samples

\* The tables of a file, and what is looked for.
DurationRuns == [sample_count : Nat \ {0}, sample_duration : Nat \ {0}]
RunsOfChunks == [first_chunk : DOMAIN chunks, num_samples : Nat \ {0}]
AlacFile ==
    /\ chunks \in Seq(Nat \ {0}) /\ Len(chunks) > 0
    /\ DOMAIN sample_byte_size = 0 .. BlocksBefore(Len(chunks) + 1) - 1
    /\ time_to_sample \in Seq(DurationRuns) /\ Len(time_to_sample) > 0
    /\ SamplesBefore(Len(time_to_sample) + 1) = BlocksBefore(Len(chunks) + 1)
    /\ sample_to_chunk \in Seq(RunsOfChunks) /\ Len(sample_to_chunk) > 0
    /\ First(1) = 1
    /\ \A i, j \in DOMAIN sample_to_chunk : i < j => First(i) < First(j)
    /\ \A i \in DOMAIN sample_to_chunk : InRun(i) = chunks[First(i)]
    /\ \A c \in DOMAIN chunks \ {1} :
         chunks[c] # chunks[c - 1] => \E i \in DOMAIN sample_to_chunk : First(i) = c
    /\ sound_sample_loc \in Nat

\* The sequences an initial state draws from.
LEMMA SeqsAre ==
  ASSUME NEW S, NEW n \in Nat, NEW s \in SeqsOf(S, n), NEW T, S \subseteq T
  PROVE  s \in Seq(T) /\ Len(s) \in Nat /\ Len(s) > 0 /\ DOMAIN s = 1 .. Len(s)
  <1>1. PICK m \in 1 .. n : s \in [1 .. m -> S]
    BY DEF SeqsOf
  <1>2. m \in Nat /\ m > 0
    OBVIOUS
  <1>3. s \in Seq(T)
    <2>1. s \in [1 .. m -> T]
      BY <1>1
    <2> QED BY <1>2, <2>1, SeqDef
  <1>4. DOMAIN s = 1 .. Len(s) /\ Len(s) \in Nat
    BY <1>3
  <1>5. 1 \in DOMAIN s
    BY <1>1, <1>2
  <1> QED BY <1>3, <1>4, <1>5

\* The files of an initial state have such tables.
LEMMA AlacStarts ==
  ASSUME AlacInit
  PROVE  AlacFile
  <1>1. /\ Len(chunks) \in Nat /\ Len(chunks) > 0 /\ DOMAIN chunks = 1 .. Len(chunks)
        /\ chunks \in Seq(Nat \ {0})
    BY SeqsAre, AlacAssumption DEF AlacInit
  <1>2. \A j \in 1 .. Len(chunks) : chunks[j] \in Nat \ {0}
    BY <1>1
  <1> DEFINE n == BlocksBefore(Len(chunks) + 1)
  <1>3. DOMAIN sample_byte_size = 0 .. n - 1
    BY DEF AlacInit
  <1>4. /\ time_to_sample \in
             SeqsOf([sample_count : 1 .. n, sample_duration : Durations], MaxRuns)
        /\ SamplesBefore(Len(time_to_sample) + 1) = n
    BY DEF AlacInit, SamplesBefore
  <1>5. time_to_sample \in Seq(DurationRuns) /\ Len(time_to_sample) > 0
    <2> DEFINE R == [sample_count : 1 .. n, sample_duration : Durations]
    <2>2. n \in Nat
      <3>1. \A j \in 1 .. (Len(chunks) + 1) - 1 : chunks[j] \in Nat
        BY <1>1, <1>2
      <3> QED BY <1>1, <3>1, TotalGrows DEF BlocksBefore
    <2> HIDE DEF n
    <2>3. R \subseteq DurationRuns
      <3>1. 1 .. n \subseteq Nat \ {0} /\ Durations \subseteq Nat \ {0}
        BY <2>2, AlacAssumption
      <3>2. ASSUME NEW x \in R PROVE x \in DurationRuns
        <4>1. x.sample_count \in 1 .. n /\ x.sample_duration \in Durations
          OBVIOUS
        <4> QED BY <3>1, <4>1 DEF DurationRuns
      <3> QED BY <3>2
    <2>4. time_to_sample \in SeqsOf(R, MaxRuns) /\ MaxRuns \in Nat
      BY <1>4, AlacAssumption
    <2> HIDE DEF R
    <2> QED BY <2>3, <2>4, SeqsAre
  <1>6. PICK r \in SeqsOf(DOMAIN chunks, Len(chunks)) :
          /\ r[1] = 1 /\ \A i, j \in DOMAIN r : i < j => r[i] < r[j]
          /\ \A c \in DOMAIN chunks \ {1} :
                chunks[c] # chunks[c - 1] => \E i \in DOMAIN r : r[i] = c
          /\ sample_to_chunk = [i \in DOMAIN r |->
                                   [first_chunk |-> r[i], num_samples |-> chunks[r[i]]]]
    BY DEF AlacInit
  <1>7. r \in Seq(DOMAIN chunks) /\ Len(r) > 0 /\ DOMAIN r = 1 .. Len(r)
    BY <1>1, <1>6, SeqsAre
  <1>8. /\ DOMAIN sample_to_chunk = DOMAIN r
        /\ \A i \in DOMAIN r : First(i) = r[i] /\ InRun(i) = chunks[r[i]]
    BY <1>6 DEF First, InRun
  <1>9. /\ sample_to_chunk \in Seq(RunsOfChunks) /\ Len(sample_to_chunk) = Len(r)
    <2>1. \A i \in 1 .. Len(r) : r[i] \in DOMAIN chunks /\ chunks[r[i]] \in Nat \ {0}
      BY <1>2, <1>7
    <2>2. sample_to_chunk \in [1 .. Len(r) -> RunsOfChunks] /\ Len(r) \in Nat
      BY <1>6, <1>7, <2>1 DEF RunsOfChunks
    <2>3. sample_to_chunk \in Seq(RunsOfChunks)
      BY <2>2, SeqDef
    <2> QED BY <2>2, <2>3
  <1>10. First(1) = 1
    BY <1>6, <1>7, <1>8
  <1>11. \A i, j \in DOMAIN sample_to_chunk : i < j => First(i) < First(j)
    BY <1>6, <1>8
  <1>12. \A i \in DOMAIN sample_to_chunk : InRun(i) = chunks[First(i)]
    BY <1>8
  <1>13. \A c \in DOMAIN chunks \ {1} :
           chunks[c] # chunks[c - 1] => \E i \in DOMAIN sample_to_chunk : First(i) = c
    BY <1>6, <1>8
  <1>14. sound_sample_loc \in Nat
    BY DEF AlacInit
  <1> QED BY <1>1, <1>2, <1>3, <1>4, <1>5, <1>7, <1>9, <1>10, <1>11, <1>12, <1>13, <1>14
          DEF AlacFile

\* The blocks before each chunk, and as many blocks as sizes.
LEMMA BlocksGrow ==
  ASSUME AlacFile
  PROVE  /\ Len(chunks) \in Nat \ {0} /\ DOMAIN chunks = 1 .. Len(chunks)
         /\ BlocksBefore(1) = 0
         /\ \A c \in 1 .. Len(chunks) + 1 : BlocksBefore(c) \in Nat
         /\ \A c \in 1 .. Len(chunks) + 1 : \A e \in 1 .. c : BlocksBefore(e) <= BlocksBefore(c)
         /\ num_sample_byte_sizes = BlocksBefore(Len(chunks) + 1)
  <1>1. Len(chunks) \in Nat \ {0} /\ DOMAIN chunks = 1 .. Len(chunks)
    BY DEF AlacFile
  <1>2. \A j \in 1 .. (Len(chunks) + 1) - 1 : chunks[j] \in Nat
    BY <1>1 DEF AlacFile
  <1>3. \A c \in 1 .. Len(chunks) + 1 :
          /\ BlocksBefore(c) \in Nat
          /\ \A e \in 1 .. c : BlocksBefore(e) <= BlocksBefore(c)
    <2> DEFINE l == Len(chunks) + 1
    <2>1. l \in Nat /\ 1 \in Nat /\ \A j \in 1 .. l - 1 : chunks[j] \in Nat
      BY <1>1, <1>2
    <2> HIDE DEF l
    <2>2. \A n \in 1 .. l : /\ Total(chunks, 1, n) \in Nat
                            /\ \A k \in 1 .. n : Total(chunks, 1, k) <= Total(chunks, 1, n)
      BY <2>1, TotalGrows
    <2> QED BY <2>2 DEF BlocksBefore, l
  <1>4. BlocksBefore(1) = 0
    BY TotalIs DEF BlocksBefore
  <1>5. num_sample_byte_sizes = BlocksBefore(Len(chunks) + 1)
    <2> DEFINE n == BlocksBefore(Len(chunks) + 1)
    <2>1. n \in Nat
      BY <1>1, <1>3
    <2>2. DOMAIN sample_byte_size = 0 .. n - 1
      BY DEF AlacFile
    <2> HIDE DEF n
    <2>3. Cardinality(0 .. n - 1) = n
      BY <2>1, FS_Interval
    <2> QED BY <2>2, <2>3 DEF n, num_sample_byte_sizes
  <1> QED BY <1>1, <1>3, <1>4, <1>5

\* The chunk after a run.
NextFirst(i) == IF i < Len(sample_to_chunk) THEN First(i + 1) ELSE Len(chunks) + 1

\* The runs of chunks follow each other, and the chunks of one hold equally many blocks.
LEMMA RunsFollow ==
  ASSUME AlacFile
  PROVE  /\ Len(sample_to_chunk) \in Nat \ {0}
         /\ DOMAIN sample_to_chunk = 1 .. Len(sample_to_chunk)
         /\ \A i \in DOMAIN sample_to_chunk :
              /\ First(i) \in 1 .. Len(chunks) /\ InRun(i) \in Nat \ {0}
              /\ NextFirst(i) \in 1 .. Len(chunks) + 1 /\ First(i) < NextFirst(i)
              /\ \A c \in First(i) .. NextFirst(i) - 1 : chunks[c] = InRun(i)
  <1>1. /\ Len(sample_to_chunk) \in Nat \ {0}
        /\ DOMAIN sample_to_chunk = 1 .. Len(sample_to_chunk)
        /\ Len(chunks) \in Nat \ {0} /\ DOMAIN chunks = 1 .. Len(chunks)
    BY BlocksGrow DEF AlacFile
  <1>2. ASSUME NEW i \in DOMAIN sample_to_chunk
        PROVE  First(i) \in 1 .. Len(chunks) /\ InRun(i) \in Nat \ {0}
    <2>1. sample_to_chunk[i] \in RunsOfChunks
      BY <1>1 DEF AlacFile
    <2> QED BY <1>1, <2>1 DEF RunsOfChunks, First, InRun
  <1>3. ASSUME NEW i \in DOMAIN sample_to_chunk
        PROVE  NextFirst(i) \in 1 .. Len(chunks) + 1 /\ First(i) < NextFirst(i)
    <2>1. CASE i < Len(sample_to_chunk)
      <3>1. i + 1 \in DOMAIN sample_to_chunk /\ i < i + 1
        BY <1>1, <2>1
      <3>2. First(i) < First(i + 1)
        BY <3>1 DEF AlacFile
      <3>3. First(i + 1) \in 1 .. Len(chunks)
        BY <1>2, <3>1
      <3> QED BY <1>1, <2>1, <3>2, <3>3 DEF NextFirst
    <2>2. CASE ~(i < Len(sample_to_chunk))
      BY <1>1, <1>2, <2>2 DEF NextFirst
    <2> QED BY <2>1, <2>2
  <1>4. ASSUME NEW i \in DOMAIN sample_to_chunk
        PROVE  \A c \in First(i) .. NextFirst(i) - 1 : chunks[c] = InRun(i)
    <2> DEFINE T == {c \in First(i) .. NextFirst(i) - 1 : chunks[c] # InRun(i)}
    <2>1. CASE T = {}
      BY <2>1
    <2>2. CASE T # {}
      <3>1. T \subseteq Nat
        BY <1>2
      <3>2. PICK c \in T : \A b \in T : c <= b
        BY <2>2, <3>1, LeastOf, Zenon
      <3>3. /\ c \in First(i) .. NextFirst(i) - 1 /\ c \in 1 .. Len(chunks)
            /\ chunks[c] # InRun(i)
        BY <1>1, <1>2, <1>3
      <3>4. c # First(i)
        BY <3>3 DEF AlacFile
      <3>5. c - 1 \in First(i) .. NextFirst(i) - 1 /\ c - 1 \notin T
        BY <1>2, <1>3, <3>2, <3>3, <3>4
      <3>6. chunks[c - 1] = InRun(i)
        BY <3>5
      <3> HIDE DEF T
      <3>7. c \in DOMAIN chunks \ {1}
        BY <1>1, <1>2, <3>3, <3>4
      <3>8. PICK j \in DOMAIN sample_to_chunk : First(j) = c
        BY <3>3, <3>6, <3>7 DEF AlacFile
      <3>9. CASE j <= i
        <4>1. First(j) <= First(i)
          <5>1. CASE j = i
            BY <1>2, <5>1
          <5>2. CASE j # i
            <6>1. j < i
              BY <1>1, <3>9, <5>2
            <6>2. First(j) < First(i)
              BY <6>1 DEF AlacFile
            <6> QED BY <1>2, <6>2
          <5> QED BY <5>1, <5>2
        <4> QED BY <1>2, <3>3, <3>4, <3>8, <4>1
      <3>10. CASE ~(j <= i)
        <4>1. i < Len(sample_to_chunk) /\ i + 1 \in DOMAIN sample_to_chunk /\ i + 1 <= j
          BY <1>1, <3>10
        <4>2. First(i + 1) <= First(j)
          <5>1. CASE j = i + 1
            BY <1>2, <5>1
          <5>2. CASE j # i + 1
            <6>1. i + 1 < j
              BY <1>1, <4>1, <5>2
            <6>2. First(i + 1) < First(j)
              BY <4>1, <6>1 DEF AlacFile
            <6> QED BY <1>2, <4>1, <6>2
          <5> QED BY <5>1, <5>2
        <4>3. NextFirst(i) = First(i + 1)
          BY <4>1 DEF NextFirst
        <4> QED BY <1>2, <3>3, <3>8, <4>1, <4>2, <4>3
      <3> QED BY <3>9, <3>10, <1>1
    <2> QED BY <2>1, <2>2
  <1> QED BY <1>1, <1>2, <1>3, <1>4

\* The blocks before a chunk of a run.
LEMMA RunBlocks ==
  ASSUME AlacFile, NEW i \in DOMAIN sample_to_chunk
  PROVE  \A c \in First(i) .. NextFirst(i) :
           BlocksBefore(c) = BlocksBefore(First(i)) + (c - First(i)) * InRun(i)
  <1> DEFINE a == First(i)
             l == NextFirst(i)
             d == InRun(i)
  <1>1. a \in Nat /\ l \in Nat /\ 1 <= a /\ d \in Nat /\ \A c \in a .. l - 1 : chunks[c] = d
    BY RunsFollow, BlocksGrow
  <1>2. Total(chunks, 1, a) \in Nat
    BY RunsFollow, BlocksGrow DEF BlocksBefore
  <1> HIDE DEF a, l, d
  <1>3. \A c \in a .. l : Total(chunks, 1, c) = Total(chunks, 1, a) + (c - a) * d
    BY <1>1, <1>2, TotalOfEqual
  <1> QED BY <1>3 DEF BlocksBefore, a, l, d

\* What get_sample_offset sums up before a run are the blocks before its first chunk.
LEMMA RangeIs ==
  ASSUME AlacFile
  PROVE  \A i \in DOMAIN sample_to_chunk : RangeBefore(i) = BlocksBefore(First(i))
  <1> DEFINE T == {i \in DOMAIN sample_to_chunk : RangeBefore(i) # BlocksBefore(First(i))}
  <1>1. CASE T = {}
    BY <1>1
  <1>2. CASE T # {}
    <2>1. /\ Len(sample_to_chunk) \in Nat \ {0}
          /\ DOMAIN sample_to_chunk = 1 .. Len(sample_to_chunk)
      BY RunsFollow
    <2>2. T \subseteq Nat
      BY <2>1
    <2>3. PICK i \in T : \A b \in T : i <= b
      BY <1>2, <2>2, LeastOf, Zenon
    <2>4. i \in 1 .. Len(sample_to_chunk) /\ RangeBefore(i) # BlocksBefore(First(i))
      BY <2>1
    <2>5. i # 1
      <3>1. RangeBefore(1) = 0
        BY TotalIs DEF RangeBefore
      <3>2. BlocksBefore(First(1)) = 0
        BY BlocksGrow DEF AlacFile
      <3> HIDE DEF T
      <3> QED BY <2>4, <3>1, <3>2
    <2> DEFINE k == i - 1
    <2>6. /\ k \in DOMAIN sample_to_chunk /\ k \notin T /\ k + 1 = i /\ ~(i <= 1)
          /\ k \in 1 .. Len(sample_to_chunk) - 1 /\ k < Len(sample_to_chunk)
      BY <2>1, <2>3, <2>4, <2>5
    <2>7. RangeBefore(k) = BlocksBefore(First(k))
      BY <2>6
    <2> HIDE DEF T
    <2>8. RangeBefore(i) = RangeBefore(k) + RangeSamples[k]
      BY <2>4, <2>6, TotalIs DEF RangeBefore
    <2>9. RangeSamples[k] = (First(i) - First(k)) * InRun(k)
      <3>1. RangeSamples[k] = (First(k + 1) - First(k)) * InRun(k)
        BY <2>6 DEF RangeSamples, First, InRun
      <3> QED BY <2>6, <3>1
    <2>10. NextFirst(k) = First(i) /\ First(i) \in First(k) .. NextFirst(k)
      <3>1. NextFirst(k) = First(i)
        BY <2>6 DEF NextFirst
      <3> QED BY <2>6, <3>1, RunsFollow, BlocksGrow
    <2>11. BlocksBefore(First(i)) = BlocksBefore(First(k)) + (First(i) - First(k)) * InRun(k)
      BY <2>6, <2>10, RunBlocks
    <2> HIDE DEF k
    <2> QED BY <2>4, <2>7, <2>8, <2>9, <2>11
  <1> QED BY <1>1, <1>2

\* The run of chunks that ChunkRun picks is the one with block s.
LEMMA ChunkRunIs ==
  ASSUME AlacFile, NEW s \in 0 .. num_sample_byte_sizes - 1
  PROVE  LET k == ChunkRun(s) IN
         /\ k \in DOMAIN sample_to_chunk
         /\ BlocksBefore(First(k)) <= s /\ s < BlocksBefore(NextFirst(k))
         /\ s < InRun(1) => k = 1
  <1> DEFINE T == {i \in DOMAIN sample_to_chunk : RangeBefore(i) <= s}
             k == ChunkRun(s)
             n == Len(sample_to_chunk)
  <1>1. /\ n \in Nat \ {0} /\ DOMAIN sample_to_chunk = 1 .. n
        /\ s \in Nat /\ s < BlocksBefore(Len(chunks) + 1)
    BY RunsFollow, BlocksGrow
  <1>2. \A i \in 1 .. n : RangeBefore(i) = BlocksBefore(First(i))
    BY <1>1, RangeIs
  <1>3. 1 \in T
    <2>1. BlocksBefore(First(1)) = 0
      BY BlocksGrow DEF AlacFile
    <2> QED BY <1>1, <1>2, <2>1
  <1>4. k \in T /\ \A i \in T : i <= k
    <2>1. T \subseteq Nat /\ T # {} /\ n \in Nat /\ \A i \in T : i <= n
      BY <1>1, <1>3
    <2>2. k = Max(T)
      BY DEF ChunkRun
    <2> HIDE DEF T, k
    <2> QED BY <2>1, <2>2, MaxIs
  <1>5. k \in 1 .. n /\ BlocksBefore(First(k)) <= s
    BY <1>1, <1>2, <1>4
  <1>6. s < BlocksBefore(NextFirst(k))
    <2>1. CASE k < n
      <3>1. k + 1 \in 1 .. n /\ k + 1 \notin T
        BY <1>1, <1>4, <1>5, <2>1
      <3>2. ~(BlocksBefore(First(k + 1)) <= s)
        BY <1>1, <1>2, <3>1
      <3>3. NextFirst(k) = First(k + 1)
        BY <2>1 DEF NextFirst
      <3>4. BlocksBefore(First(k + 1)) \in Nat
        <4>1. First(k + 1) \in 1 .. Len(chunks) + 1
          BY <1>1, <3>1, RunsFollow, BlocksGrow
        <4> QED BY <4>1, BlocksGrow
      <3> HIDE DEF k
      <3> QED BY <1>1, <3>2, <3>3, <3>4
    <2>2. CASE ~(k < n)
      BY <1>1, <1>5, <2>2 DEF NextFirst
    <2> QED BY <2>1, <2>2
  <1>7. ASSUME s < InRun(1), k # 1 PROVE FALSE
    <2>1. 1 \in DOMAIN sample_to_chunk /\ k \in DOMAIN sample_to_chunk /\ 1 < k
      BY <1>1, <1>5, <1>7
    <2>2. First(1) = 1 /\ First(1) < First(k) /\ First(k) \in 1 .. Len(chunks)
      BY <2>1, RunsFollow DEF AlacFile
    <2>3. BlocksBefore(2) <= BlocksBefore(First(k))
      BY <2>2, BlocksGrow
    <2>4. BlocksBefore(2) = InRun(1)
      <3>1. chunks[1] = InRun(1) /\ InRun(1) \in Nat
        BY <2>1, <2>2, RunsFollow DEF AlacFile
      <3>2. BlocksBefore(2) = BlocksBefore(1) + chunks[1]
        BY TotalIs DEF BlocksBefore
      <3> QED BY <3>1, <3>2, BlocksGrow
    <2>5. BlocksBefore(First(k)) \in Nat
      BY <2>2, BlocksGrow
    <2>6. InRun(1) \in Nat
      BY <2>1, RunsFollow
    <2> HIDE DEF k
    <2> QED BY <1>1, <1>5, <1>7, <2>3, <2>4, <2>5, <2>6
  <1> HIDE DEF T
  <1> QED BY <1>1, <1>5, <1>6, <1>7

\* The chunk that get_sample_offset computes is the one with block s.
LEMMA ChunkIs ==
  ASSUME AlacFile, NEW s \in 0 .. num_sample_byte_sizes - 1
  PROVE  LET k == ChunkRun(s)
             c == First(k) + (s - RangeBefore(k)) \div InRun(k)
         IN  /\ k \in DOMAIN sample_to_chunk
             /\ c \in DOMAIN chunks
             /\ RangeBefore(k) + (c - First(k)) * InRun(k) = BlocksBefore(c)
             /\ BlocksBefore(c) <= s /\ s < BlocksBefore(c + 1)
             /\ s < InRun(1) => k = 1 /\ c = 1
  <1> DEFINE k == ChunkRun(s)
             a == First(k)
             d == InRun(k)
             t == s - BlocksBefore(a)
             q == t \div d
             c == a + q
  <1>1. /\ k \in DOMAIN sample_to_chunk
        /\ BlocksBefore(a) <= s /\ s < BlocksBefore(NextFirst(k))
        /\ s < InRun(1) => k = 1
    BY ChunkRunIs
  <1>2. /\ Len(chunks) \in Nat /\ DOMAIN chunks = 1 .. Len(chunks)
        /\ a \in 1 .. Len(chunks) /\ d \in Nat \ {0}
        /\ NextFirst(k) \in 1 .. Len(chunks) + 1 /\ a < NextFirst(k)
    BY <1>1, RunsFollow, BlocksGrow
  <1>3. BlocksBefore(a) \in Nat /\ s \in Nat /\ t \in Nat
    BY <1>1, <1>2, BlocksGrow
  <1>4. RangeBefore(k) = BlocksBefore(a)
    BY <1>1, RangeIs
  <1>5. \A e \in a .. NextFirst(k) : BlocksBefore(e) = BlocksBefore(a) + (e - a) * d
    BY <1>1, RunBlocks
  <1> HIDE DEF k, a, d
  <1>6. q \in Nat /\ q * d <= t /\ t < (q + 1) * d
    BY <1>2, <1>3, Dividing
  <1>7. q < NextFirst(k) - a
    <2>1. BlocksBefore(NextFirst(k)) = BlocksBefore(a) + (NextFirst(k) - a) * d
      BY <1>2, <1>5
    <2> DEFINE m == NextFirst(k) - a
    <2>2. m \in Nat /\ m * d \in Nat
      BY <1>2
    <2>3. BlocksBefore(NextFirst(k)) = BlocksBefore(a) + m * d
      BY <2>1
    <2> HIDE DEF m
    <2>4. t < m * d
      BY <1>1, <1>3, <2>2, <2>3
    <2>5. q < m
      BY <1>2, <1>3, <2>2, <2>4, QuotientBelow
    <2> QED BY <2>5 DEF m
  <1> HIDE DEF q
  <1>8. /\ c \in a .. NextFirst(k) /\ c + 1 \in a .. NextFirst(k) /\ c \in 1 .. Len(chunks)
        /\ c - a = q /\ (c + 1) - a = q + 1
    BY <1>2, <1>6, <1>7
  <1>9. /\ BlocksBefore(c) = BlocksBefore(a) + q * d
        /\ BlocksBefore(c + 1) = BlocksBefore(a) + (q + 1) * d
    BY <1>5, <1>8
  <1>10. BlocksBefore(c) <= s /\ s < BlocksBefore(c + 1)
    <2>1. q * d \in Nat /\ (q + 1) * d \in Nat
      BY <1>2, <1>6
    <2> QED BY <1>3, <1>6, <1>9, <2>1
  <1>11. ASSUME s < InRun(1) PROVE k = 1 /\ c = 1
    <2>1. k = 1 /\ a = 1 /\ d = InRun(1)
      BY <1>1, <1>11 DEF a, d, AlacFile
    <2>2. BlocksBefore(a) = 0
      BY <2>1, BlocksGrow
    <2>3. t < 1 * d
      BY <1>2, <1>3, <1>11, <2>1, <2>2
    <2>4. t \div d < 1
      BY <1>2, <1>3, <2>3, QuotientBelow
    <2> QED BY <1>6, <2>1, <2>4 DEF q
  <1>12. RangeBefore(k) + (c - a) * d = BlocksBefore(c)
    BY <1>4, <1>8, <1>9
  <1>13. c = a + (s - RangeBefore(k)) \div d
    BY <1>4 DEF q
  <1> HIDE DEF c
  <1> QED BY <1>1, <1>2, <1>8, <1>10, <1>11, <1>12, <1>13 DEF k, a, d

\* get_sample_offset answers where the bytes of a block really are, for every block and
\* whatever the tables.
THEOREM OffsetIs ==
  ASSUME AlacFile, NEW s \in 0 .. num_sample_byte_sizes - 1
  PROVE  get_sample_offset(s) = TrueOffset(s)
  <1> DEFINE k == ChunkRun(s)
             c == First(k) + (s - RangeBefore(k)) \div InRun(k)
             chunk == IF s >= InRun(1) THEN c ELSE 1
             chunk_sample == RangeBefore(k) + (chunk - First(k)) * InRun(k)
             T == {i \in DOMAIN chunks : BlocksBefore(i) <= s}
  <1>1. /\ k \in DOMAIN sample_to_chunk /\ c \in DOMAIN chunks
        /\ RangeBefore(k) + (c - First(k)) * InRun(k) = BlocksBefore(c)
        /\ BlocksBefore(c) <= s /\ s < BlocksBefore(c + 1)
        /\ s < InRun(1) => c = 1
    BY ChunkIs
  <1>2. /\ Len(chunks) \in Nat /\ DOMAIN chunks = 1 .. Len(chunks)
        /\ num_sample_byte_sizes \in Nat /\ s \in Nat /\ s < num_sample_byte_sizes
        /\ InRun(1) \in Nat /\ BlocksBefore(c) \in Nat /\ BlocksBefore(c + 1) \in Nat
    <2>1. /\ Len(chunks) \in Nat \ {0} /\ DOMAIN chunks = 1 .. Len(chunks)
          /\ num_sample_byte_sizes \in Nat
      BY BlocksGrow
    <2>2. InRun(1) \in Nat
      BY RunsFollow
    <2> HIDE DEF c
    <2>3. c \in 1 .. Len(chunks) + 1 /\ c + 1 \in 1 .. Len(chunks) + 1
      BY <1>1, <2>1
    <2> QED BY <2>1, <2>2, <2>3, BlocksGrow
  <1> HIDE DEF c
  <1>3. chunk = c
    BY <1>1, <1>2
  <1>4. chunk_sample = BlocksBefore(c)
    BY <1>1, <1>3
  <1>5. get_sample_offset(s) =
          IF s >= num_sample_byte_sizes \/ chunk_sample > s THEN 0
          ELSE chunk_offset(IF chunk > Len(chunks) THEN Len(chunks) ELSE chunk)
               + Total(sample_byte_size, chunk_sample, s)
    BY DEF get_sample_offset, First, InRun, c
  <1> HIDE DEF chunk, chunk_sample
  <1>6. get_sample_offset(s) = chunk_offset(c) + Total(sample_byte_size, BlocksBefore(c), s)
    BY <1>1, <1>2, <1>3, <1>4, <1>5
  <1>7. Max(T) = c
    <2>1. c \in T /\ T \subseteq Nat
      BY <1>1, <1>2
    <2>2. \A i \in T : i <= c
      <3>1. SUFFICES ASSUME NEW i \in T, c + 1 <= i PROVE FALSE
        BY <1>1, <1>2
      <3>2. i \in 1 .. Len(chunks) + 1 /\ c + 1 \in 1 .. i /\ BlocksBefore(i) <= s
        BY <1>1, <1>2, <3>1
      <3>3. BlocksBefore(c + 1) <= BlocksBefore(i) /\ BlocksBefore(i) \in Nat
        BY <3>2, BlocksGrow
      <3> QED BY <1>1, <1>2, <3>2, <3>3
    <2>3. c \in Nat
      BY <2>1
    <2> HIDE DEF T
    <2>4. Max(T) \in T /\ \A i \in T : i <= Max(T)
      BY <2>1, <2>2, <2>3, MaxIs
    <2> DEFINE m == Max(T)
    <2>5. m \in Nat /\ m <= c /\ c <= m
      BY <2>1, <2>2, <2>4
    <2> HIDE DEF m
    <2>6. m = c
      BY <2>3, <2>5
    <2> QED BY <2>6 DEF m
  <1>8. TrueOffset(s) = chunk_offset(Max(T)) + Total(sample_byte_size, BlocksBefore(Max(T)), s)
    BY DEF TrueOffset
  <1> QED BY <1>6, <1>7, <1>8

---------------------------------------------------------------------------
\* The blocks of a run of durations, and how long each lasts.
Count(i) == time_to_sample[i].sample_count
Lasts(i) == time_to_sample[i].sample_duration

\* The blocks and the sound samples before each run of durations.
LEMMA TimesGrow ==
  ASSUME AlacFile
  PROVE  LET n == Len(time_to_sample) IN
         /\ n \in Nat \ {0} /\ DOMAIN time_to_sample = 1 .. n
         /\ SamplesBefore(1) = 0 /\ SoundsBefore(1) = 0
         /\ SamplesBefore(n + 1) = num_sample_byte_sizes
         /\ \A i \in 1 .. n :
              /\ Count(i) \in Nat \ {0} /\ Lasts(i) \in Nat \ {0}
              /\ SamplesBefore(i + 1) = SamplesBefore(i) + Count(i)
              /\ SoundsBefore(i + 1) = SoundsBefore(i) + Count(i) * Lasts(i)
         /\ \A i \in 1 .. n + 1 : SamplesBefore(i) \in Nat /\ SoundsBefore(i) \in Nat
         /\ \A i \in 1 .. n + 1 : \A j \in 1 .. i : SamplesBefore(j) <= SamplesBefore(i)
  <1> DEFINE n == Len(time_to_sample)
             l == n + 1
             b == Blocks(time_to_sample)
             s == Sounds(time_to_sample)
  <1>1. n \in Nat \ {0} /\ DOMAIN time_to_sample = 1 .. n
    BY DEF AlacFile
  <1>2. ASSUME NEW i \in 1 .. n
        PROVE  Count(i) \in Nat \ {0} /\ Lasts(i) \in Nat \ {0}
    <2>1. time_to_sample[i] \in DurationRuns
      BY <1>1 DEF AlacFile
    <2> QED BY <2>1 DEF DurationRuns, Count, Lasts
  <1>3. ASSUME NEW i \in 1 .. n
        PROVE  /\ b[i] = Count(i) /\ s[i] = Count(i) * Lasts(i)
               /\ b[i] \in Nat /\ s[i] \in Nat
    <2>1. b[i] = Count(i) /\ s[i] = Count(i) * Lasts(i)
      BY <1>1 DEF Blocks, Sounds, Count, Lasts
    <2> QED BY <1>2, <2>1
  <1> HIDE DEF b, s
  <1>4. ASSUME NEW i \in 1 .. n
        PROVE  /\ SamplesBefore(i + 1) = SamplesBefore(i) + Count(i)
               /\ SoundsBefore(i + 1) = SoundsBefore(i) + Count(i) * Lasts(i)
    <2>1. i + 1 \in Nat /\ ~(i + 1 <= 1) /\ (i + 1) - 1 = i /\ 1 \in Nat
      BY <1>1
    <2>2. /\ Total(b, 1, i + 1) = Total(b, 1, i) + b[i]
          /\ Total(s, 1, i + 1) = Total(s, 1, i) + s[i]
      BY <2>1, TotalIs
    <2> QED BY <1>3, <2>2 DEF SamplesBefore, SoundsBefore, b, s
  <1>5. Total(b, 1, 1) = 0 /\ Total(s, 1, 1) = 0
    BY TotalIs
  <1>6. 1 \in Nat /\ l \in Nat /\ \A j \in 1 .. l - 1 : b[j] \in Nat /\ s[j] \in Nat
    BY <1>1, <1>3
  <1> HIDE DEF l
  <1>7. \A i \in 1 .. l : /\ Total(b, 1, i) \in Nat
                          /\ \A j \in 1 .. i : Total(b, 1, j) <= Total(b, 1, i)
    BY <1>6, TotalGrows
  <1>8. \A i \in 1 .. l : Total(s, 1, i) \in Nat
    BY <1>6, TotalGrows
  <1>9. SamplesBefore(l) = num_sample_byte_sizes
    BY BlocksGrow DEF AlacFile, l
  <1> QED BY <1>1, <1>2, <1>4, <1>5, <1>7, <1>8, <1>9 DEF SamplesBefore, SoundsBefore, b, s, l

\* The run in which the search ends, and how far it goes into it.
LEMMA SearchIs ==
  ASSUME AlacFile, EndsIn # {}
  PROVE  LET i == Min(EndsIn) IN
         /\ i \in DOMAIN time_to_sample
         /\ Steps(i) \in 0 .. Count(i)
         /\ SoundsBefore(i) + Steps(i) * Lasts(i) <= sound_sample_loc
         /\ sound_sample_loc < SoundsBefore(i) + (Steps(i) + 1) * Lasts(i)
  <1> DEFINE i == Min(EndsIn)
             n == Len(time_to_sample)
  <1>1. n \in Nat \ {0} /\ DOMAIN time_to_sample = 1 .. n /\ sound_sample_loc \in Nat
    BY TimesGrow DEF AlacFile
  <1>2. i \in EndsIn /\ \A j \in EndsIn : i <= j
    <2>1. EndsIn \subseteq Nat
      BY <1>1 DEF EndsIn
    <2> QED BY <2>1, MinIs
  <1>3. i \in 1 .. n /\ Steps(i) <= Count(i)
    BY <1>1, <1>2 DEF EndsIn, Count
  <1> HIDE DEF i
  <1>4. SoundsBefore(i) \in Nat /\ SoundsBefore(i) <= sound_sample_loc
    <2>1. SoundsBefore(i) \in Nat
      BY <1>1, <1>3, TimesGrow
    <2>2. CASE i = 1
      BY <1>1, <2>2, TimesGrow
    <2>3. CASE i # 1
      <3> DEFINE k == i - 1
      <3>1. k \in 1 .. n /\ k + 1 = i /\ ~(i <= k)
        BY <1>1, <1>3, <2>3
      <3>2. k \notin EndsIn
        BY <1>2, <3>1
      <3>3. ~(Steps(k) <= Count(k))
        BY <1>1, <3>1, <3>2 DEF EndsIn, Count
      <3>4. /\ Count(k) \in Nat /\ Lasts(k) \in Nat \ {0} /\ SoundsBefore(k) \in Nat
            /\ SoundsBefore(i) = SoundsBefore(k) + Count(k) * Lasts(k)
        BY <1>1, <3>1, TimesGrow
      <3> HIDE DEF k
      <3> DEFINE t == sound_sample_loc - SoundsBefore(k)
      <3>5. Steps(k) = t \div Lasts(k)
        BY DEF Steps, Lasts
      <3>6. t \in Nat
        <4>1. SUFFICES ASSUME t < 0 PROVE FALSE
          BY <1>1, <3>4
        <4>2. t \in Int
          BY <1>1, <3>4
        <4> HIDE DEF t
        <4>3. t \div Lasts(k) <= 0
          BY <3>4, <4>1, <4>2
        <4>4. t \div Lasts(k) \in Int
          BY <3>4, <4>2
        <4> QED BY <3>3, <3>4, <3>5, <4>3, <4>4
      <3> HIDE DEF t
      <3> DEFINE q == t \div Lasts(k)
      <3>7. q \in Nat /\ q * Lasts(k) <= t /\ Steps(k) = q
        BY <3>4, <3>5, <3>6, Division
      <3> HIDE DEF q
      <3>8. Count(k) * Lasts(k) <= q * Lasts(k)
        <4>1. Count(k) <= q
          BY <3>3, <3>4, <3>7
        <4> QED BY <3>4, <3>7, <4>1, Monotone
      <3>9. Count(k) * Lasts(k) \in Nat /\ q * Lasts(k) \in Nat
        BY <3>4, <3>7
      <3>10. Count(k) * Lasts(k) <= t
        BY <3>6, <3>7, <3>8, <3>9
      <3> QED BY <1>1, <3>4, <3>9, <3>10 DEF t
    <2> QED BY <2>1, <2>2, <2>3
  <1> DEFINE t == sound_sample_loc - SoundsBefore(i)
             q == t \div Lasts(i)
  <1>5. t \in Nat /\ Lasts(i) \in Nat \ {0} /\ Count(i) \in Nat
    BY <1>1, <1>3, <1>4, TimesGrow
  <1>6. Steps(i) = q
    BY DEF Steps, Lasts
  <1>7. q \in Nat /\ q * Lasts(i) <= t /\ t < (q + 1) * Lasts(i)
    BY <1>5, Dividing
  <1> HIDE DEF q
  <1>8. q * Lasts(i) \in Nat /\ (q + 1) * Lasts(i) \in Nat
    BY <1>5, <1>7
  <1>9. /\ SoundsBefore(i) + q * Lasts(i) <= sound_sample_loc
        /\ sound_sample_loc < SoundsBefore(i) + (q + 1) * Lasts(i)
    BY <1>1, <1>4, <1>7, <1>8
  <1> QED BY <1>1, <1>3, <1>5, <1>6, <1>7, <1>9 DEF i

\* The search for a sound sample of the file ends in one of the runs.
LEMMA SearchEndsIn ==
  ASSUME AlacFile, sound_sample_loc < SoundSamples
  PROVE  EndsIn # {}
  <1> DEFINE n == Len(time_to_sample)
             t == sound_sample_loc - SoundsBefore(n)
  <1>1. n \in 1 .. n /\ DOMAIN time_to_sample = 1 .. n
    BY TimesGrow
  <1>2. /\ Count(n) \in Nat \ {0} /\ Lasts(n) \in Nat \ {0} /\ SoundsBefore(n) \in Nat
        /\ SoundsBefore(n + 1) = SoundsBefore(n) + Count(n) * Lasts(n)
    BY <1>1, TimesGrow
  <1>3. t \in Int /\ t < Count(n) * Lasts(n)
    <2>1. Count(n) * Lasts(n) \in Nat
      BY <1>2
    <2> QED BY <1>2, <2>1 DEF SoundSamples, AlacFile
  <1> HIDE DEF t
  <1>4. t \div Lasts(n) <= Count(n)
    <2>1. CASE t < 0
      <3>1. t \div Lasts(n) <= 0
        BY <1>2, <1>3, <2>1
      <3>2. t \div Lasts(n) \in Int
        BY <1>2, <1>3
      <3> QED BY <1>2, <3>1, <3>2
    <2>2. CASE t >= 0
      <3>1. t \in Nat
        BY <1>3, <2>2
      <3>2. t \div Lasts(n) < Count(n)
        BY <1>2, <1>3, <3>1, QuotientBelow
      <3>3. t \div Lasts(n) \in Int
        BY <1>2, <1>3
      <3> QED BY <1>2, <3>2, <3>3
    <2> QED BY <1>3, <2>1, <2>2
  <1>5. n \in EndsIn
    BY <1>1, <1>4 DEF EndsIn, Steps, Count, Lasts, t
  <1> QED BY <1>5

\* The run with a block.
LEMMA TrueRunIs ==
  ASSUME AlacFile, NEW i \in 1 .. Len(time_to_sample), NEW s \in Nat,
         SamplesBefore(i) <= s, s < SamplesBefore(i + 1)
  PROVE  TrueRun(s) = i
  <1> DEFINE n == Len(time_to_sample)
             T == {j \in DOMAIN time_to_sample : SamplesBefore(j) <= s}
             m == Max(T)
  <1>1. n \in Nat /\ DOMAIN time_to_sample = 1 .. n
    BY TimesGrow
  <1>2. i \in T /\ T \subseteq Nat /\ i \in Nat
    BY <1>1
  <1>3. \A j \in T : j <= i
    <2>1. SUFFICES ASSUME NEW j \in T, i + 1 <= j PROVE FALSE
      BY <1>1
    <2>2. j \in 1 .. n + 1 /\ i + 1 \in 1 .. j /\ i + 1 \in 1 .. n + 1 /\ SamplesBefore(j) <= s
      BY <1>1, <2>1
    <2>3. /\ SamplesBefore(i + 1) <= SamplesBefore(j)
          /\ SamplesBefore(j) \in Nat /\ SamplesBefore(i + 1) \in Nat
      BY <2>2, TimesGrow
    <2> QED BY <2>2, <2>3
  <1>4. TrueRun(s) = m
    BY DEF TrueRun
  <1> HIDE DEF T
  <1>5. m \in T /\ \A j \in T : j <= m
    BY <1>2, <1>3, MaxIs
  <1>6. m \in Nat /\ m <= i /\ i <= m
    BY <1>2, <1>3, <1>5
  <1> HIDE DEF m
  <1> QED BY <1>2, <1>4, <1>6

\* The block that alac_seek plays first begins when it says, and holds the sound sample
\* in a plain file.
THEOREM BeginsOnTime ==
  ASSUME AlacFile, sound_sample_loc < SoundSamples
  PROVE  LET i == Min(EndsIn)
             s == SamplesBefore(i) + Steps(i)
             a == SoundsBefore(i) + Steps(i) * Lasts(i)
         IN  /\ s \in Nat /\ s < num_sample_byte_sizes
             /\ a = TrueStart(s) /\ a <= sound_sample_loc
             /\ Plain => sound_sample_loc < a + Lasts(TrueRun(s))
  <1> DEFINE n == Len(time_to_sample)
             i == Min(EndsIn)
             s == SamplesBefore(i) + Steps(i)
             a == SoundsBefore(i) + Steps(i) * Lasts(i)
  <1>1. /\ n \in Nat \ {0} /\ DOMAIN time_to_sample = 1 .. n
        /\ sound_sample_loc \in Nat /\ num_sample_byte_sizes \in Nat
    BY TimesGrow, BlocksGrow DEF AlacFile
  <1>2. /\ i \in 1 .. n /\ Steps(i) \in 0 .. Count(i)
        /\ a <= sound_sample_loc
        /\ sound_sample_loc < SoundsBefore(i) + (Steps(i) + 1) * Lasts(i)
    BY <1>1, SearchEndsIn, SearchIs
  <1> HIDE DEF i
  <1>3. /\ Count(i) \in Nat \ {0} /\ Lasts(i) \in Nat \ {0}
        /\ SamplesBefore(i) \in Nat /\ SoundsBefore(i) \in Nat
        /\ SamplesBefore(i + 1) = SamplesBefore(i) + Count(i)
        /\ SoundsBefore(i + 1) = SoundsBefore(i) + Count(i) * Lasts(i)
    BY <1>1, <1>2, TimesGrow
  <1>4. SamplesBefore(i + 1) <= num_sample_byte_sizes
    <2>1. n + 1 \in 1 .. n + 1 /\ i + 1 \in 1 .. n + 1
      BY <1>1, <1>2
    <2> QED BY <2>1, TimesGrow
  <1>5. (Steps(i) + 1) * Lasts(i) = Steps(i) * Lasts(i) + Lasts(i) /\ Steps(i) * Lasts(i) \in Nat
    BY <1>2, <1>3
  <1>6. \A r : TrueStart(r) = SoundsBefore(TrueRun(r))
                              + (r - SamplesBefore(TrueRun(r))) * Lasts(TrueRun(r))
    BY DEF TrueStart, Lasts
  <1>7. CASE Steps(i) < Count(i)
    <2>1. s \in Nat /\ SamplesBefore(i) <= s /\ s < SamplesBefore(i + 1)
      BY <1>2, <1>3, <1>7
    <2>2. TrueRun(s) = i
      BY <1>2, <2>1, TrueRunIs
    <2>3. s < num_sample_byte_sizes
      BY <1>1, <1>2, <1>3, <1>4, <2>1
    <2>4. s - SamplesBefore(i) = Steps(i)
      BY <1>2, <1>3
    <2>5. a = TrueStart(s)
      BY <1>6, <2>2, <2>4
    <2>6. sound_sample_loc < a + Lasts(TrueRun(s))
      BY <1>1, <1>2, <1>3, <1>5, <2>2
    <2> QED BY <1>2, <2>1, <2>3, <2>5, <2>6 DEF i
  <1>8. CASE Steps(i) = Count(i)
    <2> DEFINE k == i + 1
    <2>1. s = SamplesBefore(k) /\ a = SoundsBefore(k)
      BY <1>3, <1>8
    <2>2. k \in 1 .. n /\ k \in Nat
      <3>1. n \in Nat /\ i \in 1 .. n
        BY <1>1, <1>2
      <3>2. ASSUME i = n PROVE FALSE
        <4>1. SoundSamples = SoundsBefore(k)
          BY <3>2 DEF SoundSamples
        <4>2. SoundsBefore(k) \in Nat
          BY <1>2, <1>3, <1>5, <1>8, <2>1
        <4> QED BY <1>1, <1>2, <2>1, <4>1, <4>2
      <3> HIDE DEF n
      <3> QED BY <3>1, <3>2
    <2>3. /\ Count(k) \in Nat \ {0} /\ Lasts(k) \in Nat \ {0}
          /\ SamplesBefore(k) \in Nat /\ SoundsBefore(k) \in Nat
          /\ SamplesBefore(k + 1) = SamplesBefore(k) + Count(k)
          /\ SoundsBefore(k + 1) = SoundsBefore(k) + Count(k) * Lasts(k)
          /\ SamplesBefore(k + 1) <= num_sample_byte_sizes
      BY <1>1, <2>2, TimesGrow
    <2> HIDE DEF k
    <2>4. TrueRun(s) = k
      BY <2>1, <2>2, <2>3, TrueRunIs
    <2>5. s \in Nat /\ s < num_sample_byte_sizes
      BY <1>1, <2>1, <2>3
    <2>6. a = TrueStart(s)
      <3>1. (s - SamplesBefore(k)) * Lasts(k) = 0
        BY <2>1, <2>3
      <3>2. TrueStart(s) = SoundsBefore(k) + (s - SamplesBefore(k)) * Lasts(k)
        BY <1>6, <2>4
      <3> HIDE DEF s, a
      <3> QED BY <2>1, <2>3, <3>1, <3>2
    <2>7. sound_sample_loc < SoundsBefore(k) + Lasts(i)
      BY <1>1, <1>2, <1>3, <1>5, <2>1, <2>3
    <2>8. ASSUME Plain PROVE sound_sample_loc < a + Lasts(TrueRun(s))
      <3> DEFINE b == SamplesBefore(i)
                 d(q) == Lasts(TrueRun(q))
      <3>1. b \in Nat /\ b < s /\ TrueRun(b) = i
        <4>1. b \in Nat /\ b < SamplesBefore(i + 1) /\ b <= b
          BY <1>3
        <4> QED BY <1>2, <1>3, <2>1, <4>1, TrueRunIs DEF k
      <3> HIDE DEF b
      <3>2. DOMAIN sample_byte_size = 0 .. num_sample_byte_sizes - 1
        BY BlocksGrow DEF AlacFile
      <3>3. \A p, r \in 0 .. num_sample_byte_sizes - 1 : p < r => d(p) = d(0) /\ d(r) <= d(0)
        BY <2>8, <3>2 DEF Plain, Lasts
      <3> HIDE DEF s, a
      <3>4. CASE s < num_sample_byte_sizes - 1
        <4> DEFINE e == num_sample_byte_sizes - 1
        <4>1. b \in 0 .. e /\ s \in 0 .. e /\ e \in 0 .. e /\ s < e
          BY <1>1, <2>5, <3>1, <3>4
        <4>2. d(s) = d(0) /\ d(b) = d(0)
          BY <3>1, <3>3, <4>1
        <4>3. Lasts(k) = Lasts(i)
          BY <2>4, <3>1, <4>2
        <4> QED BY <2>1, <2>4, <2>7, <4>3
      <3>5. CASE ~(s < num_sample_byte_sizes - 1)
        <4>1. Count(k) = 1 /\ SamplesBefore(k + 1) = num_sample_byte_sizes
          BY <1>1, <2>1, <2>3, <2>5, <3>5
        <4>2. k = n
          <5> SUFFICES ASSUME k # n PROVE FALSE
            OBVIOUS
          <5>1. k + 1 \in 1 .. n
            <6>1. n \in Nat
              BY <1>1
            <6> HIDE DEF n
            <6> QED BY <2>2, <6>1
          <5>2. /\ Count(k + 1) \in Nat \ {0}
                /\ SamplesBefore((k + 1) + 1) = SamplesBefore(k + 1) + Count(k + 1)
            BY <5>1, TimesGrow
          <5>3. (k + 1) + 1 \in 1 .. n + 1 /\ n + 1 \in 1 .. n + 1
            <6>1. n \in Nat
              BY <1>1
            <6> HIDE DEF n
            <6> QED BY <2>2, <5>1, <6>1
          <5>4. SamplesBefore((k + 1) + 1) <= num_sample_byte_sizes
            BY <5>3, TimesGrow
          <5> QED BY <1>1, <4>1, <5>2, <5>4
        <4>3. SoundSamples = SoundsBefore(k) + Lasts(k)
          BY <2>3, <4>1, <4>2 DEF SoundSamples
        <4> QED BY <2>1, <2>4, <4>3
      <3> QED BY <3>4, <3>5
    <2> HIDE DEF s, a
    <2> QED BY <1>2, <2>5, <2>6, <2>8 DEF i, s, a
  <1> QED BY <1>2, <1>3, <1>7, <1>8

\* The tables of the file, and the two results of the search.
AlacInv ==
    /\ AlacFile
    /\ alacPhase \in {"call", "play"}
    /\ AlacOffset /\ AlacOnTime

\* All that is said of the tables stays as long as they do.
LEMMA TablesKept ==
  ASSUME UNCHANGED tables
  PROVE  /\ AlacFile' = AlacFile /\ Plain' = Plain
         /\ SoundSamples' = SoundSamples /\ num_sample_byte_sizes' = num_sample_byte_sizes
         /\ TrueOffset(current_sample)' = TrueOffset(current_sample')
         /\ TrueStart(current_sample)' = TrueStart(current_sample')
         /\ TrueRun(current_sample)' = TrueRun(current_sample')
  <1>1. /\ time_to_sample' = time_to_sample /\ sample_byte_size' = sample_byte_size
        /\ chunks' = chunks /\ sample_to_chunk' = sample_to_chunk
        /\ sound_sample_loc' = sound_sample_loc
    BY DEF tables
  <1>2. AlacFile' = AlacFile
    BY <1>1 DEF AlacFile, RunsOfChunks, First, InRun, BlocksBefore, SamplesBefore, Blocks
  <1>3. TrueRun(current_sample)' = TrueRun(current_sample')
    BY <1>1 DEF TrueRun, SamplesBefore, Blocks
  <1>4. TrueStart(current_sample)' = TrueStart(current_sample')
    BY <1>1 DEF TrueStart, TrueRun, SamplesBefore, SoundsBefore, Blocks, Sounds
  <1>5. Plain' = Plain
    BY <1>1 DEF Plain, TrueRun, SamplesBefore, Blocks
  <1>6. SoundSamples' = SoundSamples /\ num_sample_byte_sizes' = num_sample_byte_sizes
    BY <1>1 DEF SoundSamples, SoundsBefore, Sounds, num_sample_byte_sizes
  <1>7. TrueOffset(current_sample)' = TrueOffset(current_sample')
    BY <1>1 DEF TrueOffset, BlocksBefore, chunk_offset
  <1> QED BY <1>2, <1>3, <1>4, <1>5, <1>6, <1>7

\* The search, when it is called.
LEMMA AlacStep ==
  ASSUME AlacInv, alac_seek
  PROVE  AlacInv'
  <1>1. /\ AlacFile /\ UNCHANGED tables /\ alacPhase' = "play"
        /\ offset' = get_sample_offset(current_sample')
    BY DEF AlacInv, alac_seek
  <1>2. /\ AlacFile' /\ Plain' = Plain /\ sound_sample_loc' = sound_sample_loc
        /\ SoundSamples' = SoundSamples /\ num_sample_byte_sizes' = num_sample_byte_sizes
        /\ TrueOffset(current_sample)' = TrueOffset(current_sample')
        /\ TrueStart(current_sample)' = TrueStart(current_sample')
        /\ time_to_sample' = time_to_sample
        /\ TrueRun(current_sample)' = TrueRun(current_sample')
    BY <1>1, TablesKept DEF tables
  <1> DEFINE i == Min(EndsIn)
             s == SamplesBefore(i) + Steps(i)
             a == SoundsBefore(i) + Steps(i) * Lasts(i)
  <1>3. CASE EndsIn = {}
    <2>1. current_sample' = num_sample_byte_sizes /\ num_sample_byte_sizes \in Nat
      BY <1>3, BlocksGrow, <1>1 DEF alac_seek
    <2>2. ~(current_sample' < num_sample_byte_sizes)
      BY <2>1
    <2>3. ~(sound_sample_loc < SoundSamples)
      BY <1>1, <1>3, SearchEndsIn
    <2>4. AlacOffset'
      BY <1>2, <2>2 DEF AlacOffset
    <2>5. AlacOnTime'
      BY <1>2, <2>3 DEF AlacOnTime
    <2> QED BY <1>1, <1>2, <2>4, <2>5 DEF AlacInv
  <1>4. CASE EndsIn # {}
    <2>1. current_sample' = s /\ sound_samples_done' = a
      BY <1>4 DEF alac_seek, Lasts
    <2>2. s \in Nat
      <3>1. i \in 1 .. Len(time_to_sample) /\ Steps(i) \in Nat
        <4>1. i \in DOMAIN time_to_sample /\ Steps(i) \in 0 .. Count(i)
          BY <1>1, <1>4, SearchIs
        <4> HIDE DEF i
        <4> QED BY <1>1, <4>1, TimesGrow
      <3> HIDE DEF i
      <3>2. SamplesBefore(i) \in Nat
        BY <1>1, <3>1, TimesGrow
      <3> QED BY <3>1, <3>2
    <2>3. AlacOffset'
      <3>1. CASE s < num_sample_byte_sizes
        <4>1. s \in 0 .. num_sample_byte_sizes - 1
          BY <1>1, <2>2, <3>1, BlocksGrow
        <4> HIDE DEF s
        <4>2. offset' = TrueOffset(current_sample')
          BY <1>1, <2>1, <4>1, OffsetIs
        <4> QED BY <1>2, <4>2 DEF AlacOffset
      <3>2. CASE ~(s < num_sample_byte_sizes)
        BY <1>2, <2>1, <3>2 DEF AlacOffset
      <3> QED BY <3>1, <3>2
    <2>4. AlacOnTime'
      <3>1. CASE sound_sample_loc < SoundSamples
        <4>1. /\ s < num_sample_byte_sizes
              /\ a = TrueStart(s) /\ a <= sound_sample_loc
              /\ Plain => sound_sample_loc < a + Lasts(TrueRun(s))
          BY <1>1, <3>1, BeginsOnTime
        <4> HIDE DEF s, a
        <4> QED BY <1>2, <2>1, <4>1 DEF AlacOnTime, Lasts
      <3>2. CASE ~(sound_sample_loc < SoundSamples)
        BY <1>2, <3>2 DEF AlacOnTime
      <3> QED BY <3>1, <3>2
    <2> QED BY <1>1, <1>2, <2>3, <2>4 DEF AlacInv
  <1> QED BY <1>3, <1>4

\* Nothing else touches what it keeps.
LEMMA AlacStays ==
  ASSUME AlacInv, UNCHANGED alacVars
  PROVE  AlacInv'
  <1>1. /\ UNCHANGED tables /\ alacPhase' = alacPhase /\ current_sample' = current_sample
        /\ sound_samples_done' = sound_samples_done /\ offset' = offset
    BY DEF alacVars
  <1>2. /\ AlacFile' /\ Plain' = Plain /\ sound_sample_loc' = sound_sample_loc
        /\ SoundSamples' = SoundSamples /\ num_sample_byte_sizes' = num_sample_byte_sizes
        /\ TrueOffset(current_sample)' = TrueOffset(current_sample)
        /\ TrueStart(current_sample)' = TrueStart(current_sample)
        /\ time_to_sample' = time_to_sample
        /\ TrueRun(current_sample)' = TrueRun(current_sample)
    BY <1>1, TablesKept DEF AlacInv, tables
  <1>3. AlacOffset'
    BY <1>1, <1>2 DEF AlacInv, AlacOffset
  <1>4. AlacOnTime'
    BY <1>1, <1>2 DEF AlacInv, AlacOnTime
  <1> QED BY <1>1, <1>2, <1>3, <1>4 DEF AlacInv
============================================================================
