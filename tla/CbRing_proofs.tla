--------------------------- MODULE CbRing_proofs ---------------------------
(***************************************************************************)
(* Proofs about the callback ring, for every buffer size and every set of  *)
(* write and request sizes.                                                *)
(***************************************************************************)
EXTENDS CbRing, TLAPS

USE BufSizeAssumption, SizesAssumption, SwitchAssumption, BoundAssumption

(***************************************************************************)
(* The operators of the ring.                                              *)
(***************************************************************************)

\* A position advanced by at most the size of the ring stays in the ring.
LEMMA AdvanceInSlots ==
    ASSUME NEW p \in Slots, NEW n \in 0 .. BufSize
    PROVE  Advance(p, n) \in Slots
BY DEF Advance, Slots

\* Moving on in two parts is moving on at once.
LEMMA AdvanceAdd ==
    ASSUME NEW p \in Slots, NEW m \in 0 .. BufSize, NEW n \in 0 .. BufSize,
           m + n <= BufSize
    PROVE  Advance(Advance(p, m), n) = Advance(p, m + n)
BY DEF Advance, Slots

\* Offset is the inverse of Advance.
LEMMA OffsetAdvance ==
    ASSUME NEW p \in Slots, NEW m \in 0 .. (BufSize - 1), NEW n \in 0 .. (BufSize - 1)
    PROVE  /\ Offset(p, Advance(p, n)) = n
           /\ m <= n => Offset(Advance(p, m), Advance(p, n)) = n - m
           /\ n < m => Offset(Advance(p, m), Advance(p, n)) = BufSize - (m - n)
BY DEF Advance, Offset, Slots

\* What get_free_bytes computes when k bytes, and never BufSize, are in the ring.
LEMMA FreeBytes ==
    ASSUME NEW k \in 0 .. (BufSize - 1), cbstart \in Slots, cbend = Advance(cbstart, k)
    PROVE  get_free_bytes = BufSize - k
BY DEF get_free_bytes, Advance, Slots

(***************************************************************************)
(* Types.  A callback that copies found the ring not stopped, because a    *)
(* stop needs cbmutex, and chose a size the ring can hold.                 *)
(***************************************************************************)
CopyOK ==
    /\ cb = "called" => size > 0
    /\ cb = "copy" => cbstart >= 0 /\ size \in 1 .. BufSize

TypeInv == TypeOK /\ CopyOK

LEMMA TypeInit == Init => TypeInv
<1> SUFFICES ASSUME Init PROVE TypeInv
  OBVIOUS
<1>1. reply \in [size : Nat, bytes : Seq(Nat)]
  BY DEF Init
<1>2. torn \in BOOLEAN
  BY DEF Init
<1>3. cbbuf \in [Slots -> Nat]
  BY DEF Init
<1> QED
  BY <1>1, <1>2, <1>3 DEF Init, TypeInv, TypeOK, CopyOK, Slots, StartSteps, WriteSteps, DrainSteps

LEMMA TypeNext == TypeInv /\ [Next]_vars => TypeInv'
<1> SUFFICES ASSUME TypeInv, [Next]_vars PROVE TypeInv'
  OBVIOUS
<1> USE DEF TypeInv, TypeOK, CopyOK, ring, Slots, StartSteps, WriteSteps, DrainSteps
<1>1. ASSUME NEW p \in {"fresh", "same", "reconfigure"}, StartCall(p) PROVE TypeInv'
  BY <1>1 DEF StartCall
<1>2. CASE ResetStart
  BY <1>2 DEF ResetStart
<1>3. CASE ResetEnd
  BY <1>3 DEF ResetEnd, Resetting
<1>4. CASE StopTrack
  BY <1>4 DEF StopTrack
<1>5. CASE StartTrack \/ StartFails
  BY <1>5 DEF StartTrack, StartFails
<1>6. ASSUME NEW n \in WriteSizes, WriteCall(n) PROVE TypeInv'
  BY <1>6 DEF WriteCall
<1>7. CASE WriteWaits \/ WriteStopped
  BY <1>7 DEF WriteWaits, WriteStopped
<1>8. CASE WriteCopies
  <2>1. cbend' \in Slots
    BY <1>8, AdvanceInSlots DEF WriteCopies
  <2>2. cbbuf' \in [Slots -> Nat]
    BY <1>8 DEF WriteCopies, Stored, Offset
  <2> QED
    BY <1>8, <2>1, <2>2 DEF WriteCopies
<1>9. CASE DrainCall \/ DrainLock \/ DrainReturns
  BY <1>9 DEF DrainCall, DrainLock, DrainReturns
<1>10. CASE DecodeFails \/ SpuriousWakeup
  BY <1>10 DEF DecodeFails, SpuriousWakeup
<1>11. ASSUME NEW n \in AskSizes, CbCall(n) PROVE TypeInv'
  <2>1. n \in Nat \ {0}
    BY <1>11
  <2> QED
    BY <1>11, <2>1 DEF CbCall
<1>12. CASE CbStopped \/ CbEmpty
  <2>1. reply' \in [size : Nat, bytes : Seq(Nat)]
    <3>1. <<>> \in Seq(Nat) /\ size \in Nat
      OBVIOUS
    <3>2. \E n \in Nat : reply' = [size |-> n, bytes |-> <<>>]
      BY <1>12, <3>1 DEF CbStopped, CbEmpty
    <3> HIDE DEF TypeInv, TypeOK, CopyOK
    <3> QED
      BY <3>1, <3>2
  <2> QED
    BY <1>12, <2>1 DEF CbStopped, CbEmpty, SignalDone
<1>13. CASE CbTakes
  BY <1>13 DEF CbTakes, Available, get_free_bytes, Resetting
<1>14. CASE CbCopies
  <2>1. cbstart' \in Slots
    BY <1>14, AdvanceInSlots DEF CbCopies
  <2>2. Fetched(size) \in Seq(Nat)
    <3>1. size \in Nat /\ cbstart \in Slots /\ size <= BufSize
      BY <1>14 DEF CbCopies
    <3>2. ASSUME NEW i \in 1 .. size PROVE cbbuf[Advance(cbstart, i - 1)] \in Nat
      <4>1. i - 1 \in 0 .. BufSize
        BY <3>1, <3>2
      <4>2. Advance(cbstart, i - 1) \in Slots
        BY <3>1, <4>1, AdvanceInSlots
      <4> QED
        BY <4>2
    <3> HIDE DEF TypeInv, TypeOK, CopyOK, Slots
    <3> QED
      BY <3>1, <3>2 DEF Fetched
  <2>3. reply' \in [size : Nat, bytes : Seq(Nat)]
    BY <1>14, <2>2 DEF CbCopies
  <2> QED
    BY <1>14, <2>1, <2>3 DEF CbCopies, SignalCond, Open, Resetting
<1>15. CASE StopMark
  BY <1>15 DEF StopMark, SignalCond, MutexFree
<1>16. CASE StopPause \/ libmedia_pause \/ libmedia_resume
  <2>1. UNCHANGED <<ring, dec, path, count, cb, size, reply, sent, played, torn, starts>>
    BY <1>16 DEF StopPause, libmedia_pause, libmedia_resume
  <2>2. track' \in {"active", "halted"} /\ stp' \in {"idle", "pause"}
    BY <1>16 DEF StopPause, libmedia_pause, libmedia_resume
  <2> QED
    BY <2>1, <2>2
<1>17. CASE UNCHANGED vars
  BY <1>17 DEF vars
<1> QED
  BY <1>1, <1>2, <1>3, <1>4, <1>5, <1>6, <1>7, <1>8, <1>9, <1>10, <1>11, <1>12,
     <1>13, <1>14, <1>15, <1>16, <1>17
  DEF Next, libmediacb_start, libmediacb_write, libmediacb_wait_done, cbf, libmediacb_stop

\* Every variable of the ring keeps its type: the positions stay inside cbbuf
\* whatever is written or asked for and whenever the ring is reset.
THEOREM TypeCorrect == Spec => []TypeOK
<1>1. TypeInv => TypeOK
  BY DEF TypeInv
<1> QED
  BY TypeInit, TypeNext, <1>1, PTL DEF Spec

(***************************************************************************)
(* The contents of the ring.  Between the stores of a reset it may hold    *)
(* anything; what makes it right again at the end is that no callback was  *)
(* in its section since the first store, or that it left its mark (torn).  *)
(* Then cbstart is still 0, unless a stop has come, and the second store   *)
(* leaves the ring empty.                                                  *)
(***************************************************************************)
CopyIsUnplayed == cb = "copy" /\ Open => size <= sent - played

Whole ==
    Resetting =>
      /\ played = sent
      /\ ~torn /\ cbstart >= 0 => cbstart = 0 /\ cb # "copy"

RingInv == RingHoldsUnplayed /\ CopyIsUnplayed /\ Whole

LEMMA RingInit == Init => RingInv
BY DEF Init, RingInv, RingHoldsUnplayed, CopyIsUnplayed, Whole, Slots, Advance, Open,
       Resetting

\* libmediacb_write appends: the old bytes stay and the new ones follow them.
LEMMA WriteKeepsRing ==
    ASSUME TypeInv, RingInv, WriteCopies, Open
    PROVE  RingHoldsUnplayed'
<1> DEFINE k == sent - played
<1> USE DEF TypeInv, TypeOK
<1>1. Open /\ Open' /\ cbstart \in Slots
  BY DEF WriteCopies, Open, Resetting, Slots
<1>2. k \in 0 .. (BufSize - 1) /\ cbend = Advance(cbstart, k)
  BY <1>1 DEF RingInv, RingHoldsUnplayed
<1>3. k + count < BufSize
  BY <1>1, <1>2, FreeBytes DEF WriteCopies, NoRoom
<1>4. cbend' = Advance(cbstart, k + count)
  BY <1>1, <1>2, <1>3, AdvanceAdd DEF WriteCopies
<1>5. ASSUME NEW i \in Slots, i < k + count
      PROVE  cbbuf'[Advance(cbstart, i)] = played + i + 1
  <2>1. Advance(cbstart, i) \in Slots
    <3> i \in 0 .. BufSize
      BY <1>5 DEF Slots
    <3> QED
      BY <1>1, AdvanceInSlots
  <2>2. cbbuf'[Advance(cbstart, i)] =
          IF Offset(cbend, Advance(cbstart, i)) < count
          THEN sent + Offset(cbend, Advance(cbstart, i)) + 1
          ELSE cbbuf[Advance(cbstart, i)]
    <3> DEFINE a == Advance(cbstart, i)
    <3>1. cbbuf' = Stored(count)
      BY DEF WriteCopies
    <3>2. a \in Slots
      BY <2>1
    <3> HIDE DEF a
    <3>3. cbbuf'[a] = IF Offset(cbend, a) < count THEN sent + Offset(cbend, a) + 1 ELSE cbbuf[a]
      BY <3>1, <3>2 DEF Stored
    <3> QED
      BY <3>3 DEF a
  <2>3. CASE i < k
    <3>1. Offset(cbend, Advance(cbstart, i)) = BufSize - (k - i)
      BY <1>1, <1>2, <2>3, OffsetAdvance DEF Slots
    <3>2. cbbuf[Advance(cbstart, i)] = played + i + 1
      BY <1>1, <2>3 DEF RingInv, RingHoldsUnplayed
    <3> QED
      BY <1>2, <1>3, <2>2, <2>3, <3>1, <3>2 DEF Slots
  <2>4. CASE i >= k
    <3>1. Offset(cbend, Advance(cbstart, i)) = i - k
      BY <1>1, <1>2, <2>4, OffsetAdvance DEF Slots
    <3> QED
      BY <1>2, <1>3, <1>5, <2>2, <2>4, <3>1 DEF Slots
  <2> QED
    BY <2>3, <2>4, <1>2 DEF Slots
<1>6. cbstart' = cbstart /\ played' = played /\ sent' - played' = k + count /\ played' <= sent'
  BY <1>1, <1>2 DEF WriteCopies, RingInv, RingHoldsUnplayed
<1> QED
  BY <1>3, <1>4, <1>5, <1>6 DEF RingHoldsUnplayed, Advance

\* cbf removes from the front: what is left moves up by what was taken.
LEMMA FetchKeepsRing ==
    ASSUME TypeInv, RingInv, CbCopies, Open
    PROVE  RingHoldsUnplayed'
<1> DEFINE k == sent - played
<1> USE DEF TypeInv, TypeOK
<1>1. cbstart \in Slots /\ ~Resetting
  BY DEF Open, Slots
<1>2. /\ k \in 0 .. (BufSize - 1) /\ cbend = Advance(cbstart, k)
      /\ size \in 1 .. k
      /\ \A i \in Slots : i < k => cbbuf[Advance(cbstart, i)] = played + i + 1
  BY DEF RingInv, RingHoldsUnplayed, CopyIsUnplayed, CopyOK, CbCopies
<1>3. /\ cbstart' = Advance(cbstart, size) /\ cbend' = cbend /\ cbbuf' = cbbuf
      /\ sent' - played' = k - size /\ played' = played + size /\ played' <= sent'
  BY <1>1, <1>2 DEF CbCopies, ring
<1>4. cbend = Advance(cbstart', k - size)
  BY <1>1, <1>2, <1>3, AdvanceAdd
<1>5. ASSUME NEW i \in Slots, i < k - size
      PROVE  cbbuf[Advance(cbstart', i)] = played + size + i + 1
  <2>1. Advance(cbstart', i) = Advance(cbstart, size + i)
    BY <1>1, <1>2, <1>3, <1>5, AdvanceAdd DEF Slots
  <2>2. size + i \in Slots /\ size + i < k
    BY <1>2, <1>5 DEF Slots
  <2>3. cbbuf[Advance(cbstart, size + i)] = played + (size + i) + 1
    BY <1>2, <2>2
  <2> QED
    BY <2>1, <2>3, <1>2 DEF Slots
<1> QED
  BY <1>2, <1>3, <1>4, <1>5 DEF RingHoldsUnplayed, Advance

\* A step of anybody keeps the ring right.
LEMMA RingNext == TypeInv /\ RingInv /\ [Next]_vars => RingInv'
<1> SUFFICES ASSUME TypeInv, RingInv, [Next]_vars PROVE RingInv'
  OBVIOUS
<1>t. TypeOK /\ CopyOK
  BY DEF TypeInv
<1> USE DEF RingInv, CopyIsUnplayed, Whole, Open, Resetting
<1>1. ASSUME NEW p \in {"fresh", "same", "reconfigure"}, StartCall(p) PROVE RingInv'
  BY <1>1, <1>t DEF StartCall, TypeOK, ring, RingHoldsUnplayed, Advance
<1>2. CASE ResetStart
  BY <1>2, <1>t DEF ResetStart, TypeOK, RingHoldsUnplayed, Advance
<1>3. CASE ResetEnd
  <2>1. ~Resetting' /\ cbend' = 0 /\ UNCHANGED <<cbstart, cb, size, sent, played, torn>>
    BY <1>3 DEF ResetEnd
  <2>2. Open' => cbstart = 0 /\ cb # "copy" /\ played = sent /\ sent \in Nat
    BY <1>3, <1>t, <2>1 DEF ResetEnd, TypeOK
  <2>3. RingHoldsUnplayed'
    BY <2>1, <2>2 DEF RingHoldsUnplayed, Advance, Slots
  <2> QED
    BY <2>1, <2>2, <2>3
<1>4. CASE StopTrack
  BY <1>4, <1>t DEF StopTrack, TypeOK, ring, RingHoldsUnplayed, Advance
<1>5. CASE StartTrack \/ StartFails
  BY <1>5, <1>t DEF StartTrack, StartFails, TypeOK, ring, RingHoldsUnplayed, Advance, Slots
<1>6. ASSUME NEW n \in WriteSizes, WriteCall(n) PROVE RingInv'
  BY <1>6, <1>t DEF WriteCall, TypeOK, ring, RingHoldsUnplayed, Advance
<1>7. CASE WriteWaits \/ WriteStopped
  BY <1>7, <1>t DEF WriteWaits, WriteStopped, TypeOK, ring, RingHoldsUnplayed, Advance
<1>8. CASE WriteCopies
  <2>1. CASE Open
    <3>1. RingHoldsUnplayed'
      BY <1>8, <2>1, WriteKeepsRing
    <3> QED
      BY <1>8, <3>1, <1>t DEF WriteCopies, TypeOK, MutexFree
  <2>2. CASE ~Open
    BY <1>8, <2>2, <1>t DEF WriteCopies, TypeOK, RingHoldsUnplayed
  <2> QED
    BY <2>1, <2>2
<1>9. CASE DrainCall \/ DrainLock \/ DrainReturns
  BY <1>9, <1>t DEF DrainCall, DrainLock, DrainReturns, TypeOK, ring, RingHoldsUnplayed, Advance
<1>10. CASE DecodeFails \/ SpuriousWakeup
  BY <1>10, <1>t DEF DecodeFails, SpuriousWakeup, TypeOK, ring, RingHoldsUnplayed, Advance
<1>11. ASSUME NEW n \in AskSizes, CbCall(n) PROVE RingInv'
  BY <1>11, <1>t DEF CbCall, TypeOK, ring, RingHoldsUnplayed, Advance
<1>12. CASE CbStopped \/ CbEmpty
  BY <1>12, <1>t DEF CbStopped, CbEmpty, SignalDone, TypeOK, ring, RingHoldsUnplayed, Advance
<1>13. CASE CbTakes
  <2>1. RingHoldsUnplayed'
    BY <1>13 DEF CbTakes, ring, RingHoldsUnplayed, Advance
  <2>2. Open => Available = sent - played
    BY <1>t, FreeBytes DEF Available, RingHoldsUnplayed, TypeOK, Slots
  <2>3. CopyIsUnplayed'
    BY <1>13, <1>t, <2>2 DEF CbTakes, ring, TypeOK, RingHoldsUnplayed
  <2> QED
    BY <1>13, <2>1, <2>3 DEF CbTakes, ring
<1>14. CASE CbCopies
  <2>1. CASE Open
    <3>1. RingHoldsUnplayed'
      BY <1>14, <2>1, FetchKeepsRing
    <3> QED
      BY <1>14, <1>t, <2>1, <3>1 DEF CbCopies, SignalCond, TypeOK
  <2>2. CASE ~Open
    <3>1. torn' /\ played' = played
      BY <1>14, <1>t, <2>2 DEF CbCopies, CopyOK
    <3> QED
      BY <1>14, <1>t, <3>1 DEF CbCopies, SignalCond, TypeOK, RingHoldsUnplayed
  <2> QED
    BY <2>1, <2>2
<1>15. CASE StopMark
  BY <1>15, <1>t DEF StopMark, SignalCond, TypeOK, RingHoldsUnplayed
<1>16. CASE StopPause \/ libmedia_pause \/ libmedia_resume
  BY <1>16, <1>t DEF StopPause, libmedia_pause, libmedia_resume, TypeOK, ring,
                 RingHoldsUnplayed, Advance
<1>17. CASE UNCHANGED vars
  BY <1>17 DEF vars, RingHoldsUnplayed, Advance
<1> QED
  BY <1>1, <1>2, <1>3, <1>4, <1>5, <1>6, <1>7, <1>8, <1>9, <1>10, <1>11, <1>12,
     <1>13, <1>14, <1>15, <1>16, <1>17
  DEF Next, libmediacb_start, libmediacb_write, libmediacb_wait_done, cbf, libmediacb_stop

LEMMA RingAlways == Spec => [](TypeInv /\ RingInv)
BY TypeInit, TypeNext, RingInit, RingNext, PTL DEF Spec

\* An open ring holds exactly the bytes written and not played, in order, and is
\* never filled to the byte that would make it look empty, whenever it is stopped,
\* paused, resumed or reset; a ring is open unless it was stopped or is being reset,
\* or a callback was in its section between the two stores of its last reset.
THEOREM RingCorrect == Spec => []RingHoldsUnplayed
<1>1. RingInv => RingHoldsUnplayed
  BY DEF RingInv
<1> QED
  BY RingAlways, <1>1, PTL

(***************************************************************************)
(* The wait for room.                                                      *)
(***************************************************************************)

\* The ring is what the wait is about: a step that leaves it alone and does not
\* begin a wait keeps what is said of one.
LEMMA WaitKept ==
    ASSUME WaitIsServed, UNCHANGED <<cbstart, cbend, count>>,
           dec' = "wwait" => dec = "wwait"
    PROVE  WaitIsServed'
BY DEF WaitIsServed, NoRoom, Available, get_free_bytes

LEMMA WaitNext ==
    ASSUME TypeInv, WaitIsServed, [Next]_vars
    PROVE  WaitIsServed'
<1> USE DEF ring
<1>1. ASSUME NEW p \in {"fresh", "same", "reconfigure"}, StartCall(p) PROVE WaitIsServed'
  BY <1>1, WaitKept DEF StartCall
<1>2. CASE ResetStart \/ ResetEnd \/ StopTrack
  BY <1>2 DEF ResetStart, ResetEnd, StopTrack, WaitIsServed
<1>3. CASE StartTrack \/ StartFails
  BY <1>3, WaitKept DEF StartTrack, StartFails
<1>4. ASSUME NEW n \in WriteSizes, WriteCall(n) PROVE WaitIsServed'
  BY <1>4 DEF WriteCall, WaitIsServed
\* The wait begins only when the ring holds bytes: a count never fills it alone.
<1>5. CASE WriteWaits
  <2>1. /\ cbstart >= 0 /\ NoRoom /\ UNCHANGED <<cbstart, cbend, count>>
    BY <1>5 DEF WriteWaits
  <2>2. count \in 0 .. (BufSize - 1) /\ get_free_bytes \in Int
    BY DEF TypeInv, TypeOK, get_free_bytes, Slots
  <2>3. Available > 0
    BY <2>1, <2>2 DEF NoRoom, Available
  <2>4. NoRoom' /\ Available' > 0
    BY <2>1, <2>3 DEF NoRoom, Available, get_free_bytes
  <2> QED
    BY <2>1, <2>4 DEF WaitIsServed
<1>6. CASE WriteStopped \/ WriteCopies
  BY <1>6 DEF WriteStopped, WriteCopies, WaitIsServed
<1>7. CASE DrainCall \/ DrainLock \/ DrainReturns
  BY <1>7 DEF DrainCall, DrainLock, DrainReturns, WaitIsServed
<1>8. CASE DecodeFails \/ SpuriousWakeup
  BY <1>8 DEF DecodeFails, SpuriousWakeup, WaitIsServed
<1>9. ASSUME NEW n \in AskSizes, CbCall(n) PROVE WaitIsServed'
  BY <1>9, WaitKept DEF CbCall
<1>10. CASE CbStopped \/ CbTakes
  BY <1>10, WaitKept DEF CbStopped, CbTakes
<1>11. CASE CbEmpty
  BY <1>11, WaitKept DEF CbEmpty, SignalDone
\* Room is made, or the ring is stopped, with a signal.
<1>12. CASE CbCopies \/ StopMark
  BY <1>12 DEF CbCopies, StopMark, SignalCond, WaitIsServed
<1>13. CASE StopPause \/ libmedia_pause \/ libmedia_resume
  BY <1>13, WaitKept DEF StopPause, libmedia_pause, libmedia_resume
<1>14. CASE UNCHANGED vars
  BY <1>14, WaitKept DEF vars
<1> QED
  BY <1>1, <1>2, <1>3, <1>4, <1>5, <1>6, <1>7, <1>8, <1>9, <1>10, <1>11, <1>12,
     <1>13, <1>14
  DEF Next, libmediacb_start, libmediacb_write, libmediacb_wait_done, cbf, libmediacb_stop

\* A decoder that sleeps in libmediacb_write is always one that lacks room, in a ring
\* from which the next callback has bytes to take, whose copy wakes it.
THEOREM WaitServed == Spec => []WaitIsServed
<1>1. Init => WaitIsServed
  BY DEF Init, WaitIsServed
<1>2. TypeInv /\ WaitIsServed /\ [Next]_vars => WaitIsServed'
  BY WaitNext
<1> QED
  BY RingAlways, <1>1, <1>2, PTL DEF Spec

(***************************************************************************)
(* The drain.  A decoder that waits there is woken by a callback that      *)
(* found the ring empty, and nobody fills it while the decoder waits.      *)
(***************************************************************************)
DrainInv ==
    /\ cbstart < 0 => played = sent
    /\ dec = "dwoken" /\ ~torn => played = sent

LEMMA DrainNext ==
    ASSUME "dwait" \notin Spurious, TypeInv, RingInv, DrainInv, [Next]_vars
    PROVE  /\ DrainInv'
           /\ (dec \in DrainSteps /\ dec' = "idle" /\ ~torn => played = sent)
<1> DEFINE Goal ==
      DrainInv' /\ (dec \in DrainSteps /\ dec' = "idle" /\ ~torn => played = sent)
<1>t. TypeOK /\ CopyOK /\ sent \in Nat /\ played \in Nat /\ cbstart \in Int
  BY DEF TypeInv, TypeOK
<1>r. RingHoldsUnplayed /\ CopyIsUnplayed
  BY DEF RingInv
<1>f. ASSUME dec \in DrainSteps, cbstart >= 0, ~torn
      PROVE  Open /\ sent - played \in 0 .. (BufSize - 1)
             /\ get_free_bytes = BufSize - (sent - played)
  <2>1. Open
    BY <1>f DEF Open, Resetting, DrainSteps
  <2>2. cbstart \in Slots
    BY <1>f, <1>t DEF TypeOK, Slots
  <2> QED
    BY <1>t, <1>r, <2>1, <2>2, FreeBytes DEF RingHoldsUnplayed
<1> USE DEF DrainInv, DrainSteps
<1>1. ASSUME NEW p \in {"fresh", "same", "reconfigure"}, StartCall(p) PROVE Goal
  BY <1>1 DEF StartCall, ring
<1>2. CASE ResetStart \/ ResetEnd \/ StopTrack
  BY <1>2 DEF ResetStart, ResetEnd, Resetting, StopTrack, ring
<1>3. CASE StartTrack \/ StartFails
  BY <1>3 DEF StartTrack, StartFails, ring
<1>4. ASSUME NEW n \in WriteSizes, WriteCall(n) PROVE Goal
  BY <1>4 DEF WriteCall, ring
<1>5. CASE WriteWaits \/ WriteStopped \/ WriteCopies \/ DecodeFails
  BY <1>5, <1>t DEF WriteWaits, WriteStopped, WriteCopies, DecodeFails, ring
<1>6. CASE DrainCall \/ DrainReturns
  BY <1>6 DEF DrainCall, DrainReturns, ring
<1>7. CASE DrainLock
  <2>1. CASE cbstart >= 0
    BY <1>7, <2>1, <1>f, <1>t DEF DrainLock, ring
  <2>2. CASE cbstart < 0
    BY <1>7, <2>2 DEF DrainLock, ring
  <2> QED
    BY <2>1, <2>2, <1>t DEF TypeOK
<1>8. CASE SpuriousWakeup
  <2>1. dec = "wwait" /\ dec' = "wlock" /\ UNCHANGED <<cbstart, sent, played>>
    BY <1>8, SwitchAssumption DEF SpuriousWakeup, ring
  <2> QED
    BY <2>1
<1>9. ASSUME NEW n \in AskSizes, CbCall(n) PROVE Goal
  BY <1>9 DEF CbCall, ring
<1>10. CASE CbStopped \/ CbTakes
  BY <1>10 DEF CbStopped, CbTakes, Resetting, ring
<1>11. CASE CbEmpty
  <2>1. /\ cbstart >= 0 /\ BufSize - get_free_bytes = 0
        /\ UNCHANGED <<cbstart, sent, played, torn>>
    BY <1>11 DEF CbEmpty, Available, ring
  <2>2. dec \in DrainSteps /\ ~torn => sent = played
    BY <2>1, <1>f, <1>t
  <2> QED
    BY <1>11, <2>1, <2>2 DEF CbEmpty, SignalDone
<1>12. CASE CbCopies
  <2>1. cbstart >= 0 /\ size \in 1 .. BufSize
    BY <1>12, <1>t DEF CbCopies, CopyOK
  <2>2. cbstart' \in Slots
    <3>1. cbstart \in Slots /\ size \in 0 .. BufSize
      BY <2>1, <1>t DEF TypeOK, Slots
    <3> QED
      BY <1>12, <3>1, AdvanceInSlots DEF CbCopies
  <2>3. dec = "dwoken" => torn
    BY <1>12, <1>f, <1>r, <1>t, <2>1 DEF CbCopies, CopyIsUnplayed
  <2>4. (dec' = "dwoken" => torn') /\ (dec \in DrainSteps => dec' # "idle")
    BY <1>12, <2>3 DEF CbCopies, SignalCond
  <2> QED
    BY <2>2, <2>4 DEF Slots
<1>13. CASE StopMark
  BY <1>13 DEF StopMark, SignalCond
<1>14. CASE StopPause \/ libmedia_pause \/ libmedia_resume
  BY <1>14 DEF StopPause, libmedia_pause, libmedia_resume, ring
<1>15. CASE UNCHANGED vars
  BY <1>15 DEF vars
<1> QED
  BY <1>1, <1>2, <1>3, <1>4, <1>5, <1>6, <1>7, <1>8, <1>9, <1>10, <1>11, <1>12,
     <1>13, <1>14, <1>15
  DEF Next, libmediacb_start, libmediacb_write, libmediacb_wait_done, cbf, libmediacb_stop

\* A decoder leaves libmediacb_wait_done, for the next track whose start flushes the
\* AudioTrack, only when every byte has been handed over or dropped by a stop, or a
\* callback has torn the ring at its reset, although the wait is a single one: unless it
\* ends without a signal (a signal for room in the ring goes to another condition
\* variable, and is none).
THEOREM DrainCorrect ==
    ASSUME "dwait" \notin Spurious PROVE Spec => DrainIsComplete
<1>1. Init => DrainInv
  BY DEF Init, DrainInv
<1>2. TypeInv /\ RingInv /\ DrainInv /\ [Next]_vars =>
        DrainInv' /\ [(dec \in DrainSteps /\ dec' = "idle" /\ ~torn) => played = sent]_vars
  BY DrainNext
<1> QED
  BY RingAlways, <1>1, <1>2, PTL DEF Spec, DrainIsComplete

(***************************************************************************)
(* The ring implements ByteStream: a write is Accept, a callback on an     *)
(* open ring is Deliver, a stop or the first store of a reset is Close and *)
(* its second store is Open; everything else stutters or is noise of a     *)
(* closed stream.                                                          *)
(***************************************************************************)

\* The copy of cbf hands over the next bytes of the stream.
LEMMA FetchedInOrder ==
    ASSUME TypeInv, RingInv, CbCopies, Open
    PROVE  /\ Fetched(size) = [i \in 1 .. size |-> played + i]
           /\ size \in 0 .. (sent - played)
<1> USE DEF TypeInv, TypeOK
<1>1. /\ size \in 1 .. (sent - played) /\ sent - played \in 0 .. (BufSize - 1)
      /\ \A i \in Slots : i < sent - played => cbbuf[Advance(cbstart, i)] = played + i + 1
  BY DEF RingInv, RingHoldsUnplayed, CopyIsUnplayed, CopyOK, CbCopies, Open
<1>2. ASSUME NEW i \in 1 .. size PROVE cbbuf[Advance(cbstart, i - 1)] = played + i
  <2>1. i - 1 \in Slots /\ i - 1 < sent - played
    BY <1>1, <1>2 DEF Slots
  <2>2. cbbuf[Advance(cbstart, i - 1)] = played + (i - 1) + 1
    BY <1>1, <2>1
  <2> QED
    BY <1>1, <1>2, <2>2
<1> QED
  BY <1>1, <1>2 DEF Fetched

LEMMA StreamInit == Init => Stream!Init
BY DEF Init, Stream!Init, Open, Resetting

LEMMA StreamNext ==
    ASSUME TypeInv, TypeInv', RingInv, RingInv', [Next]_vars
    PROVE  [Stream!Next]_(Stream!vars)
<1> USE DEF Stream!Next, Stream!vars
<1>t. TypeOK /\ CopyOK /\ RingInv
  BY DEF TypeInv
<1>s. Open \in BOOLEAN /\ Open' \in BOOLEAN /\ reply'.bytes \in Seq(Nat)
  BY DEF Open, TypeInv, TypeOK
<1> DEFINE Keeps == UNCHANGED <<Open, sent, played, reply>>
<1>k. Keeps => UNCHANGED Stream!vars
  BY DEF Stream!vars
<1> USE DEF Open, Resetting
<1>1. ASSUME NEW p \in {"fresh", "same", "reconfigure"}, StartCall(p) PROVE Keeps
  BY <1>1 DEF StartCall, ring
<1>2. CASE ResetStart
  <2>1. ~Open' /\ played' = sent /\ UNCHANGED <<sent, reply>>
    BY <1>2 DEF ResetStart
  <2> QED
    BY <2>1 DEF Stream!Close
<1>3. CASE ResetEnd
  <2>1. ~Open /\ played = sent /\ UNCHANGED <<sent, played, reply>>
    BY <1>3, <1>t DEF ResetEnd, RingInv, Whole
  <2> QED
    BY <2>1, <1>s DEF Stream!Open
<1>4. CASE StopTrack
  BY <1>4, <1>k DEF StopTrack, ring
<1>5. CASE StartTrack \/ StartFails
  BY <1>5, <1>k DEF StartTrack, StartFails, ring
<1>6. ASSUME NEW n \in WriteSizes, WriteCall(n) PROVE Keeps
  BY <1>6 DEF WriteCall, ring
<1>7. CASE WriteWaits \/ WriteStopped
  BY <1>7, <1>k DEF WriteWaits, WriteStopped, ring
<1>8. CASE WriteCopies
  <2>1. (Open' <=> Open) /\ sent' = sent + count /\ UNCHANGED <<played, reply>>
    BY <1>8 DEF WriteCopies
  <2>2. CASE count = 0
    BY <2>1, <2>2, <1>t, <1>s, <1>k DEF TypeOK
  <2>3. CASE count # 0 /\ Open
    BY <2>1, <2>3, <1>t, <1>s DEF Stream!Accept, TypeOK
  <2>4. CASE ~Open
    BY <2>1, <2>4, <1>t, <1>s DEF Stream!Noise, TypeOK
  <2> QED
    BY <2>2, <2>3, <2>4
<1>9. CASE DrainCall \/ DrainLock \/ DrainReturns
  BY <1>9, <1>k DEF DrainCall, DrainLock, DrainReturns, ring
<1>10. CASE DecodeFails \/ SpuriousWakeup
  BY <1>10, <1>k DEF DecodeFails, SpuriousWakeup, ring
<1>11. ASSUME NEW n \in AskSizes, CbCall(n) PROVE Keeps
  BY <1>11 DEF CbCall, ring
<1>12. CASE CbStopped
  <2>1. ~Open /\ ~Open' /\ UNCHANGED <<sent, played>>
    BY <1>12, <1>t DEF CbStopped, ring, TypeOK
  <2> QED
    BY <2>1, <1>s, <1>t DEF Stream!Noise, TypeOK
<1>13. CASE CbEmpty
  <2>1. /\ Open' <=> Open
        /\ UNCHANGED <<sent, played>> /\ reply'.bytes = <<>>
    BY <1>13 DEF CbEmpty, SignalDone, ring
  <2>2. CASE Open
    <3>1. 0 \in 0 .. (sent - played) /\ played + 0 = played
      BY <2>2, <1>t DEF RingInv, RingHoldsUnplayed, TypeOK
    <3>2. reply'.bytes = [i \in 1 .. 0 |-> played + i]
      BY <2>1
    <3> QED
      BY <2>1, <2>2, <3>1, <3>2, <1>s DEF Stream!Deliver
  <2>3. CASE ~Open
    BY <2>1, <2>3, <1>s, <1>t DEF Stream!Noise, TypeOK
  <2> QED
    BY <2>2, <2>3
<1>14. CASE CbTakes
  BY <1>14, <1>k DEF CbTakes, ring
<1>15. CASE CbCopies
  <2>1. reply'.bytes = Fetched(size) /\ sent' = sent
    BY <1>15 DEF CbCopies
  <2>2. CASE Open
    <3>1. Open' /\ played' = played + size
      <4>1. cbstart \in Slots /\ size \in 0 .. BufSize
        BY <1>15, <1>t, <2>2 DEF CbCopies, CopyOK, TypeOK, Slots
      <4>2. cbstart' \in Slots
        BY <1>15, <4>1, AdvanceInSlots DEF CbCopies
      <4> QED
        BY <1>15, <1>t, <2>2, <4>2 DEF CbCopies, SignalCond, TypeOK, Slots
    <3>2. reply'.bytes = [i \in 1 .. size |-> played + i] /\ size \in 0 .. (sent - played)
      BY <1>15, <2>1, <2>2, FetchedInOrder
    <3>3. Stream!Deliver
      BY <2>1, <2>2, <3>1, <3>2, <1>s DEF Stream!Deliver
    <3> QED
      BY <3>3
  <2>3. CASE ~Open
    <3>1. ~Open' /\ played' = played
      BY <1>15, <1>t, <2>3 DEF CbCopies, SignalCond, CopyOK
    <3> QED
      BY <2>1, <2>3, <3>1, <1>s, <1>t DEF Stream!Noise, TypeOK
  <2> QED
    BY <2>2, <2>3
<1>16. CASE StopMark
  BY <1>16, <1>s DEF StopMark, SignalCond, Stream!Close
<1>17. CASE StopPause \/ libmedia_pause \/ libmedia_resume
  BY <1>17, <1>k DEF StopPause, libmedia_pause, libmedia_resume, ring
<1>18. CASE UNCHANGED vars
  BY <1>18, <1>k DEF vars
<1> QED
  BY <1>1, <1>2, <1>3, <1>4, <1>5, <1>6, <1>7, <1>8, <1>9, <1>10, <1>11, <1>12,
     <1>13, <1>14, <1>15, <1>16, <1>17, <1>18, <1>k
  DEF Next, libmediacb_start, libmediacb_write, libmediacb_wait_done, cbf, libmediacb_stop

\* The callback output is a byte stream: what an open ring delivers is what was
\* written, in order, each byte once, for every buffer size and every mixture of
\* write and request sizes.
THEOREM RingImplementsStream == Spec => ImplementsStream
BY RingAlways, StreamInit, StreamNext, PTL DEF Spec, ImplementsStream, Stream!Spec
=============================================================================
