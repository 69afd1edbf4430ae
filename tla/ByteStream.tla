---------------------------- MODULE ByteStream ----------------------------
(***************************************************************************)
(* What the callback output of std_audio.cpp promises to a listener.       *)
(* The bytes a decoder hands over are numbered 1, 2, 3, ... in the order   *)
(* they are accepted.  While the stream is open every delivery is the next *)
(* consecutive run of numbers that has not been played: nothing is lost,   *)
(* repeated, reordered or invented.  Closing the stream (stop, or the      *)
(* start of another track) drops what has not been played.  What a closed  *)
(* stream takes and delivers is not specified, but it opens with nothing   *)
(* left to play.                                                           *)
(***************************************************************************)
EXTENDS Naturals, Sequences

VARIABLES
    open,     \* between the end of a start and the next stop or start
    sent,     \* number of bytes accepted so far
    played,   \* number of bytes delivered or dropped so far
    heard     \* the bytes of the latest delivery

vars == <<open, sent, played, heard>>

Init == open \in BOOLEAN /\ sent = 0 /\ played = 0 /\ heard = <<>>

Accept ==
    /\ open
    /\ sent' \in Nat /\ sent' > sent
    /\ UNCHANGED <<open, played, heard>>

Deliver ==
    /\ open
    /\ \E n \in 0 .. (sent - played) :
          /\ heard' = [i \in 1 .. n |-> played + i]
          /\ played' = played + n
    /\ UNCHANGED <<open, sent>>

Close == open' = FALSE /\ played' \in {played, sent} /\ UNCHANGED <<sent, heard>>

Noise ==
    /\ ~open
    /\ heard' \in Seq(Nat) /\ played' \in {played, sent}
    /\ sent' \in Nat /\ sent' >= sent
    /\ UNCHANGED open

Open == ~open /\ played = sent /\ open' = TRUE /\ UNCHANGED <<sent, played, heard>>

Next == Accept \/ Deliver \/ Close \/ Noise \/ Open

Spec == Init /\ [][Next]_vars
===========================================================================
