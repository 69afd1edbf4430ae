----------------------------- MODULE PlayFrom -----------------------------
(***************************************************************************)
(* Playing a file from a given second, as a bookmark or the track of a cue *)
(* sheet asks for: xxxPlay with the argument start.  Each decoder has its  *)
(* own search, in a module of its own; a play runs one of them.  Where the *)
(* second comes from is the matter of Bookmark, which knows no formats: a  *)
(* state is of one of the searches, or of the client and the service.      *)
(***************************************************************************)
EXTENDS FlacSeek, ApeSeek, AlacSeek, WvSeek, Bookmark

VARIABLE actor   \* who is looked at: a decoder, or "client"

vars == <<actor, flacVars, apeVars, alacVars, wvVars, bookVars>>

\* The file of a decoder that does not play: the least there is.
NoFlac ==
    /\ frames = {0} /\ lastBlock = 1 /\ first = [f \in {0} |-> 0] /\ table = [f \in {} |-> 0]
    /\ totalsamples = 1 /\ fakes = {} /\ start = 1 /\ FlacInit
NoApe == totalframes = 1 /\ finalframeblocks = 1 /\ apeStart = 1 /\ ApeInit
NoAlac ==
    /\ chunks = <<1>> /\ sample_byte_size = [s \in {0} |-> 1]
    /\ time_to_sample = <<[sample_count |-> 1, sample_duration |-> 1]>>
    /\ sound_sample_loc = 1 /\ AlacInit
NoWv == blocks = {0, WvLen - WvHead} /\ wvStart = 1 /\ WvInit
NoBook ==
    /\ cue = FALSE /\ deep = FALSE /\ times = [i \in Tracks |-> 0]
    /\ ends = [i \in Tracks |-> 1] /\ BookInit

Init ==
    \/ actor = "flac" /\ NoApe /\ NoAlac /\ NoWv /\ NoBook /\ FlacInit
    \/ actor = "ape" /\ NoFlac /\ NoAlac /\ NoWv /\ NoBook /\ ApeInit
    \/ actor = "alac" /\ NoFlac /\ NoApe /\ NoWv /\ NoBook /\ AlacInit
    \/ actor = "wv" /\ NoFlac /\ NoApe /\ NoAlac /\ NoBook /\ WvInit
    \/ actor = "client" /\ NoFlac /\ NoApe /\ NoAlac /\ NoWv /\ BookInit

flacPlay == actor = "flac" /\ FlacNext /\ UNCHANGED <<actor, apeVars, alacVars, wvVars, bookVars>>
apePlay == actor = "ape" /\ ApeNext /\ UNCHANGED <<actor, flacVars, alacVars, wvVars, bookVars>>
alacPlay == actor = "alac" /\ alac_seek /\ UNCHANGED <<actor, flacVars, apeVars, wvVars, bookVars>>
wvPlay == actor = "wv" /\ WvNext /\ UNCHANGED <<actor, flacVars, apeVars, alacVars, bookVars>>
bookmark ==
    actor = "client" /\ BookNext /\ UNCHANGED <<actor, flacVars, apeVars, alacVars, wvVars>>

Next == flacPlay \/ apePlay \/ alacPlay \/ wvPlay \/ bookmark

\* The search of flac, the one loop without a bound of its own, waits for nobody.
Spec == Init /\ [][Next]_vars /\ WF_vars(flacPlay)
===========================================================================
