---------------------------- MODULE MC_Playlist ---------------------------
(* Instances of Playlist for TLC. *)
EXTENDS Playlist, TLC
CONSTANT user
\* Every command, the events of the headset and of the phone among them.
Everything == [c \in Clients |-> Stopping \cup Pausing]
\* The threads differ in nothing but their name.
Alike == Permutations(Threads)
\* A call comes in while a list plays.
PhoneCalls == [c \in Clients |-> {"play", "ring", "hang"}]
===========================================================================
