---------------------------- MODULE EpisodeEdges ----------------------------
(***************************************************************************)
(* What the user is promised about memory protection: each episode is      *)
(* announced when it begins and when it ends, in turn, once each, and the  *)
(* next edge is not taken before the last one has been announced.          *)
(***************************************************************************)
EXTENDS Naturals, Sequences

CONSTANTS
    Episodes,       \* the names of episodes, positive numbers
    None            \* nothing is owed to the user

VARIABLES
    episode,        \* the running episode, 0 when there is none
    owed,           \* the edge that has yet to be announced
    told            \* the edges announced, in order

edgeVars == <<episode, owed, told>>

Edges == [kind : {"active", "ended"}, episode : Episodes]

EdgesInit ==
    /\ episode = 0
    /\ owed = None
    /\ told = <<>>

Begin(n) ==
    /\ episode = 0
    /\ owed = None
    /\ \A i \in DOMAIN told : told[i].episode # n
    /\ episode' = n
    /\ owed' = [kind |-> "active", episode |-> n]
    /\ UNCHANGED told

End ==
    /\ episode # 0
    /\ owed = None
    /\ episode' = 0
    /\ owed' = [kind |-> "ended", episode |-> episode]
    /\ UNCHANGED told

Announce ==
    /\ owed # None
    /\ told' = Append(told, owed)
    /\ owed' = None
    /\ UNCHANGED episode

EdgesNext == (\E n \in Episodes : Begin(n)) \/ End \/ Announce

EdgesSpec == EdgesInit /\ [][EdgesNext]_edgeVars

=============================================================================
