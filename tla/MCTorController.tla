--------------------------- MODULE MCTorController ---------------------------
(* Instances of TorController for TLC; all constants are in the .cfg.       *)
EXTENDS TorController

CONSTANTS
    Lone,      \* the session that makes the longer runs of calls
    MaxShared  \* bound: events in which the other sessions take part

\* All sessions for MaxShared events, and a process in which Lone is the only
\* session for the rest: five are what it takes to sleep, wake up, sleep before
\* Tor has told its address, and wake up again
MCNext ==
    /\ Next
    /\ events' > MaxShared => \A s \in Sessions \ {Lone} : ref'[s] = None /\ thr'[s] = NoCall

MCSpec == Init /\ [][MCNext]_vars /\ Fairness
=============================================================================
