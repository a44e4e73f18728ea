---------------------------- MODULE DurableStore ----------------------------
(***************************************************************************)
(* What cache promises of its encrypted file (ga_cache.cpp): a set of      *)
(* entries in memory, and a set on disk that is replaced as a whole.  What *)
(* is recalled from disk was in memory when a save was completed, or is    *)
(* nothing: a save that is cut off or fails loses the older set, but never *)
(* leaves a part of a set or a mixture of two.                             *)
(***************************************************************************)
CONSTANT Entry

VARIABLES mem, disk, writing
vars == <<mem, disk, writing>>

Init == mem = {} /\ disk = {} /\ writing = FALSE

\* an insertion, one entry at a time and not while the set is written
Learn(e) ==
    /\ ~writing
    /\ mem' = mem \cup {e}
    /\ UNCHANGED <<disk, writing>>

\* a save first gives up what was on disk ...
Begin ==
    /\ ~writing
    /\ writing' = TRUE /\ disk' = {}
    /\ UNCHANGED mem

\* ... and then has exactly the set in memory there
Commit ==
    /\ writing
    /\ disk' = mem /\ writing' = FALSE
    /\ UNCHANGED mem

\* ... or, if it cannot be written, nothing
Fail ==
    /\ writing
    /\ writing' = FALSE
    /\ UNCHANGED <<mem, disk>>

\* a load replaces the set in memory
Recall ==
    /\ ~writing
    /\ mem' = disk
    /\ UNCHANGED <<disk, writing>>

\* the process ends
Crash ==
    /\ mem' = {} /\ writing' = FALSE
    /\ UNCHANGED disk

Next == (\E e \in Entry : Learn(e)) \/ Begin \/ Commit \/ Fail \/ Recall \/ Crash

Spec == Init /\ [][Next]_vars
=============================================================================
