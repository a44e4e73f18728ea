------------------------- MODULE MCPersistentCache -------------------------
(* Instances of PersistentCache for TLC; constants are in the .cfg.         *)
EXTENDS PersistentCache, TLC

CONSTANTS w1, w2, o1

MCWorkers == {w1, w2}
\* A process that was started again has one call at a time; what two threads do
\* to each other they do in the first one, which also loads files
MCNext ==
    /\ Next
    /\ crashes' > 0 => \E w \in Workers : thr'[w] = IdleCall
MCSpec == Init /\ [][MCNext]_vars

MCSymmetry == Permutations(MCWorkers)
=============================================================================
