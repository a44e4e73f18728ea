---------------------------- MODULE MCTxListCache ----------------------------
(* TLC instances of TxListCache *)
EXTENDS TxListCache, TLC

CONSTANTS c1, c2, o1, o2, o3

MCCallers == {c1, c2}
MCOneCaller == {c1}
MCObjs == {o1, o2, o3}
MCTwoObjs == {o1, o2}
MCSymmetry == Permutations(MCCallers) \cup Permutations(MCObjs)
MCObjSymmetry == Permutations(MCTwoObjs)

\* A history of n transactions of which those in replaced were bumped
History(n, replaced) ==
    [i \in 1 .. n |-> [id |-> n + 1 - i, replaced |-> n + 1 - i \in replaced]]
MCShort == {History(1, {})}
\* every history of up to 5 transactions whose newest is not replaced
MCAll == UNION {{History(n, r) : r \in SUBSET (1 .. n - 1)} : n \in 0 .. 5}

MCFirstPage == {<<0, 1>>}
MCOneRequest == {<<0, 2>>}
\* ranges inside, across and beyond the cached part, and ones whose end wraps
MCRangeRequests == {<<0, 1>>, <<0, 4>>, <<1, 3>>, <<2, 1>>, <<2, 7>>, <<3, 5>>}
=============================================================================
