----------------------------- MODULE MCCreateTx -----------------------------
(* TLC instances of CreateTx *)
EXTENDS CreateTx

Coins(tag, amounts) == [i \in DOMAIN amounts |-> [id |-> <<tag, i>>, satoshi |-> amounts[i]]]
UpTo(n, S) == UNION {[1 .. k -> S] : k \in 0 .. n}

\* wallets of up to four utxos, and one with many small ones
Purses == UpTo(4, {2, 6, 11}) \cup {<<7, 1, 1, 1, 1, 1, 1, 1, 1, 20>>}
NoPrev == [inputs |-> <<>>, outs |-> <<>>, fee |-> 0, rate |-> 0, size |-> 0]

Request == [kind |-> "send", send_all |-> FALSE, manual |-> FALSE, rate |-> 1,
            addressees |-> <<>>, utxos |-> <<>>, used_utxos |-> <<>>, prev |-> NoPrev]

Sends ==
    {[Request EXCEPT !.send_all = all, !.rate = rate, !.addressees = to, !.utxos = Coins(1, purse)] :
        all \in BOOLEAN, rate \in 0 .. 3, to \in UpTo(2, {2, 3, 6}), purse \in Purses}
Manual ==
    {[Request EXCEPT !.manual = TRUE, !.send_all = all, !.addressees = to,
                     !.utxos = Coins(1, <<11, 6, 6>>), !.used_utxos = chosen] :
        all \in BOOLEAN, to \in UpTo(2, {3, 6}),
        chosen \in {SubSeq(Coins(1, <<11, 6, 6>>), 1, k) : k \in 0 .. 3}}
Deposits ==
    {[Request EXCEPT !.kind = kind, !.rate = rate, !.utxos = Coins(1, purse)] :
        kind \in {"redeposit", "sweep"}, rate \in {1, 2}, purse \in UpTo(2, {2, 11})}
    \cup {[Request EXCEPT !.kind = kind, !.addressees = to, !.utxos = Coins(1, <<11>>)] :
        kind \in {"redeposit", "sweep"}, to \in UpTo(2, {0, 6})}

\* transactions of one or two inputs that pay us, others, or both
ToBump ==
    {[inputs |-> Coins(2, ins), outs |-> os, fee |-> paid, rate |-> (2 * paid) \div 6, size |-> 6] :
        ins \in {<<12>>, <<6, 11>>}, paid \in {2, 4},
        os \in UNION {[1 .. k -> [mine : BOOLEAN, satoshi : {3, 6}]] : k \in 1 .. 2}
            \cup {[i \in 1 .. 3 |-> [mine |-> i = k, satoshi |-> 3]] : k \in 1 .. 3}}
Replacements ==
    {[Request EXCEPT !.kind = "rbf", !.rate = rate, !.utxos = Coins(1, purse), !.prev = prev] :
        rate \in 1 .. 3, purse \in UpTo(2, {2, 11}), prev \in ToBump}
    \cup {[Request EXCEPT !.kind = "rbf", !.send_all = TRUE, !.prev = prev] : prev \in ToBump}
Paying == {[inputs |-> <<>>, outs |-> <<[mine |-> first, satoshi |-> 9], [mine |-> TRUE, satoshi |-> v]>>,
            fee |-> paid, rate |-> (2 * paid) \div 6, size |-> 6] :
              first \in BOOLEAN, v \in {2, 16}, paid \in {1, 3, 5}}
Children == {[Request EXCEPT !.kind = "cpfp", !.rate = rate, !.prev = prev] :
                rate \in 1 .. 3, prev \in Paying}
    \cup {[Request EXCEPT !.kind = "cpfp", !.rate = 2, !.prev = prev, !.utxos = Coins(1, <<16, 2>>)] :
                prev \in Paying}

MCRequests == Sends \cup Manual \cup Deposits \cup Replacements \cup Children
=============================================================================
