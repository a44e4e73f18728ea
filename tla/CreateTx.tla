------------------------------ MODULE CreateTx ------------------------------
(***************************************************************************)
(* The construction of a bitcoin transaction (create_ga_transaction,       *)
(* ga_tx.cpp): the details of a transaction to bump, the selection of      *)
(* utxos, and the loop that adds utxos and a change output until the fee   *)
(* of the transaction as it then is can be paid.                           *)
(*                                                                         *)
(* One behaviour is one call.  An action is one utxo or output added, one  *)
(* iteration of the loop, or what follows the loop.  All inputs have one   *)
(* size and so have all outputs.                                           *)
(***************************************************************************)
EXTENDS Integers, Sequences, SequencesExt, FiniteSetsExt

CONSTANTS
    Requests,       \* what the application may ask for
    Dust,           \* get_dust_threshold
    MinRate,        \* get_min_fee_rate
    Kilo,           \* fee rates are per this many bytes: 1000 in the code
    BaseSize, InSize, OutSize,
    MaxLoops,       \* max_loop_iterations: 8 for a single asset
    U64             \* 2^64: amounts are unsigned

ASSUME ConstantsAssumption ==
    /\ Dust \in Nat /\ MinRate \in Nat
    /\ {Kilo, BaseSize, InSize, OutSize, MaxLoops, U64} \subseteq Nat \ {0}

Output == [to : Nat, satoshi : Int]
Utxo == [id : Seq(Nat), satoshi : Nat]
\* a transaction to be bumped, as get_transactions returns it
Previous == [inputs : Seq(Utxo), outs : Seq([mine : BOOLEAN, satoshi : Nat]),
             fee : Nat, rate : Nat, size : Nat]

\* "utxos" and "used_utxos" are what the wallet has and, with manual
\* selection, what the user chose of it; "addressees" are amounts.  A
\* transaction is only bumped by its child if it pays us
RequestsAssumption ==
    /\ \A r \in Requests : r.kind = "cpfp" => \E i \in DOMAIN r.prev.outs : r.prev.outs[i].mine
    /\ Requests \subseteq
        [kind : {"send", "redeposit", "sweep", "rbf", "cpfp"}, send_all : BOOLEAN,
         manual : BOOLEAN, rate : Nat, addressees : Seq(Nat), utxos : Seq(Utxo),
         used_utxos : Seq(Utxo), prev : Previous]

ASSUME RequestsFit == RequestsAssumption

VARIABLES
    req,            \* the details passed in, fixed
    pc,
    inputs, outs,   \* the transaction; an output is for addressee "to", or change (0)
    used,           \* current_used_utxos
    picked,         \* how many of them were there when the loop began
    total, required, fee,
    have_change, change_index,
    force_add_utxo, iter,
    error,          \* result["error"]
    info            \* result["transaction_outputs"]: whose address each has

details == <<req, picked>>
tx == <<inputs, outs, used, total, required>>
change == <<have_change, change_index>>
vars == <<details, pc, tx, fee, change, force_add_utxo, iter, error, info>>

Errors == {"none", "no_utxos_found", "no_recipients", "send_all_requires_a_single",
           "invalid_amount", "invalid_address", "insufficient_funds", "no_amount_specified",
           "fee_rate_is_below_minimum", "invalid_replacement_fee_rate", "exception"}

TypeOK ==
    /\ pc \in {"old", "addressees", "collect", "loop", "finish", "done"}
    /\ inputs \in Seq(Utxo) /\ used \in Seq(Utxo)
    /\ outs \in Seq(Output)
    /\ picked \in Nat /\ total \in Nat /\ required \in Nat /\ fee \in Nat
    /\ have_change \in BOOLEAN /\ change_index \in 0 .. Len(outs)
    /\ have_change <=> change_index # 0
    /\ force_add_utxo \in BOOLEAN /\ iter \in 0 .. MaxLoops
    /\ error \in Errors /\ info \in Seq(Nat)

-----------------------------------------------------------------------------
(* What the details ask for.                                               *)

is_rbf == req.kind = "rbf"
is_cpfp == req.kind = "cpfp"

\* of the outputs of a transaction to replace, the first that pays us
ChangeOutput ==
    LET mine == {i \in DOMAIN req.prev.outs : req.prev.outs[i].mine}
    IN IF mine = {} THEN 0 ELSE Min(mine)

\* a replaced transaction that pays nobody else was a re-deposit
is_redeposit ==
    \/ req.kind \in {"redeposit", "cpfp"}
    \/ is_rbf /\ ChangeOutput # 0 /\ Len(req.prev.outs) = 1

send_all == req.send_all \/ is_redeposit \/ req.kind = "sweep"

\* The amounts to send; for a replacement, those of the outputs that were
\* not change; for a sweep, and where a re-deposit names no addressee, one
\* address whose amount is filled in
addressees ==
    CASE is_rbf ->
           LET amounts == [i \in DOMAIN req.prev.outs |-> req.prev.outs[i].satoshi]
           IN IF is_redeposit \/ ChangeOutput = 0 THEN amounts
              ELSE RemoveAt(amounts, ChangeOutput)
      [] req.kind = "sweep" -> <<0>>
      [] (is_cpfp \/ req.kind = "redeposit") /\ req.addressees = <<>> -> <<0>>
      [] OTHER -> req.addressees

\* For CPFP without utxos, the first output of the previous transaction that
\* pays us
utxos ==
    IF is_cpfp /\ req.utxos = <<>> THEN <<[id |-> <<0>>, satoshi |-> req.prev.outs[ChangeOutput].satoshi]>>
    ELSE req.utxos

old_used_utxos == IF is_rbf THEN req.prev.inputs ELSE <<>>

Size(nin, nout) == BaseSize + nin * InSize + nout * OutSize

Rate == IF req.rate < MinRate THEN MinRate ELSE req.rate
\* the fee of a transaction of this size, rounded up
get_tx_fee(size) == (size * Rate + Kilo - 1) \div Kilo

\* what a child adds to its own fee on behalf of its parent
network_fee ==
    IF is_cpfp /\ get_tx_fee(req.prev.size) > req.prev.fee THEN get_tx_fee(req.prev.size) ELSE 0

\* the fee of the transaction as it is
Fee == get_tx_fee(Size(Len(inputs), Len(outs))) + network_fee

\* set_tx_error keeps an earlier error
FirstError(e) == IF error = "none" THEN e ELSE error

Init ==
    /\ req \in Requests
    /\ pc = "old"
    /\ inputs = <<>> /\ outs = <<>> /\ used = <<>> /\ picked = 0
    /\ total = 0 /\ required = 0 /\ fee = 0
    /\ have_change = FALSE /\ change_index = 0
    /\ force_add_utxo = FALSE /\ iter = 0
    /\ error = CASE req.kind = "sweep" /\ utxos = <<>> -> "no_utxos_found"
                 [] addressees = <<>> -> "no_recipients"
                 [] ~is_rbf /\ send_all /\ Len(addressees) > 1 -> "send_all_requires_a_single"
                 [] OTHER -> "none"
    /\ info = <<>>

-----------------------------------------------------------------------------
(* Inputs and outputs before the loop.                                     *)

Fails(e) ==
    /\ pc' = "done" /\ error' = FirstError(e)
    /\ UNCHANGED <<details, tx, fee, change, force_add_utxo, iter, info>>

\* "Send all should not be visible/set when RBFing", and a sweep has one
\* addressee if any is given
Refused ==
    \/ is_rbf /\ send_all /\ ~is_redeposit
    \/ req.kind = "sweep" /\ Len(req.addressees) > 1

Refuse ==
    /\ pc = "old" /\ Refused
    /\ Fails("exception")

add_utxo(utxo) ==
    /\ inputs' = Append(inputs, utxo)
    /\ total' = total + utxo.satoshi

\* A replacement spends what the old transaction spends
AddOld ==
    /\ pc = "old" /\ ~Refused
    /\ IF Len(inputs) < Len(old_used_utxos)
       THEN add_utxo(old_used_utxos[Len(inputs) + 1]) /\ UNCHANGED pc
       ELSE pc' = "addressees" /\ UNCHANGED <<inputs, total>>
    /\ UNCHANGED <<details, outs, used, required, fee, change, force_add_utxo, iter, error, info>>

\* add_tx_addressee: dust is not relayed; an address the application gives
\* may be invalid, and an amount unreadable, which makes it 0.  The error
\* replaces an earlier one
TooSmall(v) == ~send_all /\ v < Dust
AddresseeErrors(v) ==
    {IF TooSmall(v) THEN "invalid_amount" ELSE error}
    \cup {e \in {"invalid_amount", "invalid_address"} :
             req.addressees # <<>> /\ (e = "invalid_amount" => v = 0)}

AddAddressee ==
    /\ pc = "addressees"
    /\ IF Len(outs) < Len(addressees)
       THEN LET v == addressees[Len(outs) + 1]
            IN /\ outs' = Append(outs, [to |-> Len(outs) + 1, satoshi |-> v])
               /\ required' = required + v
               /\ error' \in AddresseeErrors(v)
               /\ UNCHANGED pc
       ELSE pc' = "collect" /\ UNCHANGED <<outs, required, error>>
    /\ UNCHANGED <<details, inputs, used, total, fee, change, force_add_utxo, iter, info>>

Choice == IF req.manual THEN req.used_utxos ELSE utxos

\* All the utxos the user chose; all there are to send everything; or in
\* order until they cover the amounts.  Then a replaced transaction's change
\* output is added
Collect ==
    /\ pc = "collect"
    /\ IF Len(used) < Len(Choice) /\ (req.manual \/ send_all \/ total < required)
       THEN LET utxo == Choice[Len(used) + 1]
            IN /\ add_utxo(utxo)
               /\ used' = Append(used, utxo)
               /\ UNCHANGED <<pc, outs, change, picked>>
       ELSE /\ pc' = "loop"
            /\ picked' = Len(used)
            /\ IF is_rbf /\ ~is_redeposit /\ ChangeOutput # 0
               THEN /\ outs' = Append(outs, [to |-> 0, satoshi |-> 0])
                    /\ have_change' = TRUE /\ change_index' = Len(outs) + 1
               ELSE UNCHANGED <<outs, change>>
            /\ UNCHANGED <<inputs, used, total>>
    /\ UNCHANGED <<req, required, fee, force_add_utxo, iter, error, info>>

-----------------------------------------------------------------------------
(* The loop.                                                               *)

Looping == pc = "loop" /\ iter < MaxLoops
Continue == iter' = iter + 1 /\ UNCHANGED <<details, pc, fee, required, error, info>>
\* leave_loop
Leave(f) == fee' = f /\ pc' = "finish" /\ UNCHANGED <<details, iter, force_add_utxo, info>>

\* Mutant: what the fee leaves is sent, whatever it is
NeverTooLittle == FALSE
TooLittle == total < Fee + Dust

\* Everything minus the fee, without a change output
SendAll ==
    /\ Looping /\ send_all /\ outs # <<>>
    /\ IF TooLittle
       THEN error' = FirstError("insufficient_funds") /\ UNCHANGED <<outs, required>>
       ELSE /\ required' = total - Fee
            /\ outs' = [outs EXCEPT ![1].satoshi = total - Fee]
            /\ UNCHANGED error
    /\ Leave(Fee)
    /\ UNCHANGED <<inputs, used, total, change>>

\* addressees_p->at(0) of no addressees
SendAllToNobody ==
    /\ Looping /\ send_all /\ outs = <<>>
    /\ Fails("exception")

Short == total < required + Fee \/ force_add_utxo

\* Mutant: the last utxo is left alone
ExhaustedEarly == req.manual \/ Len(used) + 1 >= Len(utxos)
Exhausted == req.manual \/ Len(used) = Len(utxos)

Insufficient ==
    /\ Looping /\ ~send_all /\ Short /\ Exhausted
    /\ error' = FirstError("insufficient_funds")
    /\ fee' = Fee /\ pc' = "finish" /\ force_add_utxo' = FALSE
    /\ UNCHANGED <<details, tx, change, iter, info>>

AddUtxo ==
    /\ Looping /\ ~send_all /\ Short /\ ~Exhausted
    /\ force_add_utxo' = FALSE
    /\ LET utxo == utxos[Len(used) + 1]
       IN add_utxo(utxo) /\ used' = Append(used, utxo)
    /\ Continue
    /\ UNCHANGED <<outs, change>>

Enough == Looping /\ ~send_all /\ ~Short
Left == total - (required + Fee)

\* Mutant: left over dust is forgotten
FeeOnly == Fee
\* dust that is not worth an output goes to the miners
WithDonation == IF have_change THEN Fee ELSE Fee + Left

\* Mutant: a change output is good whatever is left for it
SettledLightly == have_change \/ Left < Dust
Settled == have_change <=> Left >= Dust

Settle ==
    /\ Enough /\ Settled
    /\ Leave(WithDonation)
    /\ UNCHANGED <<tx, change, error>>

\* Mutant: nothing is done about change that has become dust
NoForce == UNCHANGED force_add_utxo
ForceAnother == force_add_utxo' = TRUE

\* The fee for the change output has left only dust for it
DustyChange ==
    /\ Enough /\ ~Settled /\ have_change
    /\ ForceAnother
    /\ Continue
    /\ UNCHANGED <<inputs, outs, used, total, change>>

\* Mutant: the loop is left with the fee of the transaction without change
StopWithChange == fee' = Fee /\ pc' = "finish" /\ UNCHANGED <<details, iter, required, error, info>>
\* the change output costs a fee too
GoOn == Continue

AddChange ==
    /\ Enough /\ ~Settled /\ ~have_change
    /\ outs' = Append(outs, [to |-> 0, satoshi |-> 0])
    /\ have_change' = TRUE /\ change_index' = Len(outs) + 1
    /\ GoOn
    /\ UNCHANGED <<inputs, used, total, force_add_utxo>>

\* "Endless tx loop building"
Endless ==
    /\ pc = "loop" /\ iter = MaxLoops
    /\ Fails("exception")

-----------------------------------------------------------------------------
(* After the loop.                                                         *)

\* a subtraction of unsigned amounts
Minus(a, b) == IF a >= b THEN a - b ELSE U64 + a - b

Exchanged(s, i, j) == [s EXCEPT ![i] = s[j], ![j] = s[i]]

\* Mutant: the amount is set where the change was
update_change_output_late(new) ==
    IF have_change
    THEN /\ outs' = [Exchanged(outs, change_index, new) EXCEPT
                        ![change_index].satoshi = Minus(total, required + fee)]
         /\ change_index' = new
    ELSE UNCHANGED <<outs, change_index>>
\* the change output gets its amount and a place among the outputs at random
update_change_output(new) ==
    IF have_change
    THEN /\ outs' = Exchanged([outs EXCEPT ![change_index].satoshi = Minus(total, required + fee)],
                              change_index, new)
         /\ change_index' = new
    ELSE UNCHANGED <<outs, change_index>>

valid == inputs # <<>> /\ outs # <<>>
vsize == IF valid THEN Size(Len(inputs), Len(outs)) ELSE 0

\* Is the fee of a replacement high enough to be relayed
BadReplacement ==
    \/ fee < req.prev.fee + (vsize * MinRate) \div Kilo
    \/ (IF valid THEN (fee * Kilo) \div vsize ELSE 0) <= req.prev.rate

AfterLoop ==
    CASE required = 0 -> FirstError("no_amount_specified")
      [] required # 0 /\ req.rate < MinRate -> FirstError("fee_rate_is_below_minimum")
      [] OTHER -> error

\* update_tx_info: the addressees in order, skipping the change
Labels == [i \in DOMAIN outs' |->
    IF i = change_index' THEN 0
    ELSE IF change_index' # 0 /\ i > change_index' THEN i - 1 ELSE i]

Finish ==
    /\ pc = "finish"
    /\ pc' = "done"
    /\ \E new \in DOMAIN outs : update_change_output(new)
    /\ info' = IF valid /\ AfterLoop = "none" THEN Labels ELSE <<>>
    /\ error' = IF is_rbf /\ AfterLoop = "none" /\ BadReplacement
                THEN "invalid_replacement_fee_rate" ELSE AfterLoop
    /\ UNCHANGED <<details, inputs, used, total, required, fee, have_change, force_add_utxo, iter>>

\* nothing to place when there are no outputs
FinishEmpty ==
    /\ pc = "finish" /\ outs = <<>>
    /\ pc' = "done" /\ error' = AfterLoop
    /\ UNCHANGED <<details, tx, fee, change, force_add_utxo, iter, info>>

\* Mutant: the utxos of a replaced transaction last
signing_inputs_reordered == used \o old_used_utxos
\* the utxos to sign with, by position; what randomise_inputs does to the
\* transaction comes after the result was filled in
get_ga_signing_inputs == old_used_utxos \o used

Next ==
    \/ Refuse \/ AddOld \/ AddAddressee \/ Collect
    \/ SendAll \/ SendAllToNobody \/ Insufficient \/ AddUtxo
    \/ Settle \/ DustyChange \/ AddChange \/ Endless
    \/ Finish \/ FinishEmpty

Spec == Init /\ [][Next]_vars

-----------------------------------------------------------------------------
(* Properties.                                                             *)

\* the result can be signed: get_ga_signing_inputs refuses one with an error
Built == pc = "done" /\ error = "none"

\* the amounts of the first n of s, for every n, and of all of them
Sums(s) ==
    LET upto[n \in 0 .. Len(s)] == IF n = 0 THEN 0 ELSE upto[n - 1] + s[n].satoshi
    IN upto
Sum(s) == Sums(s)[Len(s)]

\* No amount is lost or made up: the inputs of a transaction that can be
\* signed are its outputs and its fee (the loop, update_change_output)
Balanced == Built => Sum(inputs) = Sum(outs) + fee

\* The fee is that of the transaction as it ends up, with every utxo and the
\* change output that were added to pay for others, and what is given away
\* on top is less than dust (get_tx_fee, the loop)
FeeRight ==
    Built => LET due == get_tx_fee(Size(Len(inputs), Len(outs))) + network_fee
             IN IF have_change \/ send_all THEN fee = due ELSE fee \in due .. due + Dust - 1

\* No output of a transaction that can be signed is dust, the change and what
\* is left to send when everything is sent included (add_tx_addressee, the loop)
NoDust == Built => \A i \in DOMAIN outs : outs[i].satoshi >= Dust

\* Wherever the change is put, every addressee is paid once and exactly, and
\* nobody else is paid (add_tx_addressee, update_change_output)
PaysAddressees ==
    Built /\ ~send_all =>
        /\ Len(outs) = Len(addressees) + (IF have_change THEN 1 ELSE 0)
        /\ \A i \in DOMAIN addressees :
              \E j \in DOMAIN outs : outs[j] = [to |-> i, satoshi |-> addressees[i]]

\* "Insufficient funds" means it: all there is to spend is spent, and falls
\* short of the amounts, the fee for them and, once a change output was
\* needed, the least it may hold (the loop)
InsufficientIsReal ==
    pc = "finish" /\ error = "insufficient_funds" =>
        /\ Len(used) = Len(Choice)
        /\ total < required + Fee + (IF have_change \/ send_all THEN Dust ELSE 0)

\* The loop gets on: of any three iterations in a row one adds a utxo, so it
\* ends on its own, in time if it need not add many (the loop)
LoopProgress ==
    pc = "loop" => iter <= 2 * (Len(used) - picked) + 2

\* Every input is signed with the utxo it spends (get_ga_signing_inputs, add_utxo)
SignsItsInputs == Built => inputs = get_ga_signing_inputs

\* What a child adds for its parent "is the difference between the fee the
\* previous transaction currently pays, and the fee it would pay at the
\* desired new fee rate", so that the pair pays that rate: each of the two,
\* rounded up, and no more (check_bump_tx, src/ga_tx.cpp:186)
PairPaysRate ==
    Built /\ is_cpfp /\ network_fee > 0 =>
        fee + req.prev.fee
            = get_tx_fee(Size(Len(inputs), Len(outs))) + get_tx_fee(req.prev.size)

\* The sign transaction JSON lists for every output the address its script
\* pays (docs/source/gdk-json.rst, update_tx_info)
OutputsMatch == Built => \A i \in DOMAIN outs : info[i] = outs[i].to
=============================================================================
