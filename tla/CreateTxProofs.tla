--------------------------- MODULE CreateTxProofs ---------------------------
(***************************************************************************)
(* Proofs about CreateTx for any requests, sizes, rates and bounds.        *)
(***************************************************************************)
EXTENDS CreateTx, Induction, TLAPS

-----------------------------------------------------------------------------
(* Facts about the operators.                                              *)

\* A set of naturals has a least element, and Min is it
LEMMA MinInSet ==
  ASSUME NEW S \in SUBSET Nat, S # {}
  PROVE  Min(S) \in S
  BY LeastNumber DEF Min

\* Sequences that grow at their end
LEMMA AppendFacts ==
  ASSUME NEW S, NEW s \in Seq(S), NEW e \in S
  PROVE  /\ Append(s, e) \in Seq(S) /\ Len(s) \in Nat /\ Len(Append(s, e)) = Len(s) + 1
         /\ \A i \in 1 .. Len(s) : Append(s, e)[i] = s[i]
         /\ Append(s, e)[Len(s) + 1] = e
  OBVIOUS

LEMMA ConcatAppend ==
  \A s \in Seq(Utxo), r \in Seq(Utxo), e \in Utxo : Append(s \o r, e) = s \o Append(r, e)
  <1> DEFINE S == Utxo
  <1> HIDE DEF S
  <1> SUFFICES ASSUME NEW s \in Seq(S), NEW r \in Seq(S), NEW e \in S
               PROVE  Append(s \o r, e) = s \o Append(r, e)
    BY Zenon DEF S
  <1> DEFINE a == Append(s \o r, e)
             b == s \o Append(r, e)
  <1>0. Append(r, e) \in Seq(S) /\ Len(Append(r, e)) = Len(r) + 1
        /\ \A i \in 1 .. Len(r) : Append(r, e)[i] = r[i]
        /\ Append(r, e)[Len(r) + 1] = e
    BY AppendFacts
  <1>1. s \o r \in Seq(S) /\ Len(s \o r) = Len(s) + Len(r) /\ Len(s) \in Nat /\ Len(r) \in Nat
    OBVIOUS
  <1>2. a \in Seq(S) /\ Len(a) = Len(s) + Len(r) + 1
    BY <1>1, AppendFacts
  <1>3. b \in Seq(S) /\ Len(b) = Len(s) + Len(r) + 1
    BY <1>0, <1>1
  <1>4. ASSUME NEW i \in 1 .. Len(a) PROVE a[i] = b[i]
    <2>1. CASE i <= Len(s) + Len(r)
      <3>1. a[i] = (s \o r)[i]
        BY <1>1, <1>2, <2>1
      <3>2. (s \o r)[i] = IF i <= Len(s) THEN s[i] ELSE r[i - Len(s)]
        BY <1>1, <1>2, <2>1
      <3>3. b[i] = IF i <= Len(s) THEN s[i] ELSE Append(r, e)[i - Len(s)]
        BY <1>0, <1>1, <1>2, <2>1
      <3> QED  BY <3>1, <3>2, <3>3, <1>0, <1>1, <1>2, <2>1
    <2>2. CASE i = Len(s) + Len(r) + 1
      <3>1. a[i] = e
        BY <1>1, <2>2
      <3>2. b[i] = Append(r, e)[Len(r) + 1]
        BY <1>0, <1>1, <2>2
      <3> QED  BY <3>1, <3>2, <1>0
    <2> QED  BY <2>1, <2>2, <1>2, <1>1
  <1> HIDE DEF a, b
  <1>5. a = b
    BY <1>2, <1>3, <1>4
  <1> QED  BY <1>5 DEF a, b

LEMMA ElementType ==
  ASSUME NEW S, NEW s \in Seq(S), NEW i \in 1 .. Len(s)
  PROVE  s[i] \in S
  OBVIOUS

\* A fee rounded up pays for the size
LEMMA RoundedUp ==
  ASSUME NEW x \in Nat, NEW k \in Nat \ {0}
  PROVE  /\ (x + k - 1) \div k \in Nat
         /\ ((x + k - 1) \div k) * k >= x
  OBVIOUS

Request1 == [kind : {"send", "redeposit", "sweep", "rbf", "cpfp"}, send_all : BOOLEAN,
             manual : BOOLEAN, rate : Nat, addressees : Seq(Nat), utxos : Seq(Utxo),
             used_utxos : Seq(Utxo), prev : Previous]

LEMMA RequestType ==
  ASSUME req \in Requests PROVE req \in Request1
  BY RequestsFit DEF RequestsAssumption, Request1

LEMMA FeeType ==
  ASSUME req \in Requests, NEW n \in Nat
  PROVE  /\ get_tx_fee(n) \in Nat
         /\ get_tx_fee(n) * Kilo >= n * Rate
  <1>1. Rate \in Nat
    BY RequestType, ConstantsAssumption DEF Rate, Request1
  <1>2. n * Rate \in Nat
    BY <1>1
  <1> QED  BY <1>2, RoundedUp, ConstantsAssumption DEF get_tx_fee

LEMMA SizeType ==
  ASSUME NEW i \in Nat, NEW o \in Nat PROVE Size(i, o) \in Nat
  BY ConstantsAssumption DEF Size

LEMMA NetworkFeeType ==
  ASSUME req \in Requests PROVE network_fee \in Nat
  <1>1. req.prev.size \in Nat
    BY RequestType DEF Request1, Previous
  <1> QED  BY <1>1, FeeType DEF network_fee

\* The first output that pays us is one of the outputs
LEMMA ChangeOutputType ==
  ASSUME req \in Requests
  PROVE  /\ ChangeOutput \in 0 .. Len(req.prev.outs)
         /\ is_cpfp => ChangeOutput # 0
  <1> DEFINE mine == {i \in DOMAIN req.prev.outs : req.prev.outs[i].mine}
  <1>1. req.prev.outs \in Seq([mine : BOOLEAN, satoshi : Nat])
    BY RequestType DEF Request1, Previous
  <1>2. mine \in SUBSET Nat /\ mine \subseteq 1 .. Len(req.prev.outs)
    BY <1>1
  <1>3. mine # {} => Min(mine) \in mine
    BY <1>2, MinInSet
  <1>4. is_cpfp => mine # {}
    BY RequestsFit DEF RequestsAssumption, is_cpfp
  <1>5. ChangeOutput = IF mine = {} THEN 0 ELSE Min(mine)
    BY DEF ChangeOutput
  <1> HIDE DEF mine
  <1>6. mine # {} => Min(mine) \in 1 .. Len(req.prev.outs)
    BY <1>2, <1>3
  <1> QED  BY <1>1, <1>4, <1>5, <1>6

\* What is derived from a request is of its type
LEMMA DerivedTypes ==
  ASSUME req \in Requests
  PROVE  /\ addressees \in Seq(Nat) /\ utxos \in Seq(Utxo) /\ Choice \in Seq(Utxo)
         /\ old_used_utxos \in Seq(Utxo) /\ send_all \in BOOLEAN
  <1>1. req \in Request1
    BY RequestType
  <1>2. req.prev \in Previous /\ req.prev.outs \in Seq([mine : BOOLEAN, satoshi : Nat])
    BY <1>1 DEF Request1, Previous
  <1> DEFINE amounts == [i \in DOMAIN req.prev.outs |-> req.prev.outs[i].satoshi]
  <1>o. /\ DOMAIN req.prev.outs = 1 .. Len(req.prev.outs) /\ Len(req.prev.outs) \in Nat
        /\ \A i \in 1 .. Len(req.prev.outs) : req.prev.outs[i].satoshi \in Nat
    <2> DEFINE os == req.prev.outs
               Out == [mine : BOOLEAN, satoshi : Nat]
    <2>1. os \in Seq(Out)
      BY <1>2
    <2> HIDE DEF os, Out
    <2>2. \A i \in 1 .. Len(os) : os[i] \in Out
      BY <2>1
    <2>3. \A i \in 1 .. Len(os) : os[i].satoshi \in Nat
      BY <2>2 DEF Out
    <2>4. DOMAIN os = 1 .. Len(os) /\ Len(os) \in Nat
      BY <2>1
    <2> QED  BY <2>3, <2>4 DEF os
  <1>3. amounts \in Seq(Nat) /\ Len(amounts) = Len(req.prev.outs)
    BY <1>o
  <1>4. ASSUME ChangeOutput # 0
        PROVE  RemoveAt(amounts, ChangeOutput) \in Seq(Nat)
    <2>1. ChangeOutput \in 1 .. Len(amounts)
      BY <1>3, <1>4, <1>o, ChangeOutputType
    <2> HIDE DEF amounts
    <2> QED  BY <1>3, <2>1 DEF RemoveAt
  <1>5. addressees \in Seq(Nat)
    <2>1. req.addressees \in Seq(Nat) /\ <<0>> \in Seq(Nat)
      BY <1>1 DEF Request1
    <2>2. CASE is_rbf
      BY <2>2, <1>3, <1>4 DEF addressees
    <2>3. CASE ~is_rbf
      BY <2>3, <2>1 DEF addressees
    <2> QED  BY <2>2, <2>3
  <1>6. utxos \in Seq(Utxo)
    <2>1. CASE is_cpfp
      <3>1. ChangeOutput \in 1 .. Len(req.prev.outs)
        BY <2>1, <1>2, ChangeOutputType
      <3>2. req.prev.outs[ChangeOutput].satoshi \in Nat
        BY <3>1, <1>o
      <3>3. [id |-> <<0>>, satoshi |-> req.prev.outs[ChangeOutput].satoshi] \in Utxo
        BY <3>2 DEF Utxo
      <3> QED  BY <1>1, <2>1, <3>3 DEF utxos, Request1
    <2>2. CASE ~is_cpfp
      BY <2>2, <1>1 DEF utxos, Request1
    <2> QED  BY <2>1, <2>2
  <1>7. Choice \in Seq(Utxo)
    BY <1>1, <1>6 DEF Choice, Request1
  <1>8. old_used_utxos \in Seq(Utxo)
    BY <1>1, <1>2 DEF old_used_utxos, Previous
  <1>9. send_all \in BOOLEAN
    BY <1>1 DEF send_all, Request1, is_redeposit, is_rbf
  <1> QED  BY <1>5, <1>6, <1>7, <1>8, <1>9

\* a replaced re-deposit has the one addressee it had
LEMMA OneDeposit ==
  ASSUME req \in Requests, is_rbf, is_redeposit PROVE Len(addressees) = 1
  <1> DEFINE amounts == [i \in DOMAIN req.prev.outs |-> req.prev.outs[i].satoshi]
  <1>1. Len(req.prev.outs) = 1
    BY DEF is_redeposit, is_rbf
  <1>2. req.prev.outs \in Seq([mine : BOOLEAN, satoshi : Nat])
    BY RequestType DEF Request1, Previous
  <1>3. DOMAIN req.prev.outs = 1 .. 1
    BY <1>1, <1>2
  <1>4. Len(amounts) = 1
    BY <1>3
  <1> QED  BY <1>4 DEF addressees

\* The request does not change, and nor does what is derived from it
LEMMA SameRequest ==
  ASSUME req' = req
  PROVE  /\ addressees' = addressees /\ utxos' = utxos /\ Choice' = Choice
         /\ old_used_utxos' = old_used_utxos /\ network_fee' = network_fee
         /\ send_all' = send_all /\ is_redeposit' = is_redeposit
         /\ is_rbf' = is_rbf /\ is_cpfp' = is_cpfp /\ Rate' = Rate
         /\ ChangeOutput' = ChangeOutput
         /\ \A n \in Nat : get_tx_fee(n)' = get_tx_fee(n)
  BY DEF addressees, utxos, Choice, old_used_utxos, network_fee, send_all, is_redeposit,
         is_rbf, is_cpfp, Rate, ChangeOutput, get_tx_fee

LEMMA NextKeepsRequest == [Next]_vars => req' = req
  BY DEF Next, vars, details, Refuse, Fails, AddOld, AddAddressee, Collect, SendAll,
         Leave, SendAllToNobody, Insufficient, AddUtxo, Continue, Settle, DustyChange,
         AddChange, GoOn, Endless, Finish, FinishEmpty

\* The fee of the transaction as it is
LEMMA DueType ==
  ASSUME req \in Requests, inputs \in Seq(Utxo), outs \in Seq(Output)
  PROVE  Fee \in Nat
  <1> DEFINE n == Size(Len(inputs), Len(outs))
  <1>1. n \in Nat
    BY SizeType
  <1> HIDE DEF n
  <1>2. get_tx_fee(n) \in Nat
    BY <1>1, FeeType
  <1> QED  BY <1>2, NetworkFeeType DEF Fee, n

\* It changes only with the number of inputs or outputs
LEMMA SameShape ==
  ASSUME req \in Requests, req' = req, inputs \in Seq(Utxo),
         outs \in Seq(Output),
         Len(inputs') = Len(inputs), Len(outs') = Len(outs)
  PROVE  Fee' = Fee
  <1>1. Size(Len(inputs), Len(outs)) \in Nat
    BY SizeType
  <1>2. Size(Len(inputs'), Len(outs')) = Size(Len(inputs), Len(outs))
    OBVIOUS
  <1> QED  BY <1>1, <1>2, SameRequest DEF Fee, get_tx_fee, Rate

-----------------------------------------------------------------------------
(* The inductive invariant.                                                *)

\* between the old utxos and the end
Building == pc \in {"addressees", "collect", "loop", "finish"}
AfterCollect == pc \in {"loop", "finish"}

\* the inputs are the utxos to sign with
InputsInv ==
    /\ pc = "old" =>
         /\ used = <<>> /\ Len(inputs) <= Len(old_used_utxos)
         /\ \A i \in 1 .. Len(inputs) : inputs[i] = old_used_utxos[i]
    /\ Building \/ Built => inputs = get_ga_signing_inputs

\* what was taken comes from what may be taken, and is all of it where all
\* was asked for
UsedInv ==
    /\ Len(used) <= Len(Choice)
    /\ AfterCollect /\ (req.manual \/ send_all) => Len(used) = Len(Choice)

\* the outputs but the change are the addressees' in order
PaidInOrder ==
    \A i \in 1 .. Len(outs) : i # change_index =>
        /\ outs[i].to = i
        /\ ~send_all => /\ outs[i].satoshi = addressees[i]
                        /\ error = "none" => outs[i].satoshi >= Dust

\* the change comes after them
OutsInv ==
    /\ Building => (is_rbf /\ send_all => is_redeposit)
    /\ pc \in {"old", "addressees", "collect"} => ~have_change
    /\ pc = "old" => outs = <<>>
    /\ pc = "addressees" => Len(outs) <= Len(addressees)
    /\ pc = "collect" => Len(outs) = Len(addressees)
    /\ AfterCollect =>
         /\ Len(outs) = Len(addressees) + (IF have_change THEN 1 ELSE 0)
         /\ have_change => change_index = Len(outs)
         /\ send_all => ~have_change
    /\ Building => PaidInOrder

ErrorInv ==
    /\ error = "insufficient_funds" => pc \in {"finish", "done"}
    /\ error = "none" /\ send_all /\ (is_rbf => is_redeposit) => Len(addressees) = 1

\* an iteration that adds no utxo adds the change output or forces one that does
LoopInv ==
    /\ pc \in {"old", "addressees", "collect"} => iter = 0 /\ ~force_add_utxo
    /\ pc = "loop" =>
         /\ picked <= Len(used)
         /\ iter <= 2 * (Len(used) - picked) + (IF have_change THEN 1 ELSE 0)
                                             + (IF force_add_utxo THEN 1 ELSE 0)
         /\ force_add_utxo => have_change /\ total < required + Fee + Dust

\* how the loop may be left without an error
LeftInv ==
    pc = "finish" /\ error = "none" =>
        /\ IF have_change \/ send_all THEN fee = Fee ELSE fee \in Fee .. Fee + Dust - 1
        /\ have_change => total >= required + fee + Dust
        /\ send_all => outs[1].satoshi >= Dust

IInv ==
    /\ req \in Requests /\ TypeOK
    /\ InputsInv /\ UsedInv /\ OutsInv /\ ErrorInv /\ LoopInv /\ LeftInv
    /\ InsufficientIsReal
    /\ FeeRight /\ NoDust /\ PaysAddressees

-----------------------------------------------------------------------------
(* Every step keeps it.                                                    *)

\* what every step can rely on
LEMMA Facts ==
  ASSUME IInv, Next
  PROVE  /\ req' = req /\ req \in Requests /\ req' \in Requests
         /\ addressees \in Seq(Nat) /\ utxos \in Seq(Utxo) /\ Choice \in Seq(Utxo)
         /\ old_used_utxos \in Seq(Utxo) /\ send_all \in BOOLEAN
         /\ addressees' = addressees /\ Choice' = Choice /\ old_used_utxos' = old_used_utxos
         /\ send_all' = send_all /\ is_redeposit' = is_redeposit /\ is_rbf' = is_rbf
         /\ Fee \in Nat /\ Dust \in Nat /\ req.manual' = req.manual
         /\ network_fee' = network_fee
  <1>1. req' = req
    BY NextKeepsRequest
  <1>2. req \in Requests /\ inputs \in Seq(Utxo) /\ outs \in Seq(Output)
    BY DEF IInv, TypeOK
  <1> QED  BY <1>1, <1>2, DerivedTypes, SameRequest, DueType, ConstantsAssumption

LEMMA InitIInv == Init => IInv
  <1> SUFFICES ASSUME Init PROVE IInv
    OBVIOUS
  <1>0. error \in Errors /\ error # "insufficient_funds"
    BY DEF Init, Errors
  <1>1. req \in Requests /\ TypeOK
    <2>1. <<>> \in Seq(Utxo) /\ <<>> \in Seq(Output) /\ <<>> \in Seq(Nat) /\ Len(<<>>) = 0
      OBVIOUS
    <2>2. 0 \in 0 .. MaxLoops /\ 0 \in 0 .. 0 /\ 0 \in Nat
      BY ConstantsAssumption
    <2>3. /\ req \in Requests /\ pc = "old" /\ inputs = <<>> /\ outs = <<>> /\ used = <<>>
          /\ picked = 0 /\ total = 0 /\ required = 0 /\ fee = 0 /\ have_change = FALSE
          /\ change_index = 0 /\ force_add_utxo = FALSE /\ iter = 0 /\ info = <<>>
      BY DEF Init
    <2> QED  BY <1>0, <2>1, <2>2, <2>3 DEF TypeOK
  <1>2. addressees \in Seq(Nat) /\ old_used_utxos \in Seq(Utxo) /\ Choice \in Seq(Utxo)
    BY <1>1, DerivedTypes
  <1>3. InputsInv /\ UsedInv /\ OutsInv /\ LoopInv
    BY <1>2 DEF Init, InputsInv, UsedInv, OutsInv, PaidInOrder, LoopInv, Building, Built, AfterCollect
  <1>4. ErrorInv
    <2>1. error = "none" => addressees # <<>> /\ (is_rbf \/ ~(send_all /\ Len(addressees) > 1))
      BY DEF Init
    <2>r. is_rbf /\ is_redeposit => Len(addressees) = 1
      BY <1>1, OneDeposit
    <2>2. addressees # <<>> => Len(addressees) >= 1
      BY <1>2
    <2>3. Len(addressees) \in Nat
      BY <1>2
    <2>4. ASSUME error = "none", send_all, is_rbf => is_redeposit PROVE Len(addressees) = 1
      <3> SUFFICES ASSUME ~is_rbf PROVE Len(addressees) = 1
        BY <2>4, <2>r
      <3>1. addressees # <<>> /\ ~(Len(addressees) > 1)
        BY <2>1, <2>4, Zenon
      <3> DEFINE n == Len(addressees)
      <3>2. n >= 1 /\ ~(n > 1) /\ n \in Nat
        BY <3>1, <2>2, <2>3
      <3> HIDE DEF n
      <3>3. n = 1
        BY <3>2
      <3> QED  BY <3>3 DEF n
    <2> QED  BY <2>4, <1>0 DEF ErrorInv
  <1>5. LeftInv /\ InsufficientIsReal /\ FeeRight /\ NoDust /\ PaysAddressees
    BY DEF Init, LeftInv, InsufficientIsReal, FeeRight, NoDust, PaysAddressees, Built
  <1> QED  BY <1>1, <1>3, <1>4, <1>5 DEF IInv

\* an error ends the call
LEMMA FailsKeeps ==
  ASSUME IInv, Next, NEW e \in Errors \ {"none"}, Fails(e)
  PROVE  IInv'
  <1>1. TypeOK' /\ error' # "none"
    BY DEF IInv, TypeOK, Fails, FirstError, details, tx, change, Errors
  <1>2. UsedInv' /\ OutsInv' /\ InputsInv' /\ LoopInv' /\ ErrorInv' /\ LeftInv'
    BY <1>1, Facts DEF IInv, Fails, FirstError, details, tx, change, UsedInv, OutsInv, PaidInOrder, InputsInv, LoopInv,
       ErrorInv, LeftInv, Building, Built, AfterCollect
  <1>3. InsufficientIsReal' /\ FeeRight' /\ NoDust' /\ PaysAddressees'
    BY <1>1 DEF Fails, InsufficientIsReal, FeeRight, NoDust, PaysAddressees, Built
  <1> QED  BY <1>1, <1>2, <1>3, Facts DEF IInv

\* a step within the call does not finish it
LEMMA NotDone ==
  ASSUME pc' # "done"
  PROVE  FeeRight' /\ NoDust' /\ PaysAddressees' /\ ~Built'
  BY DEF FeeRight, NoDust, PaysAddressees, Built

LEMMA AddOldKeeps ==
  ASSUME IInv, Next, AddOld PROVE IInv'
  <1>1. CASE Len(inputs) < Len(old_used_utxos)
    <2> DEFINE utxo == old_used_utxos[Len(inputs) + 1]
    <2>0. Len(inputs) + 1 \in 1 .. Len(old_used_utxos)
      BY <1>1, Facts DEF IInv, TypeOK
    <2>a. utxo \in Utxo
      BY <2>0, Facts, ElementType
    <2>1. utxo \in Utxo /\ utxo.satoshi \in Nat
      BY <2>a DEF Utxo
    <2>2. inputs' = Append(inputs, utxo) /\ total' = total + utxo.satoshi /\ pc' = pc
      BY <1>1 DEF AddOld, add_utxo
    <2> HIDE DEF utxo
    <2>3. TypeOK'
      BY <2>1, <2>2 DEF IInv, TypeOK, AddOld, details, change
    <2>b. /\ Len(inputs') = Len(inputs) + 1 /\ Len(inputs) \in Nat
          /\ \A i \in 1 .. Len(inputs) : inputs'[i] = inputs[i]
          /\ inputs'[Len(inputs) + 1] = utxo
      BY <2>1, <2>2, AppendFacts DEF IInv, TypeOK
    <2>4. InputsInv'
      <3>1. pc = "old" /\ pc' = "old" /\ used' = used
        BY <2>2 DEF AddOld
      <3>2. used = <<>> /\ \A i \in 1 .. Len(inputs) : inputs[i] = old_used_utxos[i]
        BY <3>1 DEF IInv, InputsInv
      <3>3. ASSUME NEW i \in 1 .. Len(inputs') PROVE inputs'[i] = old_used_utxos[i]
        BY <2>b, <3>2 DEF utxo
      <3>4. Len(inputs') <= Len(old_used_utxos)
        BY <2>0, <2>b
      <3> QED  BY <3>1, <3>2, <3>3, <3>4, Facts DEF InputsInv, Building, Built
    <2>5. UsedInv' /\ OutsInv' /\ ErrorInv' /\ LoopInv' /\ LeftInv'
      BY <2>2, Facts DEF IInv, AddOld, UsedInv, OutsInv, PaidInOrder, ErrorInv, LoopInv, LeftInv,
         Building, AfterCollect, details, change
    <2>6. InsufficientIsReal'
      BY <2>2 DEF AddOld, InsufficientIsReal
    <2> QED  BY <2>2, <2>3, <2>4, <2>5, <2>6, Facts, NotDone DEF IInv, AddOld
  <1>2. CASE ~(Len(inputs) < Len(old_used_utxos))
    <2>1. pc' = "addressees" /\ inputs' = inputs /\ total' = total
      BY <1>2 DEF AddOld
    <2>3. TypeOK'
      BY <2>1 DEF IInv, TypeOK, AddOld, details, change
    <2>4. InputsInv'
      BY <1>2, <2>1, Facts DEF IInv, TypeOK, AddOld, InputsInv, get_ga_signing_inputs, Built, details
    <2>5. UsedInv' /\ OutsInv' /\ ErrorInv' /\ LoopInv' /\ LeftInv'
      BY <2>1, Facts DEF IInv, TypeOK, AddOld, Refused, UsedInv, OutsInv, PaidInOrder, ErrorInv, LoopInv, LeftInv,
         Building, AfterCollect, details, change
    <2>6. InsufficientIsReal'
      BY <2>1 DEF AddOld, InsufficientIsReal
    <2> QED  BY <2>1, <2>3, <2>4, <2>5, <2>6, Facts, NotDone DEF IInv
  <1> QED  BY <1>1, <1>2

LEMMA AddAddresseeKeeps ==
  ASSUME IInv, Next, AddAddressee PROVE IInv'
  <1>0. UsedInv' /\ InputsInv' /\ LoopInv' /\ LeftInv' /\ InsufficientIsReal'
    BY Facts DEF IInv, AddAddressee, UsedInv, InputsInv, LoopInv, LeftInv, InsufficientIsReal,
       Building, Built, AfterCollect, details, change, get_ga_signing_inputs
  <1>1. CASE Len(outs) < Len(addressees)
    <2> DEFINE v == addressees[Len(outs) + 1]
               o == [to |-> Len(outs) + 1, satoshi |-> v]
    <2>1. v \in Nat
      BY <1>1, Facts DEF IInv, TypeOK
    <2>2. /\ outs' = Append(outs, o) /\ required' = required + v /\ pc' = pc
          /\ error' \in {error, "invalid_amount", "invalid_address"}
          /\ error' = "none" => error = "none" /\ ~TooSmall(v)
      BY <1>1 DEF AddAddressee, AddresseeErrors
    <2>3. error' = "none" => error = "none" /\ (~send_all => v >= Dust)
      BY <2>1, <2>2, Facts DEF TooSmall
    <2>4. o \in Output /\ o.to = Len(outs) + 1 /\ o.satoshi = v
      BY <2>1 DEF IInv, TypeOK, Output
    <2> HIDE DEF o
    <2>b. /\ outs' \in Seq(Output) /\ Len(outs') = Len(outs) + 1 /\ Len(outs) \in Nat
          /\ \A i \in 1 .. Len(outs) : outs'[i] = outs[i]
          /\ outs'[Len(outs) + 1] = o
      BY <2>2, <2>4, AppendFacts DEF IInv, TypeOK
    <2>5. TypeOK'
      BY <2>1, <2>2, <2>b DEF IInv, TypeOK, AddAddressee, details, change, Errors
    <2>6. OutsInv'
      <3>1. pc = "addressees" /\ pc' = "addressees" /\ have_change' = have_change
            /\ change_index' = change_index
        BY <2>2 DEF AddAddressee, change
      <3>2. \A i \in 1 .. Len(outs) : i # change_index =>
              /\ outs[i].to = i
              /\ ~send_all => /\ outs[i].satoshi = addressees[i]
                              /\ error = "none" => outs[i].satoshi >= Dust
        BY <3>1 DEF IInv, OutsInv, PaidInOrder, Building
      <3>3. ASSUME NEW i \in 1 .. Len(outs'), i # change_index
            PROVE  /\ outs'[i].to = i
                   /\ ~send_all => /\ outs'[i].satoshi = addressees[i]
                                   /\ error' = "none" => outs'[i].satoshi >= Dust
        <4>1. CASE i \in 1 .. Len(outs)
          BY <4>1, <3>2, <3>3, <2>b, <2>3
        <4>2. CASE i = Len(outs) + 1
          BY <4>2, <2>b, <2>3, <2>4
        <4> QED  BY <4>1, <4>2, <2>b
      <3>4. ~have_change /\ (is_rbf /\ send_all => is_redeposit)
        BY <3>1 DEF IInv, OutsInv, PaidInOrder, Building
      <3>5. Len(outs') <= Len(addressees)
        BY <1>1, <2>b, Facts
      <3> QED  BY <3>1, <3>3, <3>4, <3>5, Facts DEF OutsInv, PaidInOrder, Building, AfterCollect
    <2>7. ErrorInv'
      BY <2>2, Facts DEF IInv, ErrorInv, AddAddressee
    <2> QED  BY <1>0, <2>2, <2>5, <2>6, <2>7, Facts, NotDone DEF IInv, AddAddressee
  <1>2. CASE ~(Len(outs) < Len(addressees))
    <2>1. pc' = "collect" /\ outs' = outs /\ required' = required /\ error' = error
      BY <1>2 DEF AddAddressee
    <2>2. TypeOK'
      BY <2>1 DEF IInv, TypeOK, AddAddressee, details, change
    <2>3. OutsInv'
      <3>1. pc = "addressees" /\ ~have_change' /\ change_index' = change_index
        BY DEF IInv, AddAddressee, OutsInv, change
      <3>2. PaidInOrder' /\ (is_rbf' /\ send_all' => is_redeposit')
        BY <2>1, <3>1, Facts DEF IInv, OutsInv, PaidInOrder, Building
      <3>3. Len(outs') = Len(addressees')
        BY <1>2, <2>1, <3>1, Facts DEF IInv, TypeOK, OutsInv
      <3> QED  BY <2>1, <3>1, <3>2, <3>3 DEF OutsInv, AfterCollect
    <2>4. ErrorInv'
      BY <2>1, Facts DEF IInv, ErrorInv, AddAddressee
    <2> QED  BY <1>0, <2>1, <2>2, <2>3, <2>4, Facts, NotDone DEF IInv
  <1> QED  BY <1>1, <1>2

\* the outputs after a change output was added
LEMMA ChangeAdded ==
  ASSUME outs \in Seq(Output), outs' = Append(outs, [to |-> 0, satoshi |-> 0])
  PROVE  /\ outs' \in Seq(Output) /\ Len(outs') = Len(outs) + 1 /\ Len(outs) \in Nat
         /\ \A i \in 1 .. Len(outs) : outs'[i] = outs[i]
  <1>1. [to |-> 0, satoshi |-> 0] \in Output
    BY DEF Output
  <1> QED  BY <1>1, AppendFacts

\* the addressees' outputs when nothing but a change output was added
LEMMA OutsKept ==
  ASSUME IInv, Next, Building, Building', error' = "none" => error = "none",
         \/ outs' = outs /\ change_index' = change_index
         \/ /\ outs' = Append(outs, [to |-> 0, satoshi |-> 0])
            /\ change_index' = Len(outs) + 1 /\ change_index = 0
  PROVE  PaidInOrder'
  <1>0. outs \in Seq(Output)
    BY DEF IInv, TypeOK
  <1>1. \A i \in 1 .. Len(outs) : i # change_index =>
              /\ outs[i].to = i
              /\ ~send_all => /\ outs[i].satoshi = addressees[i]
                              /\ error = "none" => outs[i].satoshi >= Dust
    BY DEF IInv, OutsInv, PaidInOrder
  <1>2. CASE outs' = outs /\ change_index' = change_index
    BY <1>1, <1>2, Facts DEF PaidInOrder
  <1>3. CASE /\ outs' = Append(outs, [to |-> 0, satoshi |-> 0])
             /\ change_index' = Len(outs) + 1 /\ change_index = 0
    <2>1. /\ Len(outs') = Len(outs) + 1 /\ Len(outs) \in Nat
          /\ \A i \in 1 .. Len(outs) : outs'[i] = outs[i]
      BY <1>0, <1>3, ChangeAdded
    <2>2. \A i \in 1 .. Len(outs') : i # change_index' => i \in 1 .. Len(outs) /\ i # change_index
      BY <1>3, <2>1
    <2> QED  BY <1>1, <2>1, <2>2, Facts DEF PaidInOrder
  <1> QED  BY <1>2, <1>3

\* the outputs once all there are were collected
LEMMA OutsAfterCollect ==
  ASSUME AfterCollect', is_rbf' /\ send_all' => is_redeposit',
         Len(outs') = Len(addressees') + (IF have_change' THEN 1 ELSE 0),
         have_change' => change_index' = Len(outs'),
         send_all' => ~have_change',
         PaidInOrder'
  PROVE  OutsInv'
  <1>1. pc' \notin {"old", "addressees", "collect"} /\ pc' # "old" /\ pc' # "addressees"
        /\ pc' # "collect"
    BY DEF AfterCollect
  <1> QED  BY <1>1, Zenon DEF OutsInv

\* the inputs after a utxo of the wallet was added
LEMMA UtxoAdded ==
  ASSUME IInv, Next, Building, NEW utxo \in Utxo, add_utxo(utxo), used' = Append(used, utxo),
         Building', ~Built'
  PROVE  /\ inputs' \in Seq(Utxo) /\ used' \in Seq(Utxo) /\ total' \in Nat
         /\ Len(used') = Len(used) + 1 /\ Len(used) \in Nat
         /\ InputsInv'
  <1>1. inputs \in Seq(Utxo) /\ used \in Seq(Utxo) /\ total \in Nat /\ utxo.satoshi \in Nat
    BY DEF IInv, TypeOK, Utxo
  <1>2. inputs' = Append(inputs, utxo) /\ total' = total + utxo.satoshi
    BY DEF add_utxo
  <1>3. inputs' \in Seq(Utxo) /\ used' \in Seq(Utxo)
        /\ Len(used') = Len(used) + 1 /\ Len(used) \in Nat
    BY <1>1, <1>2, AppendFacts
  <1>4. inputs = old_used_utxos \o used
    BY DEF IInv, InputsInv, get_ga_signing_inputs
  <1>5. Append(old_used_utxos \o used, utxo) = old_used_utxos \o Append(used, utxo)
    <2>1. old_used_utxos \in Seq(Utxo)
      BY Facts
    <2>2. used \in Seq(Utxo) /\ utxo \in Utxo
      BY <1>1
    <2> QED  BY <2>1, <2>2, ConcatAppend, Zenon
  <1>6. inputs' = get_ga_signing_inputs'
    BY <1>2, <1>4, <1>5, Facts DEF get_ga_signing_inputs
  <1>7. InputsInv'
    BY <1>6 DEF InputsInv, Building, Built
  <1> QED  BY <1>1, <1>2, <1>3, <1>7

LEMMA CollectKeeps ==
  ASSUME IInv, Next, Collect PROVE IInv'
  <1>0. ErrorInv' /\ LeftInv' /\ InsufficientIsReal' /\ Building /\ Building' /\ pc' # "done"
    BY Facts DEF IInv, Collect, ErrorInv, LeftInv, InsufficientIsReal, Building
  <1>a. ~Built' /\ FeeRight' /\ NoDust' /\ PaysAddressees'
    BY <1>0, NotDone
  <1>1. CASE Len(used) < Len(Choice) /\ (req.manual \/ send_all \/ total < required)
    <2> DEFINE utxo == Choice[Len(used) + 1]
    <2>1. Len(used) + 1 \in 1 .. Len(Choice)
      BY <1>1, Facts DEF IInv, TypeOK
    <2>2. utxo \in Utxo
      BY <2>1, Facts, ElementType
    <2>3. /\ add_utxo(utxo) /\ used' = Append(used, utxo)
          /\ pc' = pc /\ outs' = outs /\ picked' = picked
          /\ have_change' = have_change /\ change_index' = change_index
      BY <1>1 DEF Collect, change
    <2> HIDE DEF utxo
    <2>4. /\ inputs' \in Seq(Utxo) /\ used' \in Seq(Utxo) /\ total' \in Nat
          /\ Len(used') = Len(used) + 1 /\ Len(used) \in Nat /\ InputsInv'
      BY <1>0, <1>a, <2>2, <2>3, UtxoAdded
    <2>5. TypeOK'
      BY <2>3, <2>4 DEF IInv, TypeOK, Collect
    <2>6. UsedInv'
      BY <1>1, <2>1, <2>3, <2>4, Facts DEF IInv, UsedInv, Collect, AfterCollect
    <2>7. OutsInv'
      <3>1. PaidInOrder'
        BY <1>0, <2>3, OutsKept DEF Collect
      <3> QED  BY <1>0, <2>3, <3>1, Facts DEF IInv, OutsInv, PaidInOrder, Collect, AfterCollect
    <2>8. LoopInv'
      BY <2>3 DEF IInv, LoopInv, Collect
    <2> QED  BY <1>0, <1>a, <2>4, <2>5, <2>6, <2>7, <2>8, Facts DEF IInv
  <1>2. CASE ~(Len(used) < Len(Choice) /\ (req.manual \/ send_all \/ total < required))
    <2>1. /\ pc' = "loop" /\ picked' = Len(used) /\ inputs' = inputs /\ used' = used
          /\ total' = total /\ error' = error
      BY <1>2 DEF Collect
    <2>2. \/ /\ is_rbf /\ ~is_redeposit
             /\ outs' = Append(outs, [to |-> 0, satoshi |-> 0])
             /\ have_change' = TRUE /\ change_index' = Len(outs) + 1
          \/ outs' = outs /\ have_change' = have_change /\ change_index' = change_index
      BY <1>2 DEF Collect, change
    <2>3. ~have_change /\ change_index = 0 /\ outs \in Seq(Output) /\ Len(outs) = Len(addressees)
      BY DEF IInv, TypeOK, OutsInv, PaidInOrder, Collect
    <2>a. \/ /\ have_change' /\ change_index' = Len(outs') /\ Len(outs') = Len(outs) + 1
             /\ is_rbf /\ ~is_redeposit
          \/ ~have_change' /\ change_index' = 0 /\ Len(outs') = Len(outs)
      BY <2>2, <2>3, ChangeAdded
    <2>b. outs' \in Seq(Output) /\ have_change' \in BOOLEAN /\ Len(used) \in Nat
      <3>1. have_change \in BOOLEAN /\ Len(used) \in Nat
        BY DEF IInv, TypeOK
      <3>2. outs' = Append(outs, [to |-> 0, satoshi |-> 0]) => outs' \in Seq(Output)
        BY <2>3, ChangeAdded
      <3> QED  BY <2>2, <2>3, <3>1, <3>2
    <2>4. TypeOK'
      BY <2>1, <2>a, <2>b DEF IInv, TypeOK, Collect
    <2>5. UsedInv' /\ InputsInv'
      <3>1. Len(used) <= Len(Choice) /\ Len(Choice) \in Nat
        BY Facts DEF IInv, UsedInv
      <3>2. UsedInv'
        BY <1>2, <2>1, <2>b, <3>1, Facts DEF UsedInv
      <3>3. inputs = get_ga_signing_inputs
        BY <1>0 DEF IInv, InputsInv
      <3>4. InputsInv'
        BY <2>1, <3>3, Facts DEF InputsInv, get_ga_signing_inputs
      <3> QED  BY <3>2, <3>4
    <2>6. OutsInv'
      <3>1. PaidInOrder'
        BY <1>0, <2>1, <2>2, <2>3, OutsKept
      <3>2. is_rbf /\ send_all => is_redeposit
        BY <1>0 DEF IInv, OutsInv
      <3>3. send_all => ~have_change'
        BY <3>2, <2>a
      <3>4. /\ Len(outs') = Len(addressees') + (IF have_change' THEN 1 ELSE 0)
            /\ have_change' => change_index' = Len(outs')
        BY <2>3, <2>a, <2>b, Facts
      <3>5. is_rbf' /\ send_all' => is_redeposit'
        BY <3>2, Facts
      <3>6. send_all' => ~have_change'
        BY <3>3, Facts
      <3>7. AfterCollect'
        BY <2>1 DEF AfterCollect
      <3> QED  BY <3>1, <3>4, <3>5, <3>6, <3>7, OutsAfterCollect, Zenon
    <2>7. LoopInv'
      BY <2>1, <2>b, Facts DEF IInv, TypeOK, LoopInv, Collect
    <2> QED  BY <1>0, <1>a, <2>4, <2>5, <2>6, <2>7, Facts DEF IInv
  <1> QED  BY <1>1, <1>2

-----------------------------------------------------------------------------
(* The loop.                                                               *)

\* what an iteration can rely on
LEMMA LoopFacts ==
  ASSUME IInv, Next, Looping
  PROVE  /\ pc = "loop" /\ iter < MaxLoops /\ iter \in Nat /\ MaxLoops \in Nat
         /\ Building /\ AfterCollect /\ picked \in Nat /\ picked <= Len(used)
         /\ inputs \in Seq(Utxo) /\ outs \in Seq(Output) /\ used \in Seq(Utxo) /\ Len(used) \in Nat
         /\ Len(outs) \in Nat /\ total \in Nat /\ required \in Nat /\ Fee \in Nat /\ Dust \in Nat
         /\ have_change \in BOOLEAN /\ force_add_utxo \in BOOLEAN
         /\ inputs = get_ga_signing_inputs
         /\ Len(outs) = Len(addressees) + (IF have_change THEN 1 ELSE 0)
         /\ have_change => change_index = Len(outs)
         /\ send_all => ~have_change
         /\ is_rbf /\ send_all => is_redeposit
         /\ PaidInOrder /\ error # "insufficient_funds"
  <1>1. pc = "loop" /\ iter < MaxLoops /\ Building /\ AfterCollect
    BY DEF Looping, Building, AfterCollect
  <1>2. TypeOK /\ InputsInv /\ OutsInv /\ ErrorInv /\ LoopInv
    BY DEF IInv
  <1>3. /\ inputs \in Seq(Utxo) /\ outs \in Seq(Output) /\ used \in Seq(Utxo) /\ Len(used) \in Nat
        /\ Len(outs) \in Nat /\ total \in Nat /\ required \in Nat
        /\ have_change \in BOOLEAN /\ force_add_utxo \in BOOLEAN /\ picked \in Nat
        /\ iter \in 0 .. MaxLoops
    BY <1>2 DEF TypeOK
  <1>4. error # "insufficient_funds" /\ inputs = get_ga_signing_inputs /\ picked <= Len(used)
    BY <1>1, <1>2 DEF ErrorInv, InputsInv, LoopInv
  <1>5. /\ Len(outs) = Len(addressees) + (IF have_change THEN 1 ELSE 0)
        /\ have_change => change_index = Len(outs)
        /\ send_all => ~have_change
        /\ is_rbf /\ send_all => is_redeposit
        /\ PaidInOrder
    BY <1>1, <1>2, Zenon DEF OutsInv
  <1>6. MaxLoops \in Nat /\ iter \in Nat
    BY <1>3, ConstantsAssumption
  <1> QED  BY <1>1, <1>3, <1>4, <1>5, <1>6, Facts

\* what holds after an iteration that leaves the inputs alone, and no change
\* output or one that was added
LEMMA InputsKept ==
  ASSUME IInv, Next, Looping, inputs' = inputs, used' = used, AfterCollect'
  PROVE  InputsInv' /\ UsedInv'
  <1>1. InputsInv'
    BY LoopFacts, Facts DEF InputsInv, get_ga_signing_inputs, AfterCollect
  <1>2. UsedInv'
    BY LoopFacts, Facts DEF IInv, UsedInv
  <1> QED  BY <1>1, <1>2

LEMMA InsufficientKeeps ==
  ASSUME IInv, Next, Insufficient PROVE IInv'
  <1>1. Looping /\ ~send_all /\ Short /\ Exhausted
    BY DEF Insufficient
  <1>2. /\ error' = FirstError("insufficient_funds") /\ fee' = Fee /\ pc' = "finish"
        /\ force_add_utxo' = FALSE /\ inputs' = inputs /\ outs' = outs /\ used' = used
        /\ total' = total /\ required' = required /\ have_change' = have_change
        /\ change_index' = change_index /\ iter' = iter /\ info' = info /\ picked' = picked
    BY DEF Insufficient, details, tx, change
  <1>3. TypeOK' /\ error' # "none"
    BY <1>2, Facts DEF IInv, TypeOK, FirstError, Errors
  <1>4. AfterCollect' /\ Building' /\ Building /\ ~Built'
    BY <1>1, <1>2, LoopFacts DEF AfterCollect, Building, Built
  <1>5. InputsInv' /\ UsedInv'
    BY <1>1, <1>2, <1>4, InputsKept
  <1>6. OutsInv'
    <2>1. PaidInOrder'
      BY <1>2, <1>3, <1>4, OutsKept
    <2>2. /\ Len(outs') = Len(addressees') + (IF have_change' THEN 1 ELSE 0)
          /\ have_change' => change_index' = Len(outs')
          /\ send_all' => ~have_change'
          /\ is_rbf' /\ send_all' => is_redeposit'
      BY <1>1, <1>2, LoopFacts, Facts
    <2> QED  BY <1>4, <2>1, <2>2, OutsAfterCollect, Zenon
  <1>7. ErrorInv' /\ LoopInv' /\ LeftInv'
    BY <1>2, <1>3 DEF ErrorInv, LoopInv, LeftInv
  <1>8. InsufficientIsReal'
    <2>1. Len(used) = Len(Choice)
      BY <1>1, LoopFacts DEF IInv, UsedInv, Exhausted, Choice
    <2>2. total < required + Fee + (IF have_change \/ send_all THEN Dust ELSE 0)
      <3>1. force_add_utxo => have_change /\ total < required + Fee + Dust
        BY <1>1, LoopFacts DEF IInv, LoopInv
      <3>2. total < required + Fee \/ force_add_utxo
        BY <1>1 DEF Short
      <3> QED  BY <1>1, <3>1, <3>2, LoopFacts
    <2>3. Fee' = Fee
      BY <1>1, <1>2, LoopFacts, Facts, SameShape
    <2> QED  BY <1>2, <2>1, <2>2, <2>3, Facts DEF InsufficientIsReal
  <1> QED  BY <1>2, <1>3, <1>5, <1>6, <1>7, <1>8, Facts, NotDone DEF IInv

LEMMA AddUtxoKeeps ==
  ASSUME IInv, Next, AddUtxo PROVE IInv'
  <1> DEFINE utxo == utxos[Len(used) + 1]
  <1>1. Looping /\ ~send_all /\ ~req.manual /\ Len(used) # Len(utxos)
    BY DEF AddUtxo, Exhausted
  <1>2. Choice = utxos /\ Len(used) < Len(utxos) /\ Len(utxos) \in Nat
    BY <1>1, LoopFacts, Facts DEF Choice, IInv, UsedInv
  <1>3. Len(used) + 1 \in 1 .. Len(utxos)
    BY <1>1, <1>2, LoopFacts
  <1>4. utxo \in Utxo
    BY <1>3, Facts, ElementType
  <1>5. /\ add_utxo(utxo) /\ used' = Append(used, utxo) /\ force_add_utxo' = FALSE
        /\ iter' = iter + 1 /\ pc' = pc /\ fee' = fee /\ required' = required /\ error' = error
        /\ info' = info /\ picked' = picked /\ outs' = outs
        /\ have_change' = have_change /\ change_index' = change_index
    BY DEF AddUtxo, Continue, details, change
  <1> HIDE DEF utxo
  <1>6. Building /\ Building' /\ AfterCollect' /\ ~Built' /\ pc' = "loop"
    BY <1>1, <1>5, LoopFacts DEF Building, AfterCollect, Built
  <1>7. /\ inputs' \in Seq(Utxo) /\ used' \in Seq(Utxo) /\ total' \in Nat
        /\ Len(used') = Len(used) + 1 /\ Len(used) \in Nat /\ InputsInv'
    BY <1>4, <1>5, <1>6, UtxoAdded
  <1>8. TypeOK'
    <2>1. iter' \in 0 .. MaxLoops
      BY <1>1, <1>5, LoopFacts
    <2> QED  BY <1>5, <1>7, <2>1 DEF IInv, TypeOK
  <1>9. UsedInv'
    BY <1>1, <1>2, <1>3, <1>7, Facts DEF UsedInv
  <1>10. OutsInv'
    <2>1. PaidInOrder'
      BY <1>5, <1>6, OutsKept
    <2>2. /\ Len(outs') = Len(addressees') + (IF have_change' THEN 1 ELSE 0)
          /\ have_change' => change_index' = Len(outs')
          /\ send_all' => ~have_change'
          /\ is_rbf' /\ send_all' => is_redeposit'
      BY <1>1, <1>5, LoopFacts, Facts
    <2> QED  BY <1>6, <2>1, <2>2, OutsAfterCollect, Zenon
  <1>11. LoopInv'
    <2>1. iter <= 2 * (Len(used) - picked) + (IF have_change THEN 1 ELSE 0)
                                             + (IF force_add_utxo THEN 1 ELSE 0)
      BY <1>1, LoopFacts DEF IInv, LoopInv
    <2>2. iter + 1 <= 2 * (Len(used) + 1 - picked) + (IF have_change THEN 1 ELSE 0) + 0
      <3> DEFINE n == Len(used)
                 h == IF have_change THEN 1 ELSE 0
                 f == IF force_add_utxo THEN 1 ELSE 0
      <3>1. iter <= 2 * (n - picked) + h + f
        BY <2>1
      <3>2. n \in Nat /\ picked \in Nat /\ iter \in Nat /\ h \in 0 .. 1 /\ f \in 0 .. 1
        BY <1>1, LoopFacts
      <3> HIDE DEF n, h, f
      <3>3. iter + 1 <= 2 * (n + 1 - picked) + h + 0
        BY <3>1, <3>2
      <3> QED  BY <3>3 DEF n, h
    <2>3. picked' <= Len(used')
      BY <1>1, <1>5, <1>7, LoopFacts
    <2>4. iter' <= 2 * (Len(used') - picked') + (IF have_change' THEN 1 ELSE 0)
                                              + (IF force_add_utxo' THEN 1 ELSE 0)
      <3>1. (IF have_change' THEN 1 ELSE 0) = (IF have_change THEN 1 ELSE 0)
        BY <1>5, Zenon
      <3>2. (IF force_add_utxo' THEN 1 ELSE 0) = 0
        BY <1>5
      <3>3. iter' = iter + 1 /\ Len(used') = Len(used) + 1 /\ picked' = picked
        BY <1>5, <1>7
      <3> DEFINE h == IF have_change THEN 1 ELSE 0
                 g == IF have_change' THEN 1 ELSE 0
                 f == IF force_add_utxo' THEN 1 ELSE 0
      <3>4. /\ iter + 1 <= 2 * (Len(used) + 1 - picked) + h + 0 /\ g = h /\ f = 0 /\ h \in 0 .. 1
            /\ Len(used) \in Nat /\ picked \in Nat /\ iter \in Nat
        BY <1>1, <2>2, <3>1, <3>2, LoopFacts
      <3> HIDE DEF h, g, f
      <3>5. iter' <= 2 * (Len(used') - picked') + g + f
        BY <3>3, <3>4
      <3> QED  BY <3>5 DEF g, f
    <2>5. ~force_add_utxo' /\ pc' = "loop"
      BY <1>5, <1>6
    <2> QED  BY <2>3, <2>4, <2>5 DEF LoopInv
  <1>12. ErrorInv' /\ LeftInv' /\ InsufficientIsReal'
    BY <1>1, <1>5, <1>6, LoopFacts, Facts DEF IInv, ErrorInv, LeftInv, InsufficientIsReal
  <1> QED  BY <1>6, <1>7, <1>8, <1>9, <1>10, <1>11, <1>12, Facts, NotDone DEF IInv

LEMMA SettleKeeps ==
  ASSUME IInv, Next, Settle PROVE IInv'
  <1>1. Looping /\ ~send_all /\ ~Short /\ Settled
    BY DEF Settle, Enough
  <1>2. /\ fee' = WithDonation /\ pc' = "finish" /\ error' = error
        /\ force_add_utxo' = force_add_utxo /\ inputs' = inputs /\ outs' = outs /\ used' = used
        /\ total' = total /\ required' = required /\ have_change' = have_change
        /\ change_index' = change_index /\ iter' = iter /\ info' = info /\ picked' = picked
    BY DEF Settle, Leave, details, tx, change
  <1>3. AfterCollect' /\ Building' /\ Building /\ ~Built'
    BY <1>1, <1>2, LoopFacts DEF AfterCollect, Building, Built
  <1>4. total >= required + Fee /\ (have_change <=> total - (required + Fee) >= Dust)
    BY <1>1, LoopFacts DEF Short, Settled, Left
  <1>5. /\ have_change => fee' = Fee /\ total >= required + Fee + Dust
        /\ ~have_change => fee' \in Fee .. Fee + Dust - 1
        /\ fee' \in Nat
    BY <1>1, <1>2, <1>4, LoopFacts DEF WithDonation, Left
  <1>6. TypeOK'
    BY <1>2, <1>5 DEF IInv, TypeOK
  <1>7. InputsInv' /\ UsedInv'
    BY <1>1, <1>2, <1>3, InputsKept
  <1>8. OutsInv'
    <2>1. PaidInOrder'
      BY <1>2, <1>3, OutsKept
    <2>2. /\ Len(outs') = Len(addressees') + (IF have_change' THEN 1 ELSE 0)
          /\ have_change' => change_index' = Len(outs')
          /\ send_all' => ~have_change'
          /\ is_rbf' /\ send_all' => is_redeposit'
      BY <1>1, <1>2, LoopFacts, Facts
    <2> QED  BY <1>3, <2>1, <2>2, OutsAfterCollect, Zenon
  <1>9. Fee' = Fee
    BY <1>1, <1>2, LoopFacts, Facts, SameShape
  <1>10. LeftInv'
    BY <1>1, <1>2, <1>5, <1>9, Facts, LoopFacts DEF LeftInv
  <1>11. ErrorInv' /\ LoopInv' /\ InsufficientIsReal'
    BY <1>1, <1>2, LoopFacts, Facts DEF IInv, ErrorInv, LoopInv, InsufficientIsReal
  <1> QED  BY <1>2, <1>6, <1>7, <1>8, <1>10, <1>11, Facts, NotDone DEF IInv

LEMMA DustyChangeKeeps ==
  ASSUME IInv, Next, DustyChange PROVE IInv'
  <1>1. Looping /\ ~send_all /\ ~Short /\ ~Settled /\ have_change
    BY DEF DustyChange, Enough
  <1>2. /\ force_add_utxo' = TRUE /\ fee' = fee /\ pc' = pc /\ error' = error
        /\ inputs' = inputs /\ outs' = outs /\ used' = used
        /\ total' = total /\ required' = required /\ have_change' = have_change
        /\ change_index' = change_index /\ iter' = iter + 1 /\ info' = info /\ picked' = picked
    BY DEF DustyChange, ForceAnother, Continue, details, change
  <1>3. AfterCollect' /\ Building' /\ Building /\ ~Built' /\ pc' = "loop"
    BY <1>1, <1>2, LoopFacts DEF AfterCollect, Building, Built
  <1>4. total < required + Fee + Dust /\ ~force_add_utxo
    BY <1>1, LoopFacts DEF Short, Settled, Left
  <1>5. TypeOK'
    <2>1. iter' \in 0 .. MaxLoops
      BY <1>1, <1>2, LoopFacts
    <2> QED  BY <1>2, <2>1 DEF IInv, TypeOK
  <1>6. InputsInv' /\ UsedInv'
    BY <1>1, <1>2, <1>3, InputsKept
  <1>7. OutsInv'
    <2>1. PaidInOrder'
      BY <1>2, <1>3, OutsKept
    <2>2. /\ Len(outs') = Len(addressees') + (IF have_change' THEN 1 ELSE 0)
          /\ have_change' => change_index' = Len(outs')
          /\ send_all' => ~have_change'
          /\ is_rbf' /\ send_all' => is_redeposit'
      BY <1>1, <1>2, LoopFacts, Facts
    <2> QED  BY <1>3, <2>1, <2>2, OutsAfterCollect, Zenon
  <1>8. Fee' = Fee
    BY <1>1, <1>2, LoopFacts, Facts, SameShape
  <1>9. LoopInv'
    <2>1. iter <= 2 * (Len(used) - picked) + (IF have_change THEN 1 ELSE 0)
                                             + (IF force_add_utxo THEN 1 ELSE 0)
      BY <1>1, LoopFacts DEF IInv, LoopInv
    <2>2. iter + 1 <= 2 * (Len(used) - picked) + 1 + 1
      <3>1. iter \in Nat /\ picked \in Nat /\ Len(used) \in Nat
        BY <1>1, LoopFacts
      <3>2. iter <= 2 * (Len(used) - picked) + 1 + 0
        BY <1>1, <1>4, <2>1
      <3> QED  BY <3>1, <3>2
    <2>3. iter' <= 2 * (Len(used') - picked') + (IF have_change' THEN 1 ELSE 0)
                                              + (IF force_add_utxo' THEN 1 ELSE 0)
      BY <1>1, <1>2, <2>2
    <2>4. picked' <= Len(used')
      BY <1>1, <1>2, LoopFacts
    <2>5. have_change' /\ total' < required' + Fee' + Dust
      BY <1>1, <1>2, <1>4, <1>8
    <2> QED  BY <1>3, <2>3, <2>4, <2>5 DEF LoopInv
  <1>10. ErrorInv' /\ LeftInv' /\ InsufficientIsReal'
    BY <1>1, <1>2, <1>3, LoopFacts, Facts DEF IInv, ErrorInv, LeftInv, InsufficientIsReal
  <1> QED  BY <1>3, <1>5, <1>6, <1>7, <1>9, <1>10, Facts, NotDone DEF IInv

LEMMA AddChangeKeeps ==
  ASSUME IInv, Next, AddChange PROVE IInv'
  <1>1. Looping /\ ~send_all /\ ~Short /\ ~have_change
    BY DEF AddChange, Enough
  <1>2. /\ outs' = Append(outs, [to |-> 0, satoshi |-> 0])
        /\ have_change' = TRUE /\ change_index' = Len(outs) + 1
        /\ force_add_utxo' = force_add_utxo /\ fee' = fee /\ pc' = pc /\ error' = error
        /\ inputs' = inputs /\ used' = used /\ total' = total /\ required' = required
        /\ iter' = iter + 1 /\ info' = info /\ picked' = picked
    BY DEF AddChange, GoOn, Continue, details
  <1>3. AfterCollect' /\ Building' /\ Building /\ ~Built' /\ pc' = "loop"
    BY <1>1, <1>2, LoopFacts DEF AfterCollect, Building, Built
  <1>4. ~force_add_utxo /\ change_index = 0
    BY <1>1 DEF Short, IInv, TypeOK
  <1>a. outs' \in Seq(Output) /\ Len(outs') = Len(outs) + 1 /\ Len(outs) \in Nat
    BY <1>1, <1>2, LoopFacts, ChangeAdded
  <1>5. TypeOK'
    <2>1. iter' \in 0 .. MaxLoops
      BY <1>1, <1>2, LoopFacts
    <2>2. change_index' \in 0 .. Len(outs') /\ change_index' # 0
      BY <1>2, <1>a
    <2> QED  BY <1>2, <1>a, <2>1, <2>2 DEF IInv, TypeOK
  <1>6. InputsInv' /\ UsedInv'
    BY <1>1, <1>2, <1>3, InputsKept
  <1>7. OutsInv'
    <2>1. PaidInOrder'
      BY <1>2, <1>3, <1>4, OutsKept
    <2>2. /\ Len(outs') = Len(addressees') + (IF have_change' THEN 1 ELSE 0)
          /\ have_change' => change_index' = Len(outs')
          /\ send_all' => ~have_change'
          /\ is_rbf' /\ send_all' => is_redeposit'
      BY <1>1, <1>2, <1>a, LoopFacts, Facts
    <2> QED  BY <1>3, <2>1, <2>2, OutsAfterCollect, Zenon
  <1>8. LoopInv'
    <2>1. iter <= 2 * (Len(used) - picked) + (IF have_change THEN 1 ELSE 0)
                                             + (IF force_add_utxo THEN 1 ELSE 0)
      BY <1>1, LoopFacts DEF IInv, LoopInv
    <2>2. iter + 1 <= 2 * (Len(used) - picked) + 1 + 0
      BY <1>1, <1>4, <2>1, LoopFacts
    <2> QED  BY <1>1, <1>2, <1>3, <1>4, <2>2, LoopFacts DEF LoopInv
  <1>9. ErrorInv' /\ LeftInv' /\ InsufficientIsReal'
    BY <1>1, <1>2, <1>3, LoopFacts, Facts DEF IInv, ErrorInv, LeftInv, InsufficientIsReal
  <1> QED  BY <1>3, <1>5, <1>6, <1>7, <1>8, <1>9, Facts, NotDone DEF IInv

LEMMA SendAllKeeps ==
  ASSUME IInv, Next, SendAll PROVE IInv'
  <1>1. Looping /\ send_all /\ outs # <<>>
    BY DEF SendAll
  <1>2. /\ fee' = Fee /\ pc' = "finish" /\ inputs' = inputs /\ used' = used /\ total' = total
        /\ force_add_utxo' = force_add_utxo /\ have_change' = have_change
        /\ change_index' = change_index /\ iter' = iter /\ info' = info /\ picked' = picked
    BY DEF SendAll, Leave, details, change
  <1>3. AfterCollect' /\ Building' /\ Building /\ ~Built' /\ ~have_change /\ change_index = 0
    BY <1>1, <1>2, LoopFacts DEF AfterCollect, Building, Built, IInv, TypeOK
  <1>4. Len(outs) \in Nat /\ Len(outs) >= 1
    BY <1>1, LoopFacts
  <1>5. /\ \/ TooLittle /\ error' = FirstError("insufficient_funds") /\ outs' = outs /\ required' = required
           \/ /\ ~TooLittle /\ total >= Fee + Dust /\ error' = error
              /\ required' = total - Fee
              /\ outs' = [outs EXCEPT ![1].satoshi = total - Fee]
        /\ error' = "none" => error = "none"
    BY <1>1, LoopFacts DEF SendAll, TooLittle, FirstError
  <1>6. /\ outs' \in Seq(Output) /\ Len(outs') = Len(outs) /\ required' \in Nat
        /\ \A i \in 1 .. Len(outs) : outs'[i].to = outs[i].to
        /\ ~TooLittle => outs'[1].satoshi = total - Fee
    <2>1. CASE outs' = outs /\ required' = required /\ TooLittle
      BY <2>1, <1>1, LoopFacts
    <2>2. CASE /\ total >= Fee + Dust
               /\ required' = total - Fee
               /\ outs' = [outs EXCEPT ![1].satoshi = total - Fee]
      <3> DEFINE v == total - Fee
      <3>1. v \in Nat
        BY <2>2, <1>1, LoopFacts
      <3> HIDE DEF v
      <3>2. outs' = [outs EXCEPT ![1] = [@ EXCEPT !.satoshi = v]]
        BY <2>2 DEF v
      <3>3. outs \in Seq(Output) /\ outs[1] \in Output
        BY <1>1, <1>4, LoopFacts
      <3>4. [outs[1] EXCEPT !.satoshi = v] \in Output /\ [outs[1] EXCEPT !.satoshi = v].to = outs[1].to
            /\ [outs[1] EXCEPT !.satoshi = v].satoshi = v
        BY <3>1, <3>3 DEF Output
      <3>5. /\ outs' \in Seq(Output) /\ Len(outs') = Len(outs)
            /\ outs'[1] = [outs[1] EXCEPT !.satoshi = v]
            /\ \A i \in 2 .. Len(outs) : outs'[i] = outs[i]
        BY <1>4, <3>2, <3>3, <3>4
      <3>6. \A i \in 1 .. Len(outs) : outs'[i].to = outs[i].to
        <4> SUFFICES ASSUME NEW i \in 1 .. Len(outs) PROVE outs'[i].to = outs[i].to
          OBVIOUS
        <4>1. CASE i = 1
          BY <4>1, <3>4, <3>5
        <4>2. CASE i \in 2 .. Len(outs)
          BY <4>2, <3>5
        <4> QED  BY <1>4, <4>1, <4>2
      <3> QED  BY <2>2, <3>1, <3>4, <3>5, <3>6 DEF v
    <2> QED  BY <1>5, <2>1, <2>2
  <1>7. TypeOK'
    <2>1. error' \in Errors
      BY <1>5 DEF IInv, TypeOK, FirstError, Errors
    <2> QED  BY <1>2, <1>6, <2>1, Facts DEF IInv, TypeOK
  <1>8. InputsInv' /\ UsedInv'
    BY <1>1, <1>2, <1>3, InputsKept
  <1>9. OutsInv'
    <2>1. PaidInOrder'
      BY <1>1, <1>2, <1>6, LoopFacts, Facts DEF PaidInOrder
    <2>2. /\ Len(outs') = Len(addressees') + (IF have_change' THEN 1 ELSE 0)
          /\ have_change' => change_index' = Len(outs')
          /\ send_all' => ~have_change'
          /\ is_rbf' /\ send_all' => is_redeposit'
      BY <1>1, <1>2, <1>3, <1>6, LoopFacts, Facts
    <2> QED  BY <1>3, <2>1, <2>2, OutsAfterCollect, Zenon
  <1>10. Fee' = Fee
    BY <1>1, <1>2, <1>6, LoopFacts, Facts, SameShape
  <1>11. LeftInv'
    <2> SUFFICES ASSUME error' = "none" PROVE LeftInv'
      BY DEF LeftInv
    <2>1. ~TooLittle
      BY <1>5 DEF FirstError
    <2>2. outs'[1].satoshi >= Dust
      BY <1>1, <1>6, <2>1, LoopFacts DEF TooLittle
    <2> QED  BY <1>1, <1>2, <1>3, <1>10, <2>2, Facts DEF LeftInv
  <1>12. InsufficientIsReal'
    <2> SUFFICES ASSUME error' = "insufficient_funds" PROVE InsufficientIsReal'
      BY DEF InsufficientIsReal
    <2>1. TooLittle /\ required' = required
      BY <1>1, <1>5, LoopFacts
    <2>2. Len(used) = Len(Choice)
      BY <1>1, LoopFacts DEF IInv, UsedInv
    <2>3. total < required + Fee + Dust
      BY <1>1, <2>1, LoopFacts DEF TooLittle
    <2> QED  BY <1>1, <1>2, <1>10, <2>1, <2>2, <2>3, Facts DEF InsufficientIsReal
  <1>13. ErrorInv' /\ LoopInv'
    BY <1>2, <1>5, Facts DEF IInv, ErrorInv, LoopInv
  <1> QED  BY <1>2, <1>7, <1>8, <1>9, <1>11, <1>12, <1>13, Facts, NotDone DEF IInv

-----------------------------------------------------------------------------
(* The end.                                                                *)

\* what the end of the call can rely on if it ends without an error
LEMMA EndFacts ==
  ASSUME IInv, Next, pc = "finish"
  PROVE  /\ AfterLoop \in Errors
         /\ AfterLoop = "none" => error = "none"
         /\ outs \in Seq(Output) /\ Len(outs) \in Nat /\ change_index \in 0 .. Len(outs)
         /\ (have_change <=> change_index # 0) /\ have_change \in BOOLEAN
         /\ inputs = get_ga_signing_inputs
         /\ Len(outs) = Len(addressees) + (IF have_change THEN 1 ELSE 0)
         /\ have_change => change_index = Len(outs)
         /\ send_all => ~have_change
         /\ PaidInOrder
         /\ total \in Nat /\ required \in Nat /\ fee \in Nat /\ U64 \in Nat
         /\ error = "none" =>
              /\ IF have_change \/ send_all THEN fee = Fee ELSE fee \in Fee .. Fee + Dust - 1
              /\ have_change => total >= required + fee + Dust
              /\ send_all => Len(addressees) = 1 /\ outs[1].satoshi >= Dust
  <1>1. Building /\ AfterCollect
    BY DEF Building, AfterCollect
  <1>2. TypeOK /\ InputsInv /\ OutsInv /\ ErrorInv /\ LeftInv
    BY DEF IInv
  <1>3. /\ outs \in Seq(Output) /\ Len(outs) \in Nat /\ change_index \in 0 .. Len(outs)
        /\ (have_change <=> change_index # 0) /\ have_change \in BOOLEAN
        /\ total \in Nat /\ required \in Nat /\ fee \in Nat /\ U64 \in Nat /\ error \in Errors
    BY <1>2, ConstantsAssumption DEF TypeOK
  <1>4. AfterLoop \in Errors /\ (AfterLoop = "none" => error = "none")
    BY <1>3 DEF AfterLoop, FirstError, Errors
  <1>5. inputs = get_ga_signing_inputs
    BY <1>1, <1>2 DEF InputsInv
  <1>6. /\ Len(outs) = Len(addressees) + (IF have_change THEN 1 ELSE 0)
        /\ have_change => change_index = Len(outs)
        /\ send_all => ~have_change
        /\ PaidInOrder
    BY <1>1, <1>2, Zenon DEF OutsInv
  <1>7. error = "none" =>
              /\ IF have_change \/ send_all THEN fee = Fee ELSE fee \in Fee .. Fee + Dust - 1
              /\ have_change => total >= required + fee + Dust
              /\ send_all => Len(addressees) = 1 /\ outs[1].satoshi >= Dust
    <2>1. is_rbf /\ send_all => is_redeposit
      BY <1>1, <1>2 DEF OutsInv
    <2> QED  BY <1>2, <2>1, Zenon DEF LeftInv, ErrorInv
  <1> QED  BY <1>3, <1>4, <1>5, <1>6, <1>7, Zenon

\* what a call that ends leaves of the invariant to show
LEMMA DoneKeeps ==
  ASSUME IInv, Next, pc = "finish", pc' = "done", TypeOK',
         inputs' = inputs, used' = used, Len(outs') = Len(outs), fee' = fee,
         have_change' = have_change, error' = "none" => error = "none",
         NoDust', PaysAddressees'
  PROVE  IInv'
  <1>1. InputsInv' /\ UsedInv' /\ OutsInv' /\ LoopInv' /\ LeftInv' /\ InsufficientIsReal'
    BY EndFacts, Facts DEF IInv, InputsInv, UsedInv, OutsInv, LoopInv, LeftInv, InsufficientIsReal,
       Building, AfterCollect, get_ga_signing_inputs
  <1>2. ErrorInv'
    BY Facts DEF IInv, ErrorInv
  <1>3. FeeRight'
    <2> SUFFICES ASSUME Built' PROVE FeeRight'
      BY DEF FeeRight
    <2>1. error = "none"
      BY DEF Built
    <2>2. Fee' = Fee
      <3>1. inputs \in Seq(Utxo) /\ outs \in Seq(Output) /\ req \in Requests
        BY DEF IInv, TypeOK
      <3> QED  BY <3>1, Facts, SameShape
    <2>3. IF have_change' \/ send_all' THEN fee' = Fee' ELSE fee' \in Fee' .. Fee' + Dust - 1
      BY <2>1, <2>2, EndFacts, Facts
    <2> QED  BY <2>3, Zenon DEF FeeRight, Fee
  <1> QED  BY <1>1, <1>2, <1>3, Facts DEF IInv

LEMMA FinishEmptyKeeps ==
  ASSUME IInv, Next, FinishEmpty PROVE IInv'
  <1>1. /\ pc = "finish" /\ outs = <<>> /\ pc' = "done" /\ error' = AfterLoop
        /\ inputs' = inputs /\ used' = used /\ outs' = outs /\ fee' = fee
        /\ have_change' = have_change /\ change_index' = change_index /\ total' = total
        /\ required' = required /\ force_add_utxo' = force_add_utxo /\ iter' = iter
        /\ info' = info /\ picked' = picked
    BY DEF FinishEmpty, details, tx, change
  <1>2. TypeOK'
    BY <1>1, EndFacts DEF IInv, TypeOK
  <1>3. NoDust'
    BY <1>1 DEF NoDust
  <1>4. addressees = <<>> /\ ~have_change
    <2>1. Len(outs) = 0
      BY <1>1
    <2>2. ~have_change
      BY <2>1, <1>1, EndFacts
    <2>3. Len(addressees) = 0
      BY <2>1, <2>2, <1>1, EndFacts, Facts
    <2> QED  BY <2>2, <2>3, Facts
  <1>5. PaysAddressees'
    <2>1. addressees' = <<>> /\ outs' = <<>> /\ ~have_change'
      BY <1>1, <1>4, Facts
    <2> QED  BY <2>1 DEF PaysAddressees
  <1> QED  BY <1>1, <1>2, <1>3, <1>5, EndFacts, DoneKeeps

\* The outputs once the change has its amount and its place
Placed(s, c, n, v) == Exchanged([s EXCEPT ![c].satoshi = v], c, n)

LEMMA Exchange ==
  ASSUME NEW s \in Seq(Output), NEW c \in 1 .. Len(s), NEW n \in 1 .. Len(s), NEW v \in Int
  PROVE  /\ Placed(s, c, n, v) \in Seq(Output) /\ Len(Placed(s, c, n, v)) = Len(s)
         /\ Placed(s, c, n, v)[n] = [s[c] EXCEPT !.satoshi = v]
         /\ c # n => Placed(s, c, n, v)[c] = s[n]
         /\ \A i \in 1 .. Len(s) : i # c /\ i # n => Placed(s, c, n, v)[i] = s[i]
  <1> DEFINE o == [s[c] EXCEPT !.satoshi = v]
             p == [s EXCEPT ![c] = o]
             q == [p EXCEPT ![c] = p[n]]
             r == Placed(s, c, n, v)
  <1>1. Len(s) \in Nat /\ s[c] \in Output /\ s[n] \in Output
    BY ElementType
  <1>2. o \in Output
    BY <1>1 DEF Output
  <1>3. [s EXCEPT ![c].satoshi = v] = p
    OBVIOUS
  <1>4. r = [q EXCEPT ![n] = p[c]]
    BY <1>3 DEF Exchanged, Placed
  <1> HIDE DEF o, r
  <1>5. /\ p \in Seq(Output) /\ Len(p) = Len(s) /\ p[c] = o
        /\ \A i \in 1 .. Len(s) : i # c => p[i] = s[i]
    BY <1>1, <1>2
  <1> HIDE DEF p
  <1>6. p[n] \in Output
    BY <1>5, ElementType
  <1>7. /\ q \in Seq(Output) /\ Len(q) = Len(s) /\ q[c] = p[n]
        /\ \A i \in 1 .. Len(s) : i # c => q[i] = p[i]
    BY <1>1, <1>5, <1>6
  <1> HIDE DEF q
  <1>8. /\ r \in Seq(Output) /\ Len(r) = Len(s) /\ r[n] = o
        /\ \A i \in 1 .. Len(s) : i # n => r[i] = q[i]
    <2>1. r = [q EXCEPT ![n] = o]
      BY <1>4, <1>5
    <2> QED  BY <1>1, <1>2, <1>7, <2>1
  <1>9. (c # n => r[c] = s[n]) /\ \A i \in 1 .. Len(s) : i # c /\ i # n => r[i] = s[i]
    BY <1>5, <1>7, <1>8
  <1> QED  BY <1>8, <1>9 DEF o, r

LEMMA FinishKeeps ==
  ASSUME IInv, Next, Finish PROVE IInv'
  <1>1. /\ pc = "finish" /\ pc' = "done"
        /\ inputs' = inputs /\ used' = used /\ fee' = fee
        /\ have_change' = have_change /\ total' = total
        /\ required' = required /\ force_add_utxo' = force_add_utxo /\ iter' = iter
        /\ picked' = picked
        /\ error' = IF is_rbf /\ AfterLoop = "none" /\ BadReplacement
                    THEN "invalid_replacement_fee_rate" ELSE AfterLoop
        /\ info' = IF valid /\ AfterLoop = "none" THEN Labels ELSE <<>>
    BY DEF Finish, details
  <1>2. PICK new \in DOMAIN outs : update_change_output(new)
    BY DEF Finish
  <1>3. new \in 1 .. Len(outs) /\ outs \in Seq(Output) /\ Len(outs) \in Nat
    BY <1>1, EndFacts
  <1>4. error' \in Errors /\ (error' = "none" => error = "none")
    BY <1>1, EndFacts DEF Errors
  <1> DEFINE v == Minus(total, required + fee)
  <1>5. v \in Int /\ (total >= required + fee + Dust => v >= Dust)
    <2>1. total \in Nat /\ required \in Nat /\ fee \in Nat /\ U64 \in Nat /\ Dust \in Nat
      BY <1>1, EndFacts, Facts
    <2> QED  BY <2>1 DEF Minus
  <1>6. have_change => /\ outs' = Exchanged([outs EXCEPT ![change_index].satoshi = v], change_index, new)
                       /\ change_index' = new
    BY <1>2 DEF update_change_output
  <1>7. ~have_change => outs' = outs /\ change_index' = change_index
    BY <1>2 DEF update_change_output
  <1> HIDE DEF v
  <1>8. ASSUME have_change
        PROVE  /\ change_index \in 1 .. Len(outs)
               /\ outs' \in Seq(Output) /\ Len(outs') = Len(outs)
               /\ outs'[new] = [outs[change_index] EXCEPT !.satoshi = v]
               /\ change_index # new => outs'[change_index] = outs[new]
               /\ \A i \in 1 .. Len(outs) : i # change_index /\ i # new => outs'[i] = outs[i]
    <2>1. change_index \in 1 .. Len(outs)
      BY <1>1, <1>8, EndFacts
    <2>2. outs' = Placed(outs, change_index, new, v)
      BY <1>6, <1>8 DEF Placed
    <2> DEFINE r == Placed(outs, change_index, new, v)
    <2>3. /\ r \in Seq(Output) /\ Len(r) = Len(outs)
          /\ r[new] = [outs[change_index] EXCEPT !.satoshi = v]
          /\ change_index # new => r[change_index] = outs[new]
          /\ \A i \in 1 .. Len(outs) : i # change_index /\ i # new => r[i] = outs[i]
      BY <1>3, <1>5, <2>1, Exchange
    <2> HIDE DEF r
    <2> QED  BY <2>1, <2>2, <2>3 DEF r
  <1>9. outs' \in Seq(Output) /\ Len(outs') = Len(outs) /\ change_index' \in 0 .. Len(outs)
        /\ (have_change <=> change_index' # 0)
    BY <1>1, <1>3, <1>6, <1>7, <1>8, EndFacts
  <1>10. TypeOK'
    <2>1. Labels \in Seq(Nat)
      <3>1. DOMAIN outs' = 1 .. Len(outs') /\ Len(outs') \in Nat /\ change_index' \in Nat
        BY <1>9, <1>3
      <3> DEFINE l(i) == IF i = change_index' THEN 0
                         ELSE IF change_index' # 0 /\ i > change_index' THEN i - 1 ELSE i
      <3>2. \A i \in 1 .. Len(outs') : l(i) \in Nat
        BY <3>1
      <3>3. Labels = [i \in 1 .. Len(outs') |-> l(i)]
        BY <3>1 DEF Labels
      <3> HIDE DEF l
      <3>4. [i \in 1 .. Len(outs') |-> l(i)] \in Seq(Nat)
        BY <3>1, <3>2
      <3> QED  BY <3>3, <3>4
    <2>2. info' \in Seq(Nat)
      BY <1>1, <2>1
    <2> QED  BY <1>1, <1>4, <1>9, <2>2 DEF IInv, TypeOK
  <1>a. ASSUME NEW i \in 1 .. Len(outs), i # change_index, ~send_all, error = "none"
        PROVE  /\ outs[i].to = i /\ outs[i].satoshi = addressees[i] /\ outs[i].satoshi >= Dust
    BY <1>a, <1>1, EndFacts DEF PaidInOrder
  <1>11. NoDust'
    <2> SUFFICES ASSUME Built', NEW i \in 1 .. Len(outs') PROVE outs'[i].satoshi >= Dust
      BY <1>9 DEF NoDust
    <2>1. error = "none"
      BY <1>4 DEF Built
    <2>2. CASE have_change
      <3>1. ~send_all /\ v >= Dust
        BY <2>1, <2>2, <1>1, <1>5, EndFacts
      <3>2. CASE i = new
        <4>1. outs[change_index] \in Output
          BY <1>3, <1>8, <2>2, ElementType
        <4>2. outs'[i].satoshi = v
          BY <3>2, <4>1, <1>8, <2>2 DEF Output
        <4> QED  BY <4>2, <3>1
      <3>3. CASE i # new /\ i = change_index
        BY <3>3, <3>1, <2>1, <2>2, <1>3, <1>8, <1>a
      <3>4. CASE i # new /\ i # change_index
        BY <3>4, <3>1, <2>1, <2>2, <1>3, <1>8, <1>a
      <3> QED  BY <3>2, <3>3, <3>4
    <2>3. CASE ~have_change /\ send_all
      <3>a. Len(addressees) = 1 /\ outs[1].satoshi >= Dust
        BY <2>1, <2>3, <1>1, EndFacts, Zenon
      <3>b. Len(outs) = Len(addressees) + 0
        BY <2>3, <1>1, EndFacts
      <3>1. Len(outs) = 1 /\ outs[1].satoshi >= Dust
        BY <3>a, <3>b
      <3>2. i = 1
        BY <3>1, <1>9
      <3> QED  BY <2>3, <1>7, <3>1, <3>2
    <2>4. CASE ~have_change /\ ~send_all
      <3>1. change_index = 0
        BY <2>4, <1>1, EndFacts
      <3> QED  BY <2>1, <2>4, <3>1, <1>7, <1>9, <1>a
    <2> QED  BY <2>2, <2>3, <2>4
  <1>12. PaysAddressees'
    <2> SUFFICES ASSUME Built', ~send_all
                 PROVE  /\ Len(outs') = Len(addressees) + (IF have_change' THEN 1 ELSE 0)
                        /\ \A i \in DOMAIN addressees : \E j \in DOMAIN outs' :
                              outs'[j] = [to |-> i, satoshi |-> addressees[i]]
      BY Facts DEF PaysAddressees
    <2>1. error = "none" /\ DOMAIN outs' = 1 .. Len(outs) /\ DOMAIN addressees = 1 .. Len(addressees)
          /\ Len(addressees) \in Nat
      BY <1>4, <1>9, Facts DEF Built
    <2>2. Len(outs') = Len(addressees) + (IF have_change' THEN 1 ELSE 0)
      BY <1>1, <1>9, EndFacts
    <2>3. ASSUME NEW i \in 1 .. Len(addressees)
          PROVE  \E j \in 1 .. Len(outs) : outs'[j] = [to |-> i, satoshi |-> addressees[i]]
      <3>1. i \in 1 .. Len(outs) /\ i # change_index
        BY <2>1, <1>1, EndFacts
      <3>2. outs[i] \in Output
        BY <3>1, <1>3, ElementType
      <3>3. outs[i] = [to |-> i, satoshi |-> addressees[i]]
        BY <3>1, <3>2, <2>1, <1>a DEF Output
      <3>4. CASE ~have_change
        BY <3>1, <3>3, <3>4, <1>7
      <3>5. CASE have_change /\ i # new
        BY <3>1, <3>3, <3>5, <1>8
      <3>6. CASE have_change /\ i = new
        BY <3>1, <3>3, <3>6, <1>8
      <3> QED  BY <3>4, <3>5, <3>6
    <2> QED  BY <2>1, <2>2, <2>3
  <1> QED  BY <1>1, <1>4, <1>9, <1>10, <1>11, <1>12, DoneKeeps

-----------------------------------------------------------------------------
(* The sums of amounts.                                                    *)

\* The amounts of a sequence of utxos or outputs
Amounts(s) == Len(s) \in Nat /\ \A i \in 1 .. Len(s) : s[i].satoshi \in Int

\* The recursion of Sums is well defined
LEMMA SumsDef ==
  ASSUME NEW s, Amounts(s)
  PROVE  /\ \A n \in 0 .. Len(s) : Sums(s)[n] \in Int
         /\ Sums(s)[0] = 0
         /\ \A n \in 1 .. Len(s) : Sums(s)[n] = Sums(s)[n - 1] + s[n].satoshi
  <1> DEFINE N == Len(s)
             v(n) == s[n].satoshi
             step == [n \in 1 .. N |-> [x \in Int |-> x + v(n)]]
             Body(f) == [n \in 0 .. N |-> IF n = 0 THEN 0 ELSE f[n - 1] + v(n)]
  <1>0. N \in Nat /\ \A n \in 1 .. N : v(n) \in Int
    BY DEF Amounts
  <1>s. Sums(s) = CHOOSE h : h = Body(h)
    BY DEF Sums
  <1> HIDE DEF N, v
  <1>1. step \in [1 .. N -> [Int -> Int]]
    BY <1>0
  <1>2. PICK f \in [0 .. N -> Int] : f[0] = 0 /\ \A n \in 1 .. N : f[n] = step[n][f[n - 1]]
    <2> HIDE DEF step
    <2>1. PICK S, z, w : S = Int /\ z = 0 /\ w = step
      OBVIOUS
    <2>2. z \in S /\ w \in Steps(N, S)
      BY <1>1, <2>1 DEF Steps
    <2>3. \E f \in Runs(N, S) : Unrolls(f, N, z, w)
      BY <1>0, <2>2, Recursion
    <2> QED  BY <2>1, <2>3 DEF Runs, Unrolls
  <1>3. f = Body(f)
    <2>1. ASSUME NEW n \in 1 .. N PROVE step[n][f[n - 1]] = f[n - 1] + v(n)
      <3>1. n - 1 \in 0 .. N
        BY <1>0
      <3>2. f[n - 1] \in Int
        BY <3>1, <1>2
      <3> QED  BY <3>2
    <2>2. ASSUME NEW n \in 0 .. N PROVE f[n] = Body(f)[n]
      <3>1. CASE n = 0
        BY <3>1, <1>2
      <3>2. CASE n \in 1 .. N
        BY <3>2, <1>0, <1>2, <2>1
      <3> QED  BY <1>0, <3>1, <3>2
    <2>3. f = [n \in 0 .. N |-> f[n]]
      OBVIOUS
    <2> QED  BY <2>2, <2>3
  <1>4. PICK g : g = Sums(s)
    OBVIOUS
  <1>5. g = Body(g)
    <2> HIDE DEF Body
    <2> QED  BY <1>s, <1>4, <1>3
  <1>6. \A n \in 0 .. N : g[n] \in Int
    <2> DEFINE T == {n \in 0 .. N : g[n] \in Int}
    <2>1. 0 \in T
      BY <1>0, <1>5
    <2>2. \A n \in 0 .. N : n < N /\ n \in T => n + 1 \in T
      BY <1>0, <1>5
    <2> HIDE DEF T
    <2>3. \A n \in 0 .. N : n \in T
      BY <1>0, <2>1, <2>2, BoundedInduction
    <2> QED  BY <2>3 DEF T
  <1>7. /\ \A n \in 0 .. N : g[n] \in Int
        /\ g[0] = 0
        /\ \A n \in 1 .. N : g[n] = g[n - 1] + v(n)
    BY <1>0, <1>5, <1>6
  <1> QED  BY <1>4, <1>7 DEF N, v

\* The sums of two sequences that differ in one amount
LEMMA SumsDiffer ==
  ASSUME NEW s, NEW t, Amounts(s), Amounts(t), Len(s) <= Len(t),
         NEW k \in 1 .. Len(s), \A i \in 1 .. Len(s) : i # k => t[i].satoshi = s[i].satoshi
  PROVE  \A n \in 0 .. Len(s) : Sums(t)[n] =
            IF n < k THEN Sums(s)[n] ELSE Sums(s)[n] + (t[k].satoshi - s[k].satoshi)
  <1> DEFINE N == Len(s)
             d == t[k].satoshi - s[k].satoshi
             T == {n \in 0 .. N : Sums(t)[n] = IF n < k THEN Sums(s)[n] ELSE Sums(s)[n] + d}
  <1>1. N \in Nat /\ Len(t) \in Nat /\ N <= Len(t) /\ k \in 1 .. N /\ k \in 1 .. Len(t)
    BY DEF Amounts
  <1>2. d \in Int
    BY <1>1 DEF Amounts
  <1>3. 0 \in T
    BY <1>1, SumsDef
  <1>4. ASSUME NEW n \in 0 .. N, n < N, n \in T PROVE n + 1 \in T
    <2>1. n + 1 \in 1 .. Len(s) /\ n + 1 \in 1 .. Len(t) /\ n \in 0 .. Len(t)
      BY <1>1, <1>4
    <2>2. Sums(s)[n + 1] = Sums(s)[n] + s[n + 1].satoshi /\ Sums(s)[n] \in Int
      BY <2>1, <1>1, SumsDef
    <2>3. Sums(t)[n + 1] = Sums(t)[n] + t[n + 1].satoshi /\ Sums(t)[n] \in Int
      BY <2>1, <1>1, SumsDef
    <2>4. s[n + 1].satoshi \in Int /\ t[n + 1].satoshi \in Int
      BY <2>1 DEF Amounts
    <2>5. CASE n + 1 = k
      BY <2>1, <2>2, <2>3, <2>4, <2>5, <1>1, <1>4
    <2>6. CASE n + 1 # k
      <3>1. t[n + 1].satoshi = s[n + 1].satoshi
        BY <2>1, <2>6
      <3> HIDE DEF d
      <3> QED  BY <2>1, <2>2, <2>3, <2>4, <2>6, <3>1, <1>1, <1>2, <1>4
    <2> QED  BY <2>5, <2>6
  <1> HIDE DEF T
  <1>5. \A n \in 0 .. N : n \in T
    BY <1>1, <1>3, <1>4, BoundedInduction
  <1> QED  BY <1>5 DEF T

\* A sum is an integer, and nothing sums up to nothing
LEMMA SumType ==
  ASSUME NEW s, Amounts(s)
  PROVE  Sum(s) \in Int /\ (Len(s) = 0 => Sum(s) = 0)
  BY SumsDef DEF Amounts, Sum

\* One more at the end
LEMMA SumGrows ==
  ASSUME NEW s, NEW t, Amounts(s), Amounts(t), Len(t) = Len(s) + 1,
         \A i \in 1 .. Len(s) : t[i].satoshi = s[i].satoshi
  PROVE  Sum(t) = Sum(s) + t[Len(t)].satoshi
  <1>1. Len(s) \in Nat /\ Len(t) \in Nat
    BY DEF Amounts
  <1>2. Sums(t)[Len(s)] = Sums(s)[Len(s)]
    <2>1. CASE Len(s) = 0
      BY <2>1, <1>1, SumsDef
    <2>2. CASE Len(s) # 0
      <3>1. Len(s) \in 1 .. Len(s) /\ Len(s) \in 0 .. Len(s) /\ Len(s) <= Len(t)
        BY <2>2, <1>1
      <3>2. Sums(t)[Len(s)] = Sums(s)[Len(s)] + (t[Len(s)].satoshi - s[Len(s)].satoshi)
        BY <3>1, <1>1, SumsDiffer
      <3>3. t[Len(s)].satoshi = s[Len(s)].satoshi /\ s[Len(s)].satoshi \in Int /\ Sums(s)[Len(s)] \in Int
        BY <3>1, SumsDef DEF Amounts
      <3> QED  BY <3>2, <3>3
    <2> QED  BY <2>1, <2>2
  <1>3. Sums(t)[Len(t)] = Sums(t)[Len(s)] + t[Len(t)].satoshi
    <2>1. Len(t) \in 1 .. Len(t) /\ Len(t) - 1 = Len(s)
      BY <1>1
    <2>2. Sums(t)[Len(t)] = Sums(t)[Len(t) - 1] + t[Len(t)].satoshi
      BY <2>1, SumsDef
    <2> QED  BY <2>1, <2>2
  <1> QED  BY <1>2, <1>3 DEF Sum

\* One amount replaced
LEMMA SumReplaced ==
  ASSUME NEW s, NEW t, Amounts(s), Amounts(t), Len(t) = Len(s), NEW k \in 1 .. Len(s),
         \A i \in 1 .. Len(s) : i # k => t[i].satoshi = s[i].satoshi
  PROVE  Sum(t) = Sum(s) + (t[k].satoshi - s[k].satoshi)
  <1>1. Len(s) \in Nat /\ Len(s) \in 0 .. Len(s) /\ ~(Len(s) < k)
    BY DEF Amounts
  <1>2. Sums(t)[Len(s)] = Sums(s)[Len(s)] + (t[k].satoshi - s[k].satoshi)
    BY <1>1, SumsDiffer
  <1> QED  BY <1>2 DEF Sum

\* Two amounts exchanged, and the first of them replaced
LEMMA SumExchanged ==
  ASSUME NEW s, NEW t, Amounts(s), Amounts(t), Len(t) = Len(s),
         NEW c \in 1 .. Len(s), NEW n \in 1 .. Len(s),
         c # n => t[c].satoshi = s[n].satoshi,
         \A i \in 1 .. Len(s) : i # c /\ i # n => t[i].satoshi = s[i].satoshi
  PROVE  Sum(t) = Sum(s) + (t[n].satoshi - s[c].satoshi)
  <1>0. Len(s) \in Nat
    BY DEF Amounts
  <1>1. CASE c = n
    BY <1>1, SumReplaced
  <1>2. CASE c # n
    <2> DEFINE u == [i \in 1 .. Len(s) |-> [satoshi |-> IF i = c THEN s[n].satoshi ELSE s[i].satoshi]]
    <2>1. /\ Amounts(u) /\ Len(u) = Len(s) /\ u[c].satoshi = s[n].satoshi
          /\ \A i \in 1 .. Len(s) : i # c => u[i].satoshi = s[i].satoshi
      <3>1. u \in Seq([satoshi : Int]) /\ Len(u) = Len(s)
        BY <1>0 DEF Amounts
      <3>2. \A i \in 1 .. Len(s) : u[i].satoshi = IF i = c THEN s[n].satoshi ELSE s[i].satoshi
        OBVIOUS
      <3> HIDE DEF u
      <3> QED  BY <1>0, <3>1, <3>2 DEF Amounts
    <2> HIDE DEF u
    <2>2. Sum(u) = Sum(s) + (s[n].satoshi - s[c].satoshi)
      BY <2>1, SumReplaced
    <2>3. \A i \in 1 .. Len(u) : i # n => t[i].satoshi = u[i].satoshi
      BY <2>1, <1>2
    <2>4. Sum(t) = Sum(u) + (t[n].satoshi - s[n].satoshi)
      <3>1. n \in 1 .. Len(u) /\ u[n].satoshi = s[n].satoshi /\ Len(t) = Len(u)
        BY <2>1, <1>2
      <3>2. Sum(t) = Sum(u) + (t[n].satoshi - u[n].satoshi)
        BY <2>1, <2>3, <3>1, SumReplaced
      <3> QED  BY <3>1, <3>2
    <2>5. Sum(s) \in Int /\ s[n].satoshi \in Int /\ s[c].satoshi \in Int
          /\ t[n].satoshi \in Int
      BY SumType DEF Amounts
    <2> QED  BY <2>2, <2>4, <2>5
  <1> QED  BY <1>1, <1>2

\* Utxos and outputs have amounts that can be added up
LEMMA UtxoAmounts ==
  ASSUME NEW s \in Seq(Utxo) PROVE Amounts(s)
  <1>1. Len(s) \in Nat /\ \A i \in 1 .. Len(s) : s[i] \in Utxo
    BY ElementType
  <1>2. \A u \in Utxo : u.satoshi \in Int
    BY DEF Utxo
  <1>3. \A i \in 1 .. Len(s) : s[i].satoshi \in Int
    BY <1>1, <1>2
  <1> QED  BY <1>1, <1>3 DEF Amounts

LEMMA OutputAmounts ==
  ASSUME NEW s \in Seq(Output) PROVE Amounts(s)
  <1>1. Len(s) \in Nat /\ \A i \in 1 .. Len(s) : s[i] \in Output
    BY ElementType
  <1>2. \A u \in Output : u.satoshi \in Int
    BY DEF Output
  <1>3. \A i \in 1 .. Len(s) : s[i].satoshi \in Int
    BY <1>1, <1>2
  <1> QED  BY <1>1, <1>3 DEF Amounts

-----------------------------------------------------------------------------
(* The balance of the transaction, kept beside IInv.                       *)

\* the outputs make up what is required, the change not yet having its amount
OutsSum ==
    pc # "done" =>
        /\ error = "none" => Sum(outs) = required
        /\ have_change => outs[change_index].satoshi = 0

\* without a change output nothing is left over
NothingLeft == pc = "finish" /\ error = "none" /\ ~have_change => total = required + fee

BalanceInv == Sum(inputs) = total /\ OutsSum /\ NothingLeft /\ Balanced

\* Every utxo added is accounted for
LEMMA InputsSum ==
  ASSUME IInv, IInv', Next, Sum(inputs) = total
  PROVE  Sum(inputs') = total'
  <1>0. inputs \in Seq(Utxo) /\ total \in Nat
    BY DEF IInv, TypeOK
  <1>1. ASSUME NEW u \in Utxo, add_utxo(u) PROVE Sum(inputs') = total'
    <2>1. inputs' = Append(inputs, u) /\ total' = total + u.satoshi
      BY <1>1 DEF add_utxo
    <2>2. PICK a, b : a = inputs /\ b = inputs'
      OBVIOUS
    <2>3. a \in Seq(Utxo) /\ b \in Seq(Utxo) /\ b = Append(a, u)
      BY <1>0, <2>1, <2>2, AppendFacts
    <2>4. Len(a) \in Nat /\ Len(b) = Len(a) + 1 /\ b[Len(a) + 1] = u
          /\ \A i \in 1 .. Len(a) : b[i].satoshi = a[i].satoshi
      BY <2>3, AppendFacts
    <2>5. Sum(b) = Sum(a) + b[Len(b)].satoshi
      BY <2>3, <2>4, UtxoAmounts, SumGrows
    <2> QED  BY <2>1, <2>2, <2>4, <2>5
  <1>2. CASE inputs' = inputs /\ total' = total
    BY <1>2
  <1>3. CASE AddOld
    <2>1. CASE Len(inputs) < Len(old_used_utxos)
      <3>1. Len(inputs) + 1 \in 1 .. Len(old_used_utxos)
        BY <2>1, <1>0, Facts
      <3>2. old_used_utxos[Len(inputs) + 1] \in Utxo
        BY <3>1, Facts, ElementType
      <3> QED  BY <1>1, <1>3, <2>1, <3>2 DEF AddOld
    <2>2. CASE ~(Len(inputs) < Len(old_used_utxos))
      BY <1>2, <1>3, <2>2 DEF AddOld
    <2> QED  BY <2>1, <2>2
  <1>4. CASE Collect
    <2>1. CASE Len(used) < Len(Choice) /\ (req.manual \/ send_all \/ total < required)
      <3>b. used \in Seq(Utxo)
        BY DEF IInv, TypeOK
      <3>a. Len(used) \in Nat /\ Len(Choice) \in Nat
        BY <3>b, Facts
      <3>1. Len(used) + 1 \in 1 .. Len(Choice)
        BY <2>1, <3>a
      <3>2. Choice[Len(used) + 1] \in Utxo
        BY <3>1, Facts, ElementType
      <3> QED  BY <1>1, <1>4, <2>1, <3>2 DEF Collect
    <2>2. CASE ~(Len(used) < Len(Choice) /\ (req.manual \/ send_all \/ total < required))
      BY <1>2, <1>4, <2>2 DEF Collect
    <2> QED  BY <2>1, <2>2
  <1>5. CASE AddUtxo
    <2>1. Looping /\ ~req.manual /\ Len(used) # Len(utxos)
      BY <1>5 DEF AddUtxo, Exhausted
    <2>2. Len(used) + 1 \in 1 .. Len(utxos)
      BY <2>1, LoopFacts, Facts DEF Choice, IInv, UsedInv
    <2>3. utxos[Len(used) + 1] \in Utxo
      BY <2>2, Facts, ElementType
    <2> QED  BY <1>1, <1>5, <2>3 DEF AddUtxo
  <1>6. CASE \/ Refuse \/ AddAddressee \/ SendAll \/ SendAllToNobody \/ Insufficient
             \/ Settle \/ DustyChange \/ AddChange \/ Endless \/ Finish \/ FinishEmpty
    BY <1>2, <1>6 DEF Refuse, AddAddressee, SendAll, SendAllToNobody, Insufficient,
       Settle, DustyChange, AddChange, Endless, Finish, FinishEmpty, Fails, tx
  <1> QED  BY <1>3, <1>4, <1>5, <1>6 DEF Next

\* An output of amount v added at the end
LEMMA OutputAdded ==
  ASSUME NEW s \in Seq(Output), NEW o \in Output
  PROVE  Sum(Append(s, o)) = Sum(s) + o.satoshi /\ Sum(s) \in Int
  <1>1. PICK b : b = Append(s, o)
    OBVIOUS
  <1>2. b \in Seq(Output) /\ Len(s) \in Nat /\ Len(b) = Len(s) + 1 /\ b[Len(s) + 1] = o
        /\ \A i \in 1 .. Len(s) : b[i].satoshi = s[i].satoshi
    BY <1>1, AppendFacts
  <1>3. Sum(b) = Sum(s) + b[Len(b)].satoshi
    BY <1>2, OutputAmounts, SumGrows
  <1> QED  BY <1>1, <1>2, <1>3, OutputAmounts, SumType

\* Steps before the end that leave the outputs alone
LEMMA OutsUntouched ==
  ASSUME OutsSum, pc # "done", outs' = outs, required' = required, have_change' = have_change,
         change_index' = change_index, error' = "none" => error = "none"
  PROVE  OutsSum'
  BY DEF OutsSum

\* A change output without an amount yet
LEMMA ChangeSum ==
  ASSUME IInv, OutsSum, pc # "done", required' = required, error' = error,
         outs' = Append(outs, [to |-> 0, satoshi |-> 0]), change_index' = Len(outs) + 1
  PROVE  OutsSum'
  <1>1. [to |-> 0, satoshi |-> 0] \in Output /\ [to |-> 0, satoshi |-> 0].satoshi = 0
    BY DEF Output
  <1>2. outs \in Seq(Output)
    BY DEF IInv, TypeOK
  <1>3. PICK o \in Output : o = [to |-> 0, satoshi |-> 0] /\ o.satoshi = 0
    BY <1>1
  <1>4. Sum(Append(outs, o)) = Sum(outs) + 0 /\ Sum(outs) \in Int
    BY <1>2, <1>3, OutputAdded
  <1>5. Append(outs, o)[Len(outs) + 1] = o
    BY <1>2, <1>3, AppendFacts
  <1>6. Sum(outs') = Sum(outs) /\ outs'[change_index'].satoshi = 0
    BY <1>3, <1>4, <1>5
  <1> QED  BY <1>6 DEF OutsSum

\* An addressee's output and what is required grow together
LEMMA AddresseeSum ==
  ASSUME IInv, Next, OutsSum, AddAddressee
  PROVE  OutsSum'
  <1>1. CASE Len(outs) < Len(addressees)
    <2> DEFINE v == addressees[Len(outs) + 1]
               o == [to |-> Len(outs) + 1, satoshi |-> v]
    <2>1. outs \in Seq(Output) /\ Len(outs) \in Nat /\ pc = "addressees" /\ ~have_change
      BY DEF IInv, TypeOK, AddAddressee, OutsInv
    <2>2. v \in Nat
      BY <1>1, <2>1, Facts
    <2>3. o \in Output /\ o.satoshi = v
      BY <2>1, <2>2 DEF Output
    <2>4. /\ outs' = Append(outs, o) /\ required' = required + v /\ have_change' = have_change
          /\ error' \in {error, "invalid_amount", "invalid_address"}
      BY <1>1 DEF AddAddressee, AddresseeErrors, change
    <2> HIDE DEF o, v
    <2>5. Sum(outs') = Sum(outs) + v
      BY <2>1, <2>3, <2>4, OutputAdded
    <2> QED  BY <2>1, <2>4, <2>5 DEF OutsSum
  <1>2. CASE ~(Len(outs) < Len(addressees))
    BY <1>2, OutsUntouched DEF AddAddressee, change
  <1> QED  BY <1>1, <1>2

\* Everything goes to the only addressee there is when there is no error
LEMMA SendAllSum ==
  ASSUME IInv, IInv', Next, OutsSum, SendAll
  PROVE  OutsSum' /\ NothingLeft'
  <1>1. Looping /\ send_all /\ outs # <<>>
    BY DEF SendAll
  <1>2. fee' = Fee /\ pc' = "finish" /\ total' = total /\ have_change' = have_change
        /\ change_index' = change_index
    BY DEF SendAll, Leave, details, change
  <1>3. ~have_change /\ Len(outs) = Len(addressees) /\ total \in Nat /\ Fee \in Nat
        /\ outs \in Seq(Output) /\ required \in Nat
    BY <1>1, LoopFacts, Facts
  <1>4. CASE TooLittle
    <2>1. error' # "none"
      BY <1>4 DEF SendAll, FirstError
    <2> QED  BY <1>2, <1>3, <2>1 DEF OutsSum, NothingLeft
  <1>5. CASE ~TooLittle
    <2>1. /\ required' = total - Fee /\ error' = error
          /\ outs' = [outs EXCEPT ![1].satoshi = total - Fee]
      BY <1>5 DEF SendAll
    <2> SUFFICES ASSUME error = "none" PROVE Sum(outs') = total - Fee
      BY <1>2, <1>3, <2>1 DEF OutsSum, NothingLeft
    <2>2. Len(addressees) = 1
      BY <1>1, LoopFacts DEF IInv, ErrorInv
    <2>3. Len(outs) = 1 /\ 1 \in 1 .. Len(outs) /\ outs[1] \in Output
      BY <2>2, <1>3
    <2>4. PICK a, b, v : a = outs /\ b = outs' /\ v = total - Fee
      OBVIOUS
    <2>5. v \in Int /\ a \in Seq(Output) /\ b = [a EXCEPT ![1].satoshi = v] /\ Len(a) = 1
      BY <1>3, <2>1, <2>3, <2>4
    <2>6. [a[1] EXCEPT !.satoshi = v] \in Output /\ [a[1] EXCEPT !.satoshi = v].satoshi = v
      BY <2>3, <2>4, <2>5 DEF Output
    <2>7. b \in Seq(Output) /\ Len(b) = Len(a) /\ b[1].satoshi = v
      <3>1. b = [a EXCEPT ![1] = [a[1] EXCEPT !.satoshi = v]]
        BY <2>5
      <3> QED  BY <2>5, <2>6, <3>1
    <2>8. \A i \in 1 .. Len(a) : i # 1 => b[i].satoshi = a[i].satoshi
      BY <2>5
    <2>9. Sum(b) = Sum(a) + (v - a[1].satoshi)
      <3>1. 1 \in 1 .. Len(a)
        BY <2>5
      <3>a. Amounts(a) /\ Amounts(b)
        BY <2>5, <2>7, OutputAmounts
      <3>2. Sum(b) = Sum(a) + (b[1].satoshi - a[1].satoshi)
        BY <2>7, <2>8, <3>1, <3>a, SumReplaced
      <3> QED  BY <3>2, <2>7
    <2>10. Sum(a) = a[1].satoshi /\ a[1].satoshi \in Int
      <3>1. Amounts(a) /\ 1 \in 1 .. Len(a)
        BY <2>5, OutputAmounts
      <3>2. Sums(a)[1] = Sums(a)[1 - 1] + a[1].satoshi /\ Sums(a)[0] = 0 /\ a[1].satoshi \in Int
        BY <3>1, SumsDef DEF Amounts
      <3> QED  BY <2>5, <3>2 DEF Sum
    <2> QED  BY <2>4, <2>5, <2>9, <2>10
  <1> QED  BY <1>4, <1>5

\* The change output gets exactly what is left, wherever it is put
LEMMA FinishSum ==
  ASSUME IInv, IInv', Next, BalanceInv, Finish, error' = "none"
  PROVE  Sum(inputs') = Sum(outs') + fee'
  <1>1. pc = "finish" /\ inputs' = inputs /\ fee' = fee /\ total' = total
    BY DEF Finish
  <1>2. error = "none"
    BY <1>1, EndFacts DEF Finish
  <1>3. /\ outs \in Seq(Output) /\ Len(outs) \in Nat /\ outs' \in Seq(Output)
        /\ total \in Nat /\ required \in Nat /\ fee \in Nat /\ Dust \in Nat
        /\ Sum(inputs) = total /\ Sum(outs) = required
    BY <1>1, <1>2, EndFacts, Facts DEF BalanceInv, OutsSum, IInv, TypeOK
  <1>4. PICK new \in DOMAIN outs : update_change_output(new)
    BY DEF Finish
  <1>5. CASE ~have_change
    <2>1. outs' = outs
      BY <1>4, <1>5 DEF update_change_output
    <2>2. total = required + fee
      BY <1>1, <1>2, <1>5 DEF BalanceInv, NothingLeft
    <2> QED  BY <1>1, <1>3, <2>1, <2>2
  <1>6. CASE have_change
    <2> DEFINE w == Minus(total, required + fee)
    <2>1. w = total - (required + fee) /\ w \in Int
      <3>1. total >= required + fee
        BY <1>1, <1>2, <1>3, <1>6, EndFacts
      <3> QED  BY <1>3, <3>1 DEF Minus
    <2>2. outs' = Placed(outs, change_index, new, w)
      BY <1>4, <1>6 DEF update_change_output, Placed
    <2>3. change_index \in 1 .. Len(outs) /\ new \in 1 .. Len(outs)
          /\ outs[change_index].satoshi = 0
      <3>1. change_index \in 1 .. Len(outs)
        BY <1>1, <1>6, EndFacts
      <3>2. outs[change_index].satoshi = 0
        BY <1>1, <1>6 DEF BalanceInv, OutsSum
      <3> QED  BY <1>3, <3>1, <3>2
    <2> HIDE DEF w
    <2>4. PICK s, t, c, v : s = outs /\ t = outs' /\ c = change_index /\ v = w
      OBVIOUS
    <2>5. s \in Seq(Output) /\ c \in 1 .. Len(s) /\ new \in 1 .. Len(s) /\ v \in Int
          /\ t = Placed(s, c, new, v)
      BY <1>3, <2>1, <2>2, <2>3, <2>4
    <2>6. /\ t \in Seq(Output) /\ Len(t) = Len(s)
          /\ t[new] = [s[c] EXCEPT !.satoshi = v]
          /\ c # new => t[c] = s[new]
          /\ \A i \in 1 .. Len(s) : i # c /\ i # new => t[i] = s[i]
      BY <2>5, Exchange
    <2>7. t[new].satoshi = v
      <3>1. s[c] \in Output
        BY <2>5, ElementType
      <3> QED  BY <2>6, <3>1 DEF Output
    <2>8. Sum(t) = Sum(s) + (v - s[c].satoshi)
      <3>1. Amounts(s) /\ Amounts(t)
        BY <2>5, <2>6, OutputAmounts
      <3>2. /\ c # new => t[c].satoshi = s[new].satoshi
            /\ \A i \in 1 .. Len(s) : i # c /\ i # new => t[i].satoshi = s[i].satoshi
        BY <2>6
      <3>3. Len(t) = Len(s) /\ c \in 1 .. Len(s) /\ new \in 1 .. Len(s) 
        BY <2>5, <2>6
      <3>4. Sum(t) = Sum(s) + (t[new].satoshi - s[c].satoshi)
        BY <3>1, <3>2, <3>3, SumExchanged
      <3> QED  BY <2>7, <3>4
    <2>9. Sum(outs') = required + (w - 0)
      BY <1>3, <2>3, <2>4, <2>8
    <2> QED  BY <1>1, <1>3, <2>1, <2>9
  <1> QED  BY <1>5, <1>6

\* Every step keeps the balance
LEMMA BalanceNext ==
  ASSUME IInv, IInv', [Next]_vars, BalanceInv
  PROVE  BalanceInv'
  <1>1. CASE UNCHANGED vars
    BY <1>1 DEF vars, details, tx, change, BalanceInv, OutsSum, NothingLeft, Balanced, Built
  <1>2. CASE Next
    <2>1. Sum(inputs') = total'
      BY <1>2, InputsSum DEF BalanceInv
    <2>2. CASE AddOld \/ AddUtxo \/ DustyChange \/ AddAddressee \/ Collect \/ AddChange
      <3>1. pc # "done" /\ pc' \notin {"finish", "done"}
        BY <2>2 DEF AddOld, AddUtxo, DustyChange, AddAddressee, Collect, AddChange, Looping, Enough,
           Continue, GoOn
      <3>2. OutsSum'
        <4>1. CASE AddOld \/ AddUtxo \/ DustyChange
          BY <3>1, <4>1, OutsUntouched DEF BalanceInv, AddOld, AddUtxo, DustyChange, Continue, change, details
        <4>2. CASE AddAddressee
          BY <1>2, <4>2, AddresseeSum DEF BalanceInv
        <4>3. CASE Collect \/ AddChange
          <5>1. /\ required' = required /\ error' = error
                /\ \/ outs' = outs /\ have_change' = have_change /\ change_index' = change_index
                   \/ /\ outs' = Append(outs, [to |-> 0, satoshi |-> 0])
                      /\ change_index' = Len(outs) + 1
            BY <4>3 DEF Collect, AddChange, GoOn, Continue, change
          <5> QED  BY <3>1, <5>1, OutsUntouched, ChangeSum DEF BalanceInv
        <4> QED  BY <2>2, <4>1, <4>2, <4>3
      <3> QED  BY <2>1, <3>1, <3>2 DEF BalanceInv, NothingLeft, Balanced, Built
    <2>3. CASE SendAll
      <3>1. pc' # "done"
        BY <2>3 DEF SendAll, Leave
      <3> QED  BY <1>2, <2>1, <2>3, <3>1, SendAllSum DEF BalanceInv, Balanced, Built
    <2>4. CASE Insufficient
      <3>1. /\ pc = "loop" /\ pc' = "finish" /\ error' # "none" /\ outs' = outs /\ required' = required
            /\ have_change' = have_change /\ change_index' = change_index
        BY <2>4 DEF Insufficient, Looping, FirstError, tx, change
      <3> QED  BY <2>1, <3>1, OutsUntouched DEF BalanceInv, NothingLeft, Balanced, Built
    <2>5. CASE Settle
      <3>1. /\ pc = "loop" /\ pc' = "finish" /\ error' = error /\ outs' = outs /\ required' = required
            /\ have_change' = have_change /\ change_index' = change_index /\ total' = total
            /\ fee' = WithDonation /\ Looping
        BY <2>5 DEF Settle, Enough, Looping, Leave, tx, change
      <3>2. total \in Nat /\ required \in Nat /\ Fee \in Nat
        BY <1>2, <3>1, LoopFacts
      <3>3. NothingLeft'
        BY <3>1, <3>2 DEF NothingLeft, WithDonation, Left
      <3> QED  BY <2>1, <3>1, <3>3, OutsUntouched DEF BalanceInv, Balanced, Built
    <2>6. CASE Refuse \/ SendAllToNobody \/ Endless
      <3>1. pc' = "done" /\ error' # "none"
        BY <2>6 DEF Refuse, SendAllToNobody, Endless, Fails, FirstError
      <3> QED  BY <2>1, <3>1 DEF BalanceInv, OutsSum, NothingLeft, Balanced, Built
    <2>7. CASE Finish
      <3>1. pc' = "done"
        BY <2>7 DEF Finish
      <3>2. Balanced'
        BY <1>2, <2>7, FinishSum DEF Balanced, Built
      <3> QED  BY <2>1, <3>1, <3>2 DEF BalanceInv, OutsSum, NothingLeft
    <2>8. CASE FinishEmpty
      <3>1. /\ pc = "finish" /\ pc' = "done" /\ error' = AfterLoop /\ outs = <<>> /\ outs' = outs
            /\ inputs' = inputs /\ fee' = fee /\ total' = total
        BY <2>8 DEF FinishEmpty, tx
      <3>2. ASSUME error' = "none" PROVE Sum(inputs') = Sum(outs') + fee'
        <4>1. error = "none" /\ ~have_change /\ outs \in Seq(Output)
          <5>1. error = "none"
            BY <1>2, <3>1, <3>2, EndFacts
          <5>2. ~have_change
            BY <1>2, <3>1, EndFacts
          <5> QED  BY <5>1, <5>2 DEF IInv, TypeOK
        <4>2. total = required + fee /\ Sum(outs) = required /\ Sum(inputs) = total
          BY <3>1, <4>1 DEF BalanceInv, NothingLeft, OutsSum
        <4> QED  BY <3>1, <4>2
      <3> QED  BY <2>1, <3>1, <3>2 DEF BalanceInv, OutsSum, NothingLeft, Balanced, Built
    <2> QED  BY <1>2, <2>2, <2>3, <2>4, <2>5, <2>6, <2>7, <2>8 DEF Next
  <1> QED  BY <1>1, <1>2

\* The balance before the first input
LEMMA BalanceInit == Init => BalanceInv
  <1> SUFFICES ASSUME Init PROVE BalanceInv
    OBVIOUS
  <1>1. /\ inputs = <<>> /\ outs = <<>> /\ total = 0 /\ required = 0 /\ pc = "old" /\ have_change = FALSE
    BY DEF Init
  <1>2. <<>> \in Seq(Output) /\ Len(<<>>) = 0
    OBVIOUS
  <1>3. Sum(<<>>) = 0
    BY <1>2, OutputAmounts, SumType
  <1> QED  BY <1>1, <1>3 DEF BalanceInv, OutsSum, NothingLeft, Balanced, Built

-----------------------------------------------------------------------------
(* The theorems.                                                           *)

LEMMA NextKeeps ==
  ASSUME IInv, [Next]_vars PROVE IInv'
  <1>1. CASE Next
    <2>1. CASE Refuse
      BY <1>1, <2>1, FailsKeeps DEF Refuse, Errors
    <2>2. CASE SendAllToNobody
      BY <1>1, <2>2, FailsKeeps DEF SendAllToNobody, Errors
    <2>3. CASE Endless
      BY <1>1, <2>3, FailsKeeps DEF Endless, Errors
    <2> QED  BY <1>1, <2>1, <2>2, <2>3, AddOldKeeps, AddAddresseeKeeps, CollectKeeps, SendAllKeeps,
                InsufficientKeeps, AddUtxoKeeps, SettleKeeps, DustyChangeKeeps, AddChangeKeeps,
                FinishKeeps, FinishEmptyKeeps DEF Next
  <1>2. CASE UNCHANGED vars
    <2>1. /\ req' = req /\ pc' = pc /\ inputs' = inputs /\ outs' = outs /\ used' = used
          /\ picked' = picked /\ total' = total /\ required' = required /\ fee' = fee
          /\ have_change' = have_change /\ change_index' = change_index
          /\ force_add_utxo' = force_add_utxo /\ iter' = iter /\ error' = error /\ info' = info
      BY <1>2 DEF vars, details, tx, change
    <2>2. /\ addressees' = addressees /\ Choice' = Choice /\ old_used_utxos' = old_used_utxos
          /\ network_fee' = network_fee /\ send_all' = send_all /\ is_redeposit' = is_redeposit
          /\ is_rbf' = is_rbf
      BY <2>1, SameRequest
    <2>3. req \in Requests /\ inputs \in Seq(Utxo) /\ outs \in Seq(Output)
      BY DEF IInv, TypeOK
    <2>4. Fee' = Fee
      BY <2>1, <2>3, SameShape
    <2>5. TypeOK' /\ req' \in Requests
      BY <2>1, <2>3 DEF IInv, TypeOK
    <2>6. InputsInv' /\ UsedInv' /\ ErrorInv' /\ Built' = Built
      BY <2>1, <2>2 DEF IInv, InputsInv, UsedInv, ErrorInv, Building, Built, AfterCollect,
         get_ga_signing_inputs
    <2>7. OutsInv'
      BY <2>1, <2>2 DEF IInv, OutsInv, PaidInOrder, Building, AfterCollect
    <2>8. LoopInv' /\ LeftInv' /\ InsufficientIsReal'
      BY <2>1, <2>2, <2>4 DEF IInv, LoopInv, LeftInv, InsufficientIsReal
    <2>9. FeeRight'
      BY <2>1, <2>2, <2>4, <2>6 DEF IInv, FeeRight, Fee
    <2>10. NoDust' /\ PaysAddressees'
      BY <2>1, <2>2, <2>6 DEF IInv, NoDust, PaysAddressees
    <2> QED  BY <2>5, <2>6, <2>7, <2>8, <2>9, <2>10 DEF IInv
  <1> QED  BY <1>1, <1>2

\* Every step of the construction keeps the inductive invariant (ga_tx.cpp)
THEOREM Invariance == Spec => []IInv
  <1>1. IInv /\ [Next]_vars => IInv'
    BY NextKeeps
  <1> QED  BY <1>1, InitIInv, PTL DEF Spec

\* The variables of the construction have their types, amounts the program
\* treats as unsigned (total, required, fee) never negative (ga_tx.cpp)
THEOREM TypeCorrect == Spec => []TypeOK
  <1>1. IInv => TypeOK
    BY DEF IInv
  <1> QED  BY <1>1, Invariance, PTL

\* The fee of a transaction that can be signed is the one for its final size,
\* and less than dust is given away on top (get_tx_fee, the loop)
THEOREM FeeIsRight == Spec => []FeeRight
  <1>1. IInv => FeeRight
    BY DEF IInv
  <1> QED  BY <1>1, Invariance, PTL

\* No output of a transaction that can be signed is dust
\* (add_tx_addressee, the loop, update_change_output)
THEOREM NoOutputIsDust == Spec => []NoDust
  <1>1. IInv => NoDust
    BY DEF IInv
  <1> QED  BY <1>1, Invariance, PTL

\* Wherever the change is put, every addressee is paid exactly
\* (add_tx_addressee, update_change_output)
THEOREM AddresseesArePaid == Spec => []PaysAddressees
  <1>1. IInv => PaysAddressees
    BY DEF IInv
  <1> QED  BY <1>1, Invariance, PTL

\* "Insufficient funds" is only reported when all there is to spend was taken
\* and is not enough (the loop)
THEOREM InsufficientMeansIt == Spec => []InsufficientIsReal
  <1>1. IInv => InsufficientIsReal
    BY DEF IInv
  <1> QED  BY <1>1, Invariance, PTL

\* Of any three iterations one adds a utxo (the loop)
THEOREM LoopGetsOn == Spec => []LoopProgress
  <1>1. IInv => LoopProgress
    <2> SUFFICES ASSUME IInv, pc = "loop"
                 PROVE  iter <= 2 * (Len(used) - picked) + 2
      BY DEF LoopProgress
    <2> DEFINE n == Len(used)
               h == IF have_change THEN 1 ELSE 0
               f == IF force_add_utxo THEN 1 ELSE 0
    <2>1. iter <= 2 * (n - picked) + h + f
      BY DEF IInv, LoopInv
    <2>2. n \in Nat /\ picked \in Nat /\ iter \in Int /\ h \in 0 .. 1 /\ f \in 0 .. 1
      BY ConstantsAssumption DEF IInv, TypeOK
    <2> HIDE DEF n, h, f
    <2>3. iter <= 2 * (n - picked) + 2
      BY <2>1, <2>2
    <2> QED  BY <2>3 DEF n
  <1> QED  BY <1>1, Invariance, PTL

\* Every input is signed with the utxo it spends (get_ga_signing_inputs)
THEOREM EveryInputIsSigned == Spec => []SignsItsInputs
  <1>1. IInv => SignsItsInputs
    BY DEF IInv, InputsInv, SignsItsInputs
  <1> QED  BY <1>1, Invariance, PTL

\* No amount is lost or made up on the way: whatever utxos and outputs were
\* added and wherever the change was put, the inputs of a transaction that can
\* be signed are its outputs and its fee, for any number of either (the loop,
\* update_change_output)
THEOREM NothingIsLost == Spec => []Balanced
  <1>1. IInv /\ IInv' /\ [Next]_vars /\ BalanceInv => BalanceInv'
    BY BalanceNext
  <1>2. BalanceInv => Balanced
    BY DEF BalanceInv
  <1> QED  BY <1>1, <1>2, BalanceInit, Invariance, PTL DEF Spec
=============================================================================
