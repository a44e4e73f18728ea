-------------------------- MODULE SubaccountsProofs --------------------------
(***************************************************************************)
(* Proofs about Subaccounts for any number of subaccounts and callers: its *)
(* types, the freshness of balances, the completeness of keys and the      *)
(* uniqueness of reserved numbers.                                         *)
(***************************************************************************)
EXTENDS Subaccounts, FiniteSetTheorems, TLAPS

-----------------------------------------------------------------------------
(* Facts about the operators.                                              *)

\* The idle records are of their types
LEMMA IdleTypes == IdleLogin \in LoginStates /\ IdleCall \in CallStates
  BY MaxAssumption DEF IdleLogin, LoginStates, IdleCall, CallStates, Numbers

\* Setting one of the flags of a call
LEMMA FlagTypes ==
  ASSUME NEW x \in CallStates
  PROVE  /\ [x EXCEPT !.cut = TRUE] \in CallStates
         /\ [x EXCEPT !.late = TRUE] \in CallStates
         /\ [x EXCEPT !.dangling = TRUE] \in CallStates
  BY DEF CallStates

\* The flags a lost connection, a late change or a cleared map set on the calls
LEMMA FlagsType ==
  ASSUME calls \in [Callers -> CallStates]
  PROVE  /\ Cut(calls) \in [Callers -> CallStates]
         /\ \A S \in SUBSET Numbers : LateCalls(S) \in [Callers -> CallStates]
         /\ Dangle => calls' \in [Callers -> CallStates]
  <1>1. Cut(calls) \in [Callers -> CallStates]
    BY FlagTypes DEF Cut
  <1>2. ASSUME NEW S \in SUBSET Numbers PROVE LateCalls(S) \in [Callers -> CallStates]
    BY FlagTypes DEF LateCalls
  <1>3. Dangle => calls' \in [Callers -> CallStates]
    BY FlagTypes DEF Dangle
  <1> QED  BY <1>1, <1>2, <1>3

\* LoginGoes leaves the other login alone and resets this one's data
LEMMA LoginGoesType ==
  ASSUME login \in [Logins -> LoginStates], NEW l \in Logins,
         NEW pc \in {"idle", "leave", "connect", "cached", "challenge", "auth", "subscribe", "rest",
                     "failed"},
         LoginGoes(l, pc)
  PROVE  login' \in [Logins -> LoginStates]
  BY IdleTypes DEF LoginGoes, LoginStates, IdleLogin

\* The same for a call
LEMMA CallGoesType ==
  ASSUME calls \in [Callers -> CallStates], NEW c \in Callers, NEW s \in Numbers,
         NEW pc \in {"idle", "refused", "reserved", "creating", "created", "crashed"},
         CallGoes(c, pc, s)
  PROVE  calls' \in [Callers -> CallStates]
  BY IdleTypes DEF CallGoes, CallStates, IdleCall

\* What CallGoes and CallEnds do to the calls
LEMMA Going ==
  ASSUME calls \in [Callers -> CallStates], NEW c \in Callers, NEW pc, NEW s, CallGoes(c, pc, s)
  PROVE  /\ calls'[c].pc = pc /\ calls'[c].s = s
         /\ \A d \in Callers \ {c} : calls'[d] = calls[d]
  BY DEF CallGoes, IdleCall

\* The end of a call, as CallEnds states it
LEMMA Ending ==
  ASSUME calls \in [Callers -> CallStates], NEW c \in Callers, NEW pc, CallEnds(c, pc)
  PROVE  calls'[c].pc = pc /\ \A d \in Callers \ {c} : calls'[d] = calls[d]
  BY Going DEF CallEnds

\* A call that goes on to ask for a balance
LEMMA ReadingOn ==
  ASSUME calls \in [Callers -> CallStates], NEW c \in Callers, NEW s, NEW all,
         calls' = [calls EXCEPT ![c] = Reading(s, all)]
  PROVE  calls'[c].pc = "reading" /\ \A d \in Callers \ {c} : calls'[d] = calls[d]
  BY DEF Reading, IdleCall

\* A step of one call leaves the other calls and the logins alone
LEMMA OneCall ==
  ASSUME calls \in [Callers -> CallStates], NEW c \in Callers, CallNext(c)
  PROVE  login' = login /\ \A d \in Callers \ {c} : calls'[d] = calls[d]
  <1>1. CASE \E s \in Numbers, all \in BOOLEAN : StartGet(c, s, all)
    BY <1>1, ReadingOn DEF StartGet
  <1>2. CASE ServerReads(c)
    BY <1>2 DEF ServerReads
  <1>3. CASE CallFails(c) \/ GetThrows(c) \/ ServerRefuses(c) \/ FinishCreate(c)
    BY <1>3, Ending DEF CallFails, GetThrows, ServerRefuses, FinishCreate
  <1>4. CASE StoreBalance(c)
    BY <1>4, Ending, ReadingOn DEF StoreBalance, GoOn
  <1>5. CASE get_next_subaccount(c) \/ GetXpub(c) \/ ServerCreates(c)
    BY <1>5, Going, Ending DEF get_next_subaccount, GetXpub, ServerCreates
  <1> QED  BY <1>1, <1>2, <1>3, <1>4, <1>5 DEF CallNext

\* The types after the end of a call
LEMMA CallEndsType ==
  ASSUME calls \in [Callers -> CallStates], NEW c \in Callers,
         NEW pc \in {"idle", "refused", "crashed"}, CallEnds(c, pc)
  PROVE  calls' \in [Callers -> CallStates]
  BY CallGoesType, MaxAssumption DEF CallEnds, Numbers

\* A set of numbers below n has at most n members
LEMMA Below ==
  ASSUME NEW n \in Nat, NEW S \in SUBSET (0..n - 1)
  PROVE  IsFiniteSet(S) /\ Cardinality(S) \in 0..n
  <1>1. IsFiniteSet(0..n - 1) /\ Cardinality(0..n - 1) = n
    BY FS_Interval
  <1>2. IsFiniteSet(S) /\ Cardinality(S) <= n
    BY <1>1, FS_Subset
  <1> QED  BY <1>2, FS_CardinalityType

\* What is pending after a notification was sent or taken
LEMMA Sending ==
  ASSUME notes \in Seq(SUBSET Numbers), NEW S \in SUBSET Numbers, notes' = Append(notes, S)
  PROVE  notes' \in Seq(SUBSET Numbers) /\ Pending \cup S \subseteq Pending'
  <1>1. /\ notes' \in Seq(SUBSET Numbers)
        /\ \A i \in DOMAIN notes : i \in DOMAIN notes' /\ notes'[i] = notes[i]
        /\ Len(notes) + 1 \in DOMAIN notes' /\ notes'[Len(notes) + 1] = S
    OBVIOUS
  <1> QED  BY <1>1 DEF Pending

\* Taking a notification removes at most its own subaccounts from Pending
LEMMA Taking ==
  ASSUME notes \in Seq(SUBSET Numbers), notes # <<>>, notes' = Tail(notes)
  PROVE  /\ notes' \in Seq(SUBSET Numbers)
         /\ Head(notes) \in SUBSET Numbers
         /\ Pending \subseteq Pending' \cup Head(notes)
  <1>1. notes' \in Seq(SUBSET Numbers) /\ Head(notes) \in SUBSET Numbers
    OBVIOUS
  <1>2. \A i \in DOMAIN notes : i = 1 \/ (i - 1 \in DOMAIN notes' /\ notes'[i - 1] = notes[i])
    OBVIOUS
  <1>3. notes[1] = Head(notes)
    OBVIOUS
  <1> QED  BY <1>1, <1>2, <1>3 DEF Pending


-----------------------------------------------------------------------------
(* Types.                                                                  *)

\* The types hold right after the first login
LEMMA TypeInit == Init => TypeOK
  <1> SUFFICES ASSUME Init PROVE TypeOK
    OBVIOUS
  <1>1. accounts \in SUBSET Numbers /\ 0 \in accounts
    BY AccountsAssumption DEF Init
  <1>2. login \in [Logins -> LoginStates] /\ calls \in [Callers -> CallStates]
    BY IdleTypes DEF Init
  <1>3. bal \in [Numbers -> 0..MaxChanges] /\ satoshi \in [Numbers -> Dirty..MaxChanges]
    BY MaxAssumption DEF Init, Dirty
  <1>4. notes \in Seq(SUBSET Numbers) /\ m_mnemonic \in BOOLEAN
    BY DEF Init
  <1>5. /\ link \in {"down", "open", "authed"} /\ sub \in BOOLEAN
        /\ wallet \in Wallets /\ network \in Networks
        /\ m_signer \in BOOLEAN /\ m_local_encryption_key \in BOOLEAN /\ excused = {}
        /\ racy \in BOOLEAN /\ whole \in BOOLEAN
        /\ m_subaccounts = accounts /\ m_user_pubkeys = accounts
    BY DEF Init
  <1>6. m_next_subaccount \in 0..MaxNumber + 1
    BY MaxAssumption DEF Init
  <1> QED  BY <1>1, <1>2, <1>3, <1>4, <1>5, <1>6 DEF TypeOK

\* Steps of the server and of the connection keep the types
LEMMA TypeConn ==
  ASSUME TypeOK, ConnectionLost \/ (\E S \in Affected : ServerNewTx(S \cap accounts))
                 \/ (\E n \in Numbers : OtherAppCreates(n))
  PROVE  TypeOK'
  <1>1. CASE ConnectionLost
    <2>1. Pending \in SUBSET Numbers
      BY DEF TypeOK, Pending
    <2>2. login' \in [Logins -> LoginStates]
      BY <1>1 DEF TypeOK, ConnectionLost, Cut, LoginStates
    <2>3. calls' \in [Callers -> CallStates]
      BY <1>1, FlagsType DEF TypeOK, ConnectionLost, GoDown
    <2>4. notes' \in Seq(SUBSET Numbers)
      BY <1>1 DEF ConnectionLost, GoDown
    <2> QED  BY <1>1, <2>1, <2>2, <2>3, <2>4
             DEF TypeOK, ConnectionLost, GoDown, map, keys, fixed, server
  <1>2. ASSUME NEW A \in Affected, ServerNewTx(A \cap accounts) PROVE TypeOK'
    <2> DEFINE S == A \cap accounts
    <2>1. S \in SUBSET Numbers
      BY DEF TypeOK
    <2> HIDE DEF S
    <2>2. ServerNewTx(S)
      BY <1>2 DEF S
    <2>3. bal' \in [Numbers -> 0..MaxChanges]
      BY <2>2, MaxAssumption DEF TypeOK, ServerNewTx
    <2>4. login' \in [Logins -> LoginStates]
      BY <2>1, <2>2 DEF TypeOK, ServerNewTx, LateLogins, LoginStates
    <2>5. calls' \in [Callers -> CallStates]
      BY <2>1, <2>2, FlagsType DEF TypeOK, ServerNewTx
    <2>6. notes' \in Seq(SUBSET Numbers) /\ excused' \in SUBSET Numbers
      BY <2>1, <2>2, Sending DEF TypeOK, ServerNewTx
    <2> QED  BY <2>2, <2>3, <2>4, <2>5, <2>6 DEF TypeOK, ServerNewTx, map, keys, fixed
  <1>3. ASSUME NEW n \in Numbers, OtherAppCreates(n) PROVE TypeOK'
    BY <1>3 DEF TypeOK, OtherAppCreates, conn, map, keys, fixed
  <1> QED  BY <1>1, <1>2, <1>3

\* Steps of the reconnect task and the starts and ends of logins keep the types
LEMMA TypeTask ==
  ASSUME TypeOK, TaskDisconnects \/ TaskLeaves \/ TaskConnects \/ TaskLogsIn
                 \/ AppLogsIn \/ AppLogsInWithDevice
                 \/ register_subaccount_xpubs \/ RegistrationFails
  PROVE  TypeOK'
  <1> USE DEF Logins
  <1>0. 0 \in Numbers
    BY MaxAssumption DEF Numbers
  <1>1. CASE TaskDisconnects
    <2>1. login' \in [Logins -> LoginStates]
      BY <1>1, LoginGoesType DEF TypeOK, TaskDisconnects
    <2> QED  BY <1>1, <2>1 DEF TypeOK, TaskDisconnects, server, conn, map, fixed, history
  <1>2. CASE TaskLeaves
    <2>1. Pending \in SUBSET Numbers
      BY DEF TypeOK, Pending
    <2>2. Cut(login) \in [Logins -> LoginStates]
      BY DEF TypeOK, Cut, LoginStates
    <2>3. login' \in [Logins -> LoginStates]
      BY <1>2, <2>2 DEF TypeOK, TaskLeaves, LoginStates
    <2>4. calls' \in [Callers -> CallStates]
      BY <1>2, FlagsType DEF TypeOK, TaskLeaves, GoDown
    <2>5. notes' \in Seq(SUBSET Numbers)
      BY <1>2 DEF TaskLeaves, GoDown
    <2> QED  BY <1>2, <2>1, <2>3, <2>4, <2>5
             DEF TypeOK, TaskLeaves, GoDown, map, keys, fixed, server
  <1>3. CASE TaskConnects
    <2>1. login' \in [Logins -> LoginStates]
      BY <1>3, LoginGoesType DEF TypeOK, TaskConnects
    <2> QED  BY <1>3, <2>1 DEF TypeOK, TaskConnects, server, keys, map, fixed, history
  <1>4. CASE TaskLogsIn
    <2>1. login' \in [Logins -> LoginStates]
      BY <1>4, LoginGoesType DEF TypeOK, TaskLogsIn, StartLogin
    <2> QED  BY <1>0, <1>4, <2>1
             DEF TypeOK, TaskLogsIn, StartLogin, on_failed_login, server, conn, map, fixed
  <1>5. CASE AppLogsIn
    <2>1. login' \in [Logins -> LoginStates]
      BY <1>5, LoginGoesType DEF TypeOK, AppLogsIn, StartLogin
    <2> QED  BY <1>0, <1>5, <2>1 DEF TypeOK, AppLogsIn, StartLogin, server, conn, map, fixed
  <1>6. CASE AppLogsInWithDevice
    <2>1. login' \in [Logins -> LoginStates]
      BY <1>6, LoginGoesType DEF TypeOK, AppLogsInWithDevice
    <2> QED  BY <1>6, <2>1 DEF TypeOK, AppLogsInWithDevice, server, conn, map, fixed, history
  <1>7. CASE register_subaccount_xpubs
    <2> DEFINE size == Cardinality(m_subaccounts)
    <2>1. login' \in [Logins -> LoginStates]
      BY <1>7, LoginGoesType DEF TypeOK, register_subaccount_xpubs
    <2>2. size \in 0..MaxNumber + 1
      BY Below, MaxAssumption DEF TypeOK, Numbers
    <2>3. 0..size - 1 \subseteq Numbers /\ \A i \in 1..size - 1 : i \in Numbers /\ 0..i - 1 \subseteq Numbers
      BY <2>2, MaxAssumption DEF Numbers
    <2>4. /\ m_user_pubkeys' \subseteq Numbers
          /\ m_subaccounts' \subseteq Numbers /\ m_subaccounts \subseteq m_subaccounts'
          /\ satoshi' \in [Numbers -> Dirty..MaxChanges]
          /\ m_next_subaccount' = m_next_subaccount
      <3>1. CASE UNCHANGED map /\ m_user_pubkeys' = 0..size - 1
        BY <3>1, <2>3 DEF TypeOK, map
      <3>2. ASSUME NEW i \in 1..size - 1, m_user_pubkeys' = 0..i - 1,
                   m_subaccounts' = m_subaccounts \cup {i},
                   satoshi' = [satoshi EXCEPT ![i] = Dirty], UNCHANGED m_next_subaccount
            PROVE  <2>4!1 /\ <2>4!2 /\ <2>4!3 /\ <2>4!4
        BY <3>2, <2>3, MaxAssumption DEF TypeOK, Dirty
      <3> QED  BY <1>7, <3>1, <3>2 DEF register_subaccount_xpubs
    <2> QED  BY <1>7, <2>1, <2>4
             DEF TypeOK, register_subaccount_xpubs, server, conn, fixed, history
  <1>8. CASE RegistrationFails
    <2>1. login' \in [Logins -> LoginStates]
      BY <1>8, LoginGoesType DEF TypeOK, RegistrationFails
    <2> QED  BY <1>8, <2>1 DEF TypeOK, RegistrationFails, server, conn, map, keys, fixed, history
  <1> QED  BY <1>1, <1>2, <1>3, <1>4, <1>5, <1>6, <1>7, <1>8

\* Steps both logins take keep the types and put the main account in the map
LEMMA TypeLogin ==
  ASSUME TypeOK, NEW l \in Logins, LoginNext(l)
  PROVE  TypeOK'
  <1>1. CASE SignChallenge(l) \/ LoginFails(l)
    <2>1. login' \in [Logins -> LoginStates]
      BY <1>1, LoginGoesType DEF TypeOK, SignChallenge, LoginFails
    <2>2. /\ m_user_pubkeys' \subseteq Numbers /\ m_signer' \in BOOLEAN
          /\ m_mnemonic' \in BOOLEAN /\ m_local_encryption_key' \in BOOLEAN
      BY <1>1 DEF TypeOK, SignChallenge, LoginFails, CleanUp, on_failed_login, keys
    <2>3. UNCHANGED <<server, conn, fixed, map, calls, history>>
      BY <1>1 DEF SignChallenge, LoginFails
    <2> QED  BY <2>1, <2>2, <2>3 DEF TypeOK, server, conn, map, fixed, history
  <1>2. CASE ServerAuthenticates(l)
    <2>1. login' \in [Logins -> LoginStates]
      BY <1>2, IdleTypes DEF TypeOK, ServerAuthenticates, LoginStates, IdleLogin
    <2> QED  BY <1>2, <2>1 DEF TypeOK, ServerAuthenticates, server, map, keys, fixed, history
  <1>3. CASE update_login_data(l)
    <2>1. login' \in [Logins -> LoginStates] /\ login[l] \in LoginStates
      BY <1>3, LoginGoesType DEF TypeOK, update_login_data
    <2>2. calls' \in [Callers -> CallStates]
      BY <1>3, FlagsType DEF TypeOK, update_login_data
    <2>3. /\ login[l].accounts \in SUBSET Numbers /\ login[l].late \in SUBSET Numbers
          /\ login[l].bal \in [Numbers -> 0..MaxChanges] /\ 0 \in Numbers
      BY <2>1, MaxAssumption DEF LoginStates, Numbers
    <2>4. satoshi' \in [Numbers -> Dirty..MaxChanges]
      BY <1>3, <2>3, MaxAssumption DEF update_login_data, Dirty
    <2> QED  BY <1>3, <2>1, <2>2, <2>3, <2>4, MaxAssumption
             DEF TypeOK, update_login_data, WithMain, Derives, Underived, server, conn, fixed
  <1>4. CASE update_login_data_throws(l)
    <2>1. login' \in [Logins -> LoginStates] /\ login[l] \in LoginStates
      BY <1>4, LoginGoesType DEF TypeOK, update_login_data_throws
    <2>2. calls' \in [Callers -> CallStates]
      BY <1>4, FlagsType DEF TypeOK, update_login_data_throws
    <2>3. /\ login[l].accounts \in SUBSET Numbers /\ login[l].late \in SUBSET Numbers
          /\ login[l].bal \in [Numbers -> 0..MaxChanges]
      BY <2>1 DEF LoginStates
    <2>4. satoshi' \in [Numbers -> Dirty..MaxChanges]
      BY <1>4, <2>3, MaxAssumption DEF update_login_data_throws, Dirty
    <2>5. PICK u \in Underived(login[l].accounts) :
            /\ m_subaccounts' = {s \in login[l].accounts : s <= u}
            /\ m_next_subaccount' \in 0..u - 1
      BY <1>4 DEF update_login_data_throws
    <2>6. m_subaccounts' \in SUBSET Numbers /\ m_next_subaccount' \in 0..MaxNumber + 1
      BY <2>3, <2>5, MaxAssumption DEF Underived, Numbers
    <2> QED  BY <1>4, <2>1, <2>2, <2>3, <2>4, <2>6
             DEF TypeOK, update_login_data_throws, server, conn, keys, fixed
  <1>5. CASE Subscribe(l)
    <2>1. login' \in [Logins -> LoginStates]
      BY <1>5, LoginGoesType DEF TypeOK, Subscribe
    <2> QED  BY <1>5, <2>1 DEF TypeOK, Subscribe, server, map, keys, fixed, history
  <1>6. CASE FinishLogin(l)
    <2>1. login' \in [Logins -> LoginStates]
      BY <1>6, IdleTypes DEF TypeOK, FinishLogin, LoginStates, IdleLogin
    <2> QED  BY <1>6, <2>1 DEF TypeOK, FinishLogin, server, conn, map, keys, fixed, history
  <1> QED  BY <1>1, <1>2, <1>3, <1>4, <1>5, <1>6 DEF LoginNext

\* Steps of get_subaccount(s) and create_subaccount keep the types
LEMMA TypeCall ==
  ASSUME TypeOK, on_new_transaction \/ \E c \in Callers : CallNext(c)
  PROVE  TypeOK'
  <1>0. 0 \in Numbers /\ 0 \in Dirty..MaxChanges /\ Dirty \in Dirty..MaxChanges
        /\ 0..MaxChanges \subseteq Dirty..MaxChanges
    BY MaxAssumption DEF Numbers, Dirty
  <1>1. CASE on_new_transaction
    <2>1. notes' \in Seq(SUBSET Numbers) /\ Head(notes) \in SUBSET Numbers
      BY <1>1, Taking DEF TypeOK, on_new_transaction
    <2>2. satoshi' \in [Numbers -> Dirty..MaxChanges]
      BY <1>0, <1>1 DEF TypeOK, on_new_transaction
    <2>3. excused' \in SUBSET Numbers
      BY <1>1, <2>1 DEF TypeOK, on_new_transaction, Marked, GivenUp
    <2> QED  BY <1>1, <2>1, <2>2, <2>3 DEF TypeOK, on_new_transaction, server, fixed, keys
  <1>2. ASSUME NEW c \in Callers, CallNext(c) PROVE TypeOK'
    <2>0. /\ calls[c] \in CallStates /\ calls[c].s \in Numbers
          /\ calls[c].value \in 0..MaxChanges
      BY DEF TypeOK, CallStates
    <2>1. CASE (\E s \in Numbers, all \in BOOLEAN : StartGet(c, s, all)) \/ ServerReads(c)
               \/ CallFails(c) \/ GetThrows(c) \/ GetXpub(c) \/ ServerRefuses(c)
      <3>1. calls' \in [Callers -> CallStates]
        <4>1. ASSUME NEW s \in Numbers, NEW all \in BOOLEAN PROVE Reading(s, all) \in CallStates
          BY IdleTypes DEF Reading, CallStates, IdleCall
        <4>2. CASE \E s \in Numbers, all \in BOOLEAN : StartGet(c, s, all)
          BY <4>1, <4>2 DEF TypeOK, StartGet
        <4>3. CASE ServerReads(c)
          BY <4>3, <2>0 DEF TypeOK, ServerReads, CallStates
        <4>4. CASE CallFails(c) \/ GetThrows(c) \/ ServerRefuses(c)
          BY <4>4, CallEndsType DEF TypeOK, CallFails, GetThrows, ServerRefuses
        <4>5. CASE GetXpub(c)
          BY <4>5, <2>0, CallGoesType DEF TypeOK, GetXpub
        <4> QED  BY <2>1, <4>2, <4>3, <4>4, <4>5
      <3>2. UNCHANGED <<server, conn, fixed, map, keys, login, history>>
        BY <2>1 DEF StartGet, ServerReads, CallFails, GetThrows, GetXpub, ServerRefuses
      <3> QED  BY <3>1, <3>2 DEF TypeOK, server, conn, fixed, map, keys, history
    <2>2. CASE StoreBalance(c)
      <3>1. calls' \in [Callers -> CallStates]
        <4>1. ASSUME NEW s \in Numbers PROVE Reading(s, TRUE) \in CallStates
          BY IdleTypes DEF Reading, CallStates, IdleCall
        <4>2. CASE CallEnds(c, "idle")
          BY <4>2, CallEndsType DEF TypeOK
        <4>3. CASE \E t \in m_subaccounts : calls' = [calls EXCEPT ![c] = Reading(t, TRUE)]
          BY <4>1, <4>3 DEF TypeOK
        <4> QED  BY <2>2, <4>2, <4>3 DEF StoreBalance, GoOn
      <3>2. satoshi' \in [Numbers -> Dirty..MaxChanges] /\ excused' \in SUBSET Numbers
        BY <1>0, <2>0, <2>2 DEF TypeOK, StoreBalance
      <3> QED  BY <2>2, <3>1, <3>2 DEF TypeOK, StoreBalance, server, conn, fixed, keys
    <2>3. CASE get_next_subaccount(c)
      <3>1. calls' \in [Callers -> CallStates]
        BY <2>3, CallGoesType DEF TypeOK, get_next_subaccount
      <3>2. m_next_subaccount' \in 0..MaxNumber + 1
        BY <2>3, MaxAssumption DEF get_next_subaccount, Numbers
      <3> QED  BY <2>3, <3>1, <3>2
               DEF TypeOK, get_next_subaccount, server, conn, fixed, keys, history
    <2>4. CASE ServerCreates(c)
      <3>1. calls' \in [Callers -> CallStates]
        BY <2>4, <2>0, CallGoesType, CallEndsType DEF TypeOK, ServerCreates
      <3> QED  BY <2>0, <2>4, <3>1 DEF TypeOK, ServerCreates, conn, fixed, map, keys, history
    <2>5. CASE FinishCreate(c)
      <3>1. calls' \in [Callers -> CallStates]
        BY <2>5, CallEndsType DEF TypeOK, FinishCreate
      <3>2. /\ m_user_pubkeys' \subseteq Numbers /\ excused' \subseteq Numbers
            /\ m_subaccounts' \subseteq Numbers /\ m_subaccounts \subseteq m_subaccounts'
            /\ satoshi' \in [Numbers -> Dirty..MaxChanges]
            /\ m_next_subaccount' = m_next_subaccount
        BY <1>0, <2>0, <2>5 DEF TypeOK, FinishCreate, map
      <3> QED  BY <2>5, <3>1, <3>2 DEF TypeOK, FinishCreate, server, conn, fixed
    <2> QED  BY <1>2, <2>1, <2>2, <2>3, <2>4, <2>5 DEF CallNext
  <1> QED  BY <1>1, <1>2

\* Every step keeps the types
LEMMA TypeStep == TypeOK /\ [Next]_vars => TypeOK'
  <1> SUFFICES ASSUME TypeOK, [Next]_vars PROVE TypeOK'
    OBVIOUS
  <1>1. CASE UNCHANGED vars
    BY <1>1 DEF TypeOK, vars, server, conn, fixed, map, keys, history
  <1> QED  BY <1>1, TypeConn, TypeTask, TypeLogin, TypeCall DEF Next

\* The session's subaccounts, balances and keys, the logins and the calls
\* always have the types and ranges of TypeOK, and every update_login_data
\* that runs to its end leaves the main account in the map.
THEOREM TypeCorrect == Spec => []TypeOK
  BY TypeInit, TypeStep, PTL DEF Spec

-----------------------------------------------------------------------------
(* Balances.  A reply the server has given is as fresh as the balance it   *)
(* will be stored as: that makes BalanceFresh inductive.                   *)

UnusedEmpty == \A s \in Numbers \ accounts : bal[s] = 0
LoginFresh == \A l \in Logins : login[l].pc = "apply" =>
                \A s \in Numbers \ login[l].late : login[l].bal[s] = bal[s]
ReadFresh == \A c \in Callers :
               calls[c].pc = "read" /\ ~calls[c].late => calls[c].value = bal[calls[c].s]
CreatedFresh == \A c \in Callers :
                  calls[c].pc = "created" /\ ~calls[c].late => bal[calls[c].s] = 0
FreshInv == UnusedEmpty /\ LoginFresh /\ ReadFresh /\ CreatedFresh /\ BalanceFresh

\* A session right after its first login has the server's balances
LEMMA FreshInit == Init => FreshInv
  BY DEF Init, FreshInv, UnusedEmpty, LoginFresh, ReadFresh, CreatedFresh, BalanceFresh,
         IdleLogin, IdleCall

\* Steps of the server
LEMMA FreshServer ==
  ASSUME TypeOK, FreshInv, (\E S \in Affected : ServerNewTx(S \cap accounts))
                           \/ (\E n \in Numbers : OtherAppCreates(n))
  PROVE  FreshInv'
  <1>1. ASSUME NEW A \in Affected, ServerNewTx(A \cap accounts) PROVE FreshInv'
    <2> DEFINE S == A \cap accounts
    <2>1. S \in SUBSET Numbers /\ S \subseteq accounts
      BY DEF TypeOK
    <2> HIDE DEF S
    <2>2. ServerNewTx(S)
      BY <1>1 DEF S
    <2>3. \A s \in Numbers \ S : bal'[s] = bal[s]
      BY <2>2 DEF ServerNewTx
    <2>4. UnusedEmpty'
      BY <2>1, <2>2, <2>3 DEF FreshInv, UnusedEmpty, ServerNewTx
    <2>5. LoginFresh'
      BY <2>1, <2>2, <2>3 DEF TypeOK, FreshInv, LoginFresh, ServerNewTx, LateLogins, LoginStates
    <2>6. \A c \in Callers :
            /\ calls'[c].pc = calls[c].pc /\ calls'[c].s = calls[c].s
            /\ calls'[c].value = calls[c].value /\ calls[c].s \in Numbers
            /\ ~calls'[c].late /\ calls[c].pc \in {"read", "created"} =>
                 ~calls[c].late /\ calls[c].s \notin S
      BY <2>2 DEF TypeOK, ServerNewTx, LateCalls, CallStates
    <2>7. ReadFresh' /\ CreatedFresh'
      BY <2>3, <2>6 DEF FreshInv, ReadFresh, CreatedFresh
    <2>8. BalanceFresh'
      <3>1. m_subaccounts' = m_subaccounts /\ satoshi' = satoshi /\ m_subaccounts \subseteq Numbers
        BY <2>2 DEF ServerNewTx, map, TypeOK
      <3>2. Pending \cup excused \cup S \subseteq Pending' \cup excused'
        <4>1. CASE notes' = Append(notes, S) /\ UNCHANGED excused
          BY <4>1, <2>1, Sending DEF TypeOK
        <4>2. CASE excused' = excused \cup S /\ UNCHANGED notes
          BY <4>2 DEF Pending
        <4> QED  BY <4>1, <4>2, <2>2 DEF ServerNewTx
      <3> QED  BY <2>3, <3>1, <3>2 DEF FreshInv, BalanceFresh
    <2> QED  BY <2>4, <2>5, <2>7, <2>8 DEF FreshInv
  <1>2. ASSUME NEW n \in Numbers, OtherAppCreates(n) PROVE FreshInv'
    BY <1>2 DEF FreshInv, OtherAppCreates, UnusedEmpty, LoginFresh, ReadFresh, CreatedFresh,
                BalanceFresh, Pending, conn, map
  <1> QED  BY <1>1, <1>2

\* The connection goes down: what was pending is excused
LEMMA FreshDown ==
  ASSUME TypeOK, FreshInv, ConnectionLost \/ TaskLeaves
  PROVE  FreshInv'
  <1>1. UNCHANGED <<server, map>> /\ GoDown
    BY DEF ConnectionLost, TaskLeaves
  <1>2. \A l \in Logins : login'[l].pc = "apply" =>
          login[l].pc = "apply" /\ login'[l].late = login[l].late /\ login'[l].bal = login[l].bal
    <2>1. \A l \in Logins : /\ Cut(login)[l].pc = login[l].pc
                            /\ Cut(login)[l].late = login[l].late /\ Cut(login)[l].bal = login[l].bal
      BY DEF Cut, TypeOK, LoginStates
    <2>2. \A l \in Logins : login'[l] = Cut(login)[l] \/ login'[l].pc = "connect"
      <3>1. CASE ConnectionLost
        BY <3>1 DEF ConnectionLost
      <3>2. CASE TaskLeaves
        <4>1. Cut(login) \in [Logins -> LoginStates]
          BY DEF TypeOK, Cut, LoginStates
        <4> QED  BY <3>2, <4>1 DEF TaskLeaves, LoginStates
      <3> QED  BY <3>1, <3>2
    <2> QED  BY <2>1, <2>2
  <1>3. \A c \in Callers :
          /\ calls'[c].pc = calls[c].pc /\ calls'[c].s = calls[c].s
          /\ calls'[c].value = calls[c].value /\ calls'[c].late = calls[c].late
    BY <1>1 DEF GoDown, Cut, TypeOK, CallStates
  <1>4. BalanceFresh'
    BY <1>1 DEF FreshInv, BalanceFresh, GoDown, Pending, server, map
  <1> QED  BY <1>1, <1>2, <1>3, <1>4
           DEF FreshInv, UnusedEmpty, LoginFresh, ReadFresh, CreatedFresh, server

\* Steps that leave balances alone and at most move a login, not to "apply"
LEMMA FreshMoves ==
  ASSUME TypeOK, FreshInv,
         UNCHANGED <<accounts, bal, notes, m_subaccounts, satoshi, excused, calls>>,
         \/ UNCHANGED login
         \/ \E l \in Logins, x \in LoginStates : x.pc # "apply" /\ login' = [login EXCEPT ![l] = x]
  PROVE  FreshInv'
  <1>1. \A k \in Logins : login'[k].pc = "apply" => login'[k] = login[k]
    BY DEF TypeOK
  <1>2. LoginFresh'
    BY <1>1 DEF FreshInv, LoginFresh
  <1> QED  BY <1>2 DEF FreshInv, UnusedEmpty, ReadFresh, CreatedFresh, BalanceFresh, Pending

\* A login that moves on without data keeps FreshInv
LEMMA FreshGoes ==
  ASSUME TypeOK, FreshInv, NEW l \in Logins,
         NEW pc \in {"idle", "leave", "connect", "cached", "challenge", "auth", "subscribe", "rest",
                     "failed"},
         UNCHANGED <<accounts, bal, notes, m_subaccounts, satoshi, excused, calls>>,
         LoginGoes(l, pc)
  PROVE  FreshInv'
  <1>1. [IdleLogin EXCEPT !.pc = pc] \in LoginStates /\ [IdleLogin EXCEPT !.pc = pc].pc = pc
    BY IdleTypes DEF IdleLogin, LoginStates
  <1> QED  BY <1>1, FreshMoves DEF LoginGoes

\* Steps of the logins keep FreshInv
LEMMA FreshLogin ==
  ASSUME TypeOK, FreshInv,
         \/ TaskDisconnects \/ TaskConnects \/ TaskLogsIn \/ AppLogsIn \/ AppLogsInWithDevice
         \/ RegistrationFails \/ register_subaccount_xpubs \/ \E l \in Logins : LoginNext(l)
  PROVE  FreshInv'
  <1> USE DEF Logins
  <1>1. CASE TaskDisconnects \/ TaskConnects \/ TaskLogsIn \/ AppLogsIn \/ AppLogsInWithDevice
             \/ RegistrationFails
    <2>1. UNCHANGED <<accounts, bal, notes, m_subaccounts, satoshi, excused, calls>>
      BY <1>1 DEF TaskDisconnects, TaskConnects, TaskLogsIn, AppLogsIn, AppLogsInWithDevice,
                  RegistrationFails, server, conn, map, history
    <2>2. \E l \in Logins, pc \in {"idle", "leave", "cached", "challenge", "auth"} : LoginGoes(l, pc)
      BY <1>1 DEF TaskDisconnects, TaskConnects, TaskLogsIn, StartLogin, AppLogsIn,
                  AppLogsInWithDevice, RegistrationFails
    <2> QED  BY <2>1, <2>2, FreshGoes
  <1>2. CASE register_subaccount_xpubs
    <2>1. /\ LoginGoes("app", "idle")
          /\ UNCHANGED <<accounts, bal, notes, excused, calls>>
      BY <1>2 DEF register_subaccount_xpubs, server, conn, history
    <2>2. \A s \in m_subaccounts' : satoshi'[s] = Dirty \/ (s \in m_subaccounts /\ satoshi'[s] = satoshi[s])
      <3>1. CASE UNCHANGED map
        BY <3>1 DEF map
      <3>2. ASSUME NEW i, m_subaccounts' = m_subaccounts \cup {i}, i \in Numbers,
                   satoshi' = [satoshi EXCEPT ![i] = Dirty]
            PROVE  <2>2
        BY <3>2 DEF TypeOK
      <3>3. 1..Cardinality(m_subaccounts) - 1 \subseteq Numbers
        BY Below, MaxAssumption DEF TypeOK, Numbers
      <3> QED  BY <1>2, <3>1, <3>2, <3>3 DEF register_subaccount_xpubs
    <2>3. BalanceFresh'
      BY <2>1, <2>2 DEF FreshInv, BalanceFresh, Pending
    <2>4. \A l \in Logins : login'[l].pc = "apply" => login'[l] = login[l]
      BY <2>1 DEF LoginGoes, IdleLogin, TypeOK
    <2> QED  BY <2>1, <2>3, <2>4 DEF FreshInv, UnusedEmpty, LoginFresh, ReadFresh, CreatedFresh
  <1>3. ASSUME NEW l \in Logins, LoginNext(l) PROVE FreshInv'
    <2>1. CASE SignChallenge(l) \/ LoginFails(l) \/ Subscribe(l)
      <3>1. UNCHANGED <<accounts, bal, notes, m_subaccounts, satoshi, excused, calls>>
        BY <2>1 DEF SignChallenge, LoginFails, Subscribe, server, conn, map, history
      <3>2. LoginGoes(l, "idle") \/ LoginGoes(l, "auth") \/ LoginGoes(l, "rest")
        BY <2>1 DEF SignChallenge, LoginFails, Subscribe
      <3> QED  BY <3>1, <3>2, FreshGoes
    <2>2. CASE FinishLogin(l)
      <3>1. UNCHANGED <<accounts, bal, notes, m_subaccounts, satoshi, excused, calls>>
        BY <2>2 DEF FinishLogin, server, conn, map, history
      <3>2. \E x \in LoginStates : x.pc # "apply" /\ login' = [login EXCEPT ![l] = x]
        <4>1. /\ IdleLogin.pc = "idle"
              /\ [IdleLogin EXCEPT !.pc = "xpubs", !.accounts = m_subaccounts] \in LoginStates
              /\ [IdleLogin EXCEPT !.pc = "xpubs", !.accounts = m_subaccounts].pc = "xpubs"
          BY IdleTypes DEF TypeOK, LoginStates, IdleLogin
        <4> QED  BY <2>2, <4>1, IdleTypes DEF FinishLogin
      <3> QED  BY <3>1, <3>2, FreshMoves
    <2>3. CASE ServerAuthenticates(l)
      <3>1. UNCHANGED <<accounts, bal, notes, m_subaccounts, satoshi, excused, calls>>
        BY <2>3 DEF ServerAuthenticates, server, map, history
      <3>2. login'[l].bal = bal /\ \A k \in Logins \ {l} : login'[k] = login[k]
        BY <2>3 DEF ServerAuthenticates, TypeOK, IdleLogin
      <3>3. LoginFresh'
        BY <3>1, <3>2 DEF FreshInv, LoginFresh
      <3> QED  BY <3>1, <3>3
               DEF FreshInv, UnusedEmpty, ReadFresh, CreatedFresh, BalanceFresh, Pending
    <2>4. CASE update_login_data(l) \/ update_login_data_throws(l)
      <3>1. /\ login[l].pc = "apply" /\ satoshi' = login[l].bal /\ excused' = login[l].late
            /\ UNCHANGED <<accounts, bal>> /\ Dangle
            /\ LoginGoes(l, "failed") \/ LoginGoes(l, "subscribe")
        BY <2>4 DEF update_login_data, update_login_data_throws, At, server
      <3>2. BalanceFresh'
        <4>1. m_subaccounts' \subseteq Numbers
          BY <1>3, TypeLogin DEF TypeOK
        <4> QED  BY <3>1, <4>1 DEF FreshInv, LoginFresh, BalanceFresh
      <3>3. \A k \in Logins : login'[k].pc = "apply" => login'[k] = login[k]
        BY <3>1 DEF LoginGoes, IdleLogin, TypeOK
      <3>4. \A c \in Callers :
              /\ calls'[c].pc = calls[c].pc /\ calls'[c].s = calls[c].s
              /\ calls'[c].value = calls[c].value /\ calls'[c].late = calls[c].late
        BY <3>1 DEF Dangle, TypeOK, CallStates
      <3> QED  BY <3>1, <3>2, <3>3, <3>4
               DEF FreshInv, UnusedEmpty, LoginFresh, ReadFresh, CreatedFresh
    <2> QED  BY <1>3, <2>1, <2>2, <2>3, <2>4 DEF LoginNext
  <1> QED  BY <1>1, <1>2, <1>3

\* Notifications and the steps of the calls
LEMMA FreshCall ==
  ASSUME TypeOK, FreshInv, on_new_transaction \/ \E c \in Callers : CallNext(c)
  PROVE  FreshInv'
  <1>1. CASE on_new_transaction
    <2>1. UNCHANGED <<accounts, bal, login, calls, m_subaccounts>> /\ m_subaccounts \subseteq Numbers
      BY <1>1 DEF on_new_transaction, server, TypeOK
    <2>2. Pending \subseteq Pending' \cup Marked(Head(notes)) \cup GivenUp(Head(notes))
      BY <1>1, Taking DEF TypeOK, on_new_transaction, Marked
    <2>3. \A s \in m_subaccounts : IF s \in Marked(Head(notes)) THEN satoshi'[s] = Dirty
                                                              ELSE satoshi'[s] = satoshi[s]
      BY <1>1, <2>1 DEF on_new_transaction
    <2>4. excused \subseteq excused' \cup Marked(Head(notes)) /\ GivenUp(Head(notes)) \subseteq excused'
      BY <1>1 DEF on_new_transaction
    <2>5. BalanceFresh'
      BY <2>1, <2>2, <2>3, <2>4 DEF FreshInv, BalanceFresh
    <2> QED  BY <2>1, <2>5 DEF FreshInv, UnusedEmpty, LoginFresh, ReadFresh, CreatedFresh
  <1>2. ASSUME NEW c \in Callers, CallNext(c) PROVE FreshInv'
    <2>0. /\ calls[c].s \in Numbers /\ calls[c].late \in BOOLEAN /\ login' = login
          /\ \A d \in Callers \ {c} : calls'[d] = calls[d]
      BY <1>2, OneCall DEF TypeOK, CallStates
    <2>1. CASE (\E s \in Numbers, all \in BOOLEAN : StartGet(c, s, all))
               \/ CallFails(c) \/ GetThrows(c) \/ GetXpub(c) \/ ServerRefuses(c)
               \/ get_next_subaccount(c)
      <3>1. calls'[c].pc \notin {"read", "created"}
        BY <2>1 DEF TypeOK, StartGet, Reading, CallFails, GetThrows, GetXpub, ServerRefuses,
                    get_next_subaccount, CallGoes, CallEnds, IdleCall
      <3>2. UNCHANGED <<accounts, bal, notes, m_subaccounts, satoshi, excused>>
        BY <2>1 DEF StartGet, CallFails, GetThrows, GetXpub, ServerRefuses,
                    get_next_subaccount, server, conn, map, history
      <3> QED  BY <2>0, <3>1, <3>2 DEF FreshInv, UnusedEmpty, LoginFresh, ReadFresh, CreatedFresh,
                                       BalanceFresh, Pending
    <2>2. CASE ServerReads(c)
      <3>1. calls'[c].pc = "read" /\ calls'[c].s = calls[c].s /\ calls'[c].value = bal[calls[c].s]
        BY <2>2 DEF TypeOK, ServerReads, CallStates
      <3>2. UNCHANGED <<accounts, bal, notes, m_subaccounts, satoshi, excused>>
        BY <2>2 DEF ServerReads, server, conn, map, history
      <3> QED  BY <2>0, <3>1, <3>2 DEF FreshInv, UnusedEmpty, LoginFresh, ReadFresh, CreatedFresh,
                                       BalanceFresh, Pending
    <2>3. CASE StoreBalance(c)
      <3>1. UNCHANGED <<accounts, bal, notes, m_subaccounts>>
        BY <2>3 DEF StoreBalance, server, conn
      <3>2. calls'[c].pc \in {"idle", "reading"}
        <4>1. CASE CallEnds(c, "idle")
          BY <4>1, Ending DEF TypeOK
        <4>2. CASE \E t \in m_subaccounts : calls' = [calls EXCEPT ![c] = Reading(t, TRUE)]
          BY <4>2, ReadingOn DEF TypeOK
        <4> QED  BY <2>3, <4>1, <4>2 DEF StoreBalance, GoOn
      <3>3. BalanceFresh'
        <4>1. CASE UNCHANGED <<satoshi, excused>>
          BY <3>1, <4>1 DEF FreshInv, BalanceFresh, Pending
        <4>2. ASSUME NEW t \in m_subaccounts,
                     satoshi' = [satoshi EXCEPT ![t] =
                        IF Asks(calls[c].s) THEN calls[c].value ELSE satoshi[calls[c].s]],
                     excused' = IF t # calls[c].s \/ (Asks(calls[c].s) /\ calls[c].late)
                                THEN excused \cup {t}
                                ELSE IF Asks(calls[c].s) THEN excused \ {calls[c].s} ELSE excused
              PROVE  BalanceFresh'
          <5>1. \A s \in m_subaccounts \ {t} : satoshi'[s] = satoshi[s] /\ (s \in excused <=> s \in excused')
            BY <4>2 DEF TypeOK
          <5>2. t \in Numbers /\ satoshi'[t] =
                  IF Asks(calls[c].s) THEN calls[c].value ELSE satoshi[calls[c].s]
            BY <4>2 DEF TypeOK
          <5>3. CASE t # calls[c].s \/ (Asks(calls[c].s) /\ calls[c].late)
            BY <3>1, <4>2, <5>1, <5>3 DEF FreshInv, BalanceFresh, Pending
          <5>4. CASE t = calls[c].s /\ Asks(calls[c].s) /\ ~calls[c].late
            <6>1. satoshi'[t] = bal[t]
              BY <2>3, <5>2, <5>4 DEF FreshInv, ReadFresh, StoreBalance, CallAt
            <6> QED  BY <3>1, <5>1, <6>1 DEF FreshInv, BalanceFresh, Pending
          <5>5. CASE t = calls[c].s /\ ~Asks(calls[c].s)
            <6>1. satoshi'[t] = satoshi[t] /\ excused' = excused
              BY <4>2, <5>2, <5>5
            <6> QED  BY <3>1, <5>1, <6>1 DEF FreshInv, BalanceFresh, Pending
          <5> QED  BY <5>3, <5>4, <5>5
        <4>3. calls[c].s \in m_subaccounts
          BY <2>3 DEF StoreBalance
        <4> QED  BY <2>3, <4>1, <4>2, <4>3 DEF StoreBalance
      <3> QED  BY <2>0, <3>1, <3>2, <3>3 DEF FreshInv, UnusedEmpty, LoginFresh, ReadFresh, CreatedFresh
    <2>4. CASE ServerCreates(c)
      <3>1. calls'[c].pc = "idle" \/ (calls'[c].s = calls[c].s /\ bal[calls[c].s] = 0 /\ calls'[c].pc # "read")
        BY <2>0, <2>4 DEF TypeOK, ServerCreates, CallGoes, CallEnds, IdleCall, FreshInv, UnusedEmpty
      <3>2. UNCHANGED <<bal, notes, m_subaccounts, satoshi, excused>> /\ accounts \subseteq accounts'
        BY <2>4 DEF ServerCreates, conn, map, history
      <3> QED  BY <2>0, <3>1, <3>2 DEF FreshInv, UnusedEmpty, LoginFresh, ReadFresh, CreatedFresh,
                                       BalanceFresh, Pending
    <2>5. CASE FinishCreate(c)
      <3>1. calls'[c].pc \notin {"read", "created"}
        BY <2>5, Ending DEF TypeOK, FinishCreate
      <3>2. UNCHANGED <<accounts, bal, notes>>
        BY <2>5 DEF FinishCreate, server, conn
      <3>3. BalanceFresh'
        <4>1. CASE UNCHANGED <<map, excused>>
          BY <3>2, <4>1 DEF FreshInv, BalanceFresh, Pending, map
        <4>2. CASE /\ m_subaccounts' = m_subaccounts \cup {calls[c].s}
                   /\ satoshi' = [satoshi EXCEPT ![calls[c].s] = 0]
                   /\ excused' = IF calls[c].late THEN excused \cup {calls[c].s}
                                                  ELSE excused \ {calls[c].s}
          <5>1. \A s \in m_subaccounts' \ {calls[c].s} :
                  s \in m_subaccounts /\ satoshi'[s] = satoshi[s] /\ (s \in excused <=> s \in excused')
            BY <4>2 DEF TypeOK
          <5>2. satoshi'[calls[c].s] = 0
            BY <2>0, <4>2 DEF TypeOK
          <5>3. calls[c].late \/ bal[calls[c].s] = 0
            BY <2>5 DEF FreshInv, CreatedFresh, FinishCreate, CallAt
          <5> QED  BY <3>2, <4>2, <5>1, <5>2, <5>3 DEF FreshInv, BalanceFresh, Pending
        <4> QED  BY <2>5, <4>1, <4>2 DEF FinishCreate
      <3> QED  BY <2>0, <3>1, <3>2, <3>3 DEF FreshInv, UnusedEmpty, LoginFresh, ReadFresh, CreatedFresh
    <2> QED  BY <1>2, <2>1, <2>2, <2>3, <2>4, <2>5 DEF CallNext
  <1> QED  BY <1>1, <1>2

\* Every step keeps FreshInv
LEMMA FreshStep == TypeOK /\ FreshInv /\ [Next]_vars => FreshInv'
  <1> SUFFICES ASSUME TypeOK, FreshInv, [Next]_vars PROVE FreshInv'
    OBVIOUS
  <1>1. CASE UNCHANGED vars
    BY <1>1 DEF vars, server, conn, map, history, FreshInv, UnusedEmpty, LoginFresh, ReadFresh,
                CreatedFresh, BalanceFresh, Pending
  <1> QED  BY <1>1, FreshServer, FreshDown, FreshLogin, FreshCall DEF Next

\* For any subaccounts, callers and interleaving with logins: a balance that
\* is returned without asking the server is the server's, or its marking is
\* on its way, or it fell into one of the windows BalanceFresh names.
THEOREM FreshBalances == Spec => []BalanceFresh
  <1>1. FreshInv => BalanceFresh
    BY DEF FreshInv
  <1> QED  BY <1>1, TypeInit, TypeStep, FreshInit, FreshStep, PTL DEF Spec

-----------------------------------------------------------------------------
(* Keys.                                                                   *)

\* Only a device is asked for xpubs, and keys made by the session include
\* those of the main account
KeysInv ==
    /\ login["app"].pc = "xpubs" => wallet = "hw"
    /\ wallet = "sw" /\ m_user_pubkeys # {} => 0 \in m_user_pubkeys
    /\ KeysComplete

\* A session right after its first login has all keys
LEMMA KeysInit == Init => KeysInv
  BY AccountsAssumption DEF Init, KeysInv, KeysComplete, IdleLogin, Logins

\* Every step keeps KeysInv
LEMMA KeysStep == TypeOK /\ KeysInv /\ [Next]_vars => KeysInv'
  <1> SUFFICES ASSUME TypeOK, KeysInv, [Next]_vars PROVE KeysInv'
    OBVIOUS
  <1> USE DEF Logins
  <1>1. wallet' = wallet
    BY DEF Next, vars, fixed, ServerNewTx, OtherAppCreates, ConnectionLost, TaskDisconnects, TaskLeaves,
           TaskConnects, TaskLogsIn, AppLogsIn, AppLogsInWithDevice, LoginNext, SignChallenge,
           ServerAuthenticates, LoginFails, update_login_data, update_login_data_throws, Subscribe,
           FinishLogin, register_subaccount_xpubs, RegistrationFails, on_new_transaction, CallNext,
           StartGet, ServerReads, CallFails, StoreBalance, GetThrows, get_next_subaccount, GetXpub,
           ServerCreates, ServerRefuses, FinishCreate
  <1>2. CASE UNCHANGED <<m_user_pubkeys, m_subaccounts, whole, login>>
    BY <1>1, <1>2 DEF KeysInv, KeysComplete
  <1>3. CASE UNCHANGED <<m_user_pubkeys, m_subaccounts, whole>> /\ login'["app"].pc = login["app"].pc
    BY <1>1, <1>3 DEF KeysInv, KeysComplete
  <1>4. ASSUME NEW l \in Logins, NEW pc \in {"idle", "leave", "cached", "challenge", "auth",
                                             "subscribe", "rest"},
               LoginGoes(l, pc),
               \/ UNCHANGED <<m_user_pubkeys, m_subaccounts, whole>>
               \/ m_user_pubkeys' = {}
               \/ m_user_pubkeys' = {0} /\ ~whole'
        PROVE  KeysInv'
    <2>1. login'["app"].pc = "xpubs" => login["app"].pc = "xpubs"
      BY <1>4 DEF LoginGoes, IdleLogin, TypeOK
    <2> QED  BY <1>1, <1>4, <2>1 DEF KeysInv, KeysComplete
  <1>5. CASE UNCHANGED vars
    BY <1>2, <1>5 DEF vars, keys, map, history
  <1>6. CASE (\E S \in Affected : ServerNewTx(S \cap accounts))
    <2>1. login'["app"].pc = login["app"].pc
      BY <1>6 DEF ServerNewTx, LateLogins, TypeOK, LoginStates
    <2> QED  BY <1>3, <1>6, <2>1 DEF ServerNewTx, keys, map
  <1>7. CASE ConnectionLost \/ TaskLeaves
    <2>1. Cut(login)["app"].pc = login["app"].pc /\ DOMAIN Cut(login) = Logins
      BY DEF Cut, TypeOK, LoginStates
    <2>2. login'["app"].pc = login["app"].pc
      BY <1>7, <2>1 DEF ConnectionLost, TaskLeaves
    <2> QED  BY <1>3, <1>7, <2>2 DEF ConnectionLost, TaskLeaves, keys, map
  <1>8. CASE \/ \E n \in Numbers : OtherAppCreates(n)
             \/ on_new_transaction
             \/ \E c \in Callers : CallNext(c) /\ ~FinishCreate(c)
    BY <1>2, <1>8 DEF OtherAppCreates, on_new_transaction, CallNext, StartGet, ServerReads, CallFails,
           StoreBalance, GetThrows, get_next_subaccount, GetXpub, ServerCreates, ServerRefuses,
           keys, map, history
  <1>9. CASE TaskDisconnects \/ TaskConnects \/ TaskLogsIn \/ AppLogsIn \/ AppLogsInWithDevice
             \/ RegistrationFails
    BY <1>4, <1>9 DEF TaskDisconnects, TaskConnects, TaskLogsIn, AppLogsIn, AppLogsInWithDevice,
           RegistrationFails, StartLogin, on_failed_login, keys, map, history
  <1>10. CASE register_subaccount_xpubs
    <2>1. wallet' = "hw" /\ wallet' # "sw"
      BY <1>1, <1>10 DEF KeysInv, register_subaccount_xpubs, At
    <2> QED  BY <2>1 DEF KeysInv, KeysComplete
  <1>11. ASSUME NEW l \in Logins, LoginNext(l) PROVE KeysInv'
    <2>1. CASE SignChallenge(l) \/ LoginFails(l) \/ Subscribe(l)
      BY <1>4, <2>1 DEF SignChallenge, LoginFails, Subscribe, CleanUp, on_failed_login, keys, map, history
    <2>2. CASE ServerAuthenticates(l)
      <3>1. login'["app"].pc = "xpubs" => login["app"].pc = "xpubs"
        BY <2>2 DEF ServerAuthenticates, IdleLogin, TypeOK
      <3> QED  BY <1>1, <2>2, <3>1 DEF ServerAuthenticates, KeysInv, KeysComplete, keys, map, history
    <2>3. CASE FinishLogin(l)
      <3>1. login'["app"].pc = "xpubs" => wallet = "hw"
        BY <2>3 DEF FinishLogin, IdleLogin, TypeOK, KeysInv
      <3> QED  BY <1>1, <2>3, <3>1 DEF FinishLogin, KeysInv, KeysComplete, keys, map, history
    <2>4. CASE update_login_data(l)
      <3>1. login'["app"].pc = "xpubs" => login["app"].pc = "xpubs"
        BY <2>4 DEF update_login_data, LoginGoes, IdleLogin, TypeOK
      <3>2. m_user_pubkeys = {} => m_user_pubkeys' = {}
        BY <2>4 DEF update_login_data, Derives, Underived
      <3>3. m_user_pubkeys # {} => m_user_pubkeys' = m_user_pubkeys \cup login[l].accounts
        BY <2>4 DEF update_login_data, Derives, Underived
      <3>4. m_subaccounts' = login[l].accounts \cup {0}
        BY <2>4 DEF update_login_data, WithMain
      <3> QED  BY <1>1, <3>1, <3>2, <3>3, <3>4 DEF KeysInv, KeysComplete
    <2>5. CASE update_login_data_throws(l)
      <3>1. login'["app"].pc = "xpubs" => login["app"].pc = "xpubs"
        BY <2>5 DEF update_login_data_throws, LoginGoes, IdleLogin, TypeOK
      <3>2. ~whole' /\ (m_user_pubkeys' = m_user_pubkeys \/ m_user_pubkeys' = {})
        BY <2>5 DEF update_login_data_throws, keys
      <3> QED  BY <1>1, <3>1, <3>2 DEF KeysInv, KeysComplete
    <2> QED  BY <1>11, <2>1, <2>2, <2>3, <2>4, <2>5 DEF LoginNext
  <1>12. ASSUME NEW c \in Callers, FinishCreate(c) PROVE KeysInv'
    <2>1. UNCHANGED <<login, whole>>
      BY <1>12 DEF FinishCreate
    <2>2. \/ UNCHANGED <<m_user_pubkeys, m_subaccounts>>
          \/ /\ m_user_pubkeys # {} /\ m_user_pubkeys' = m_user_pubkeys \cup {calls[c].s}
             /\ m_subaccounts' \subseteq m_subaccounts \cup {calls[c].s}
      BY <1>12 DEF FinishCreate, map
    <2> QED  BY <1>1, <2>1, <2>2 DEF KeysInv, KeysComplete
  <1> QED  BY <1>5, <1>6, <1>7, <1>8, <1>9, <1>10, <1>11, <1>12 DEF Next, CallNext

\* For any subaccounts, callers and overlapping logins with a mnemonic: after
\* an update_login_data there are keys for all subaccounts or none at all.
THEOREM CompleteKeys == Spec => []KeysComplete
  <1>1. KeysInv => KeysComplete
    BY DEF KeysInv
  <1> QED  BY <1>1, TypeInit, TypeStep, KeysInit, KeysStep, PTL DEF Spec

-----------------------------------------------------------------------------
(* Numbers.                                                                *)

\* All numbers in use are below m_next_subaccount, the reserved ones are
\* different and fit what the server and the session have
Reserved == \A c \in Callers : Creating(c) =>
    /\ calls[c].s < m_next_subaccount
    /\ calls[c].pc # "created" => calls[c].s \notin accounts
    /\ calls[c].s \notin m_subaccounts
Distinct == \A c, d \in Callers :
    Creating(c) /\ Creating(d) /\ calls[c].s = calls[d].s => c = d
NumbersInv == ~racy =>
    /\ \A s \in accounts \cup m_subaccounts : s < m_next_subaccount
    /\ Reserved
    /\ Distinct
    /\ login["app"].pc \in {"subscribe", "rest", "xpubs"} => \A c \in Callers : ~Creating(c)

\* A session right after its first login has no number reserved
LEMMA NumbersInit == Init => NumbersInv
  BY DEF Init, NumbersInv, Reserved, Distinct, Creating, IsNext, IdleCall, IdleLogin, Logins

\* Steps that change neither numbers nor the calls that create
LEMMA NumbersKept ==
  ASSUME NumbersInv, UNCHANGED <<accounts, m_subaccounts, m_next_subaccount>>,
         racy' = racy,
         \A c \in Callers : Creating(c)' => /\ Creating(c) /\ calls'[c].s = calls[c].s
                                            /\ (calls'[c].pc = "created" <=> calls[c].pc = "created"),
         login'["app"].pc \in {"subscribe", "rest", "xpubs"} =>
             login["app"].pc \in {"subscribe", "rest", "xpubs"}
  PROVE  NumbersInv'
  BY DEF NumbersInv, Reserved, Distinct

\* Steps of the logins keep NumbersInv
LEMMA NumbersLogin ==
  ASSUME TypeOK, NumbersInv, NEW l \in Logins, LoginNext(l)
  PROVE  NumbersInv'
  <1> USE DEF Logins
  <1>1. CASE SignChallenge(l) \/ LoginFails(l) \/ ServerAuthenticates(l)
    <2>1. login'["app"].pc \in {"subscribe", "rest", "xpubs"} => login'["app"] = login["app"]
      BY <1>1 DEF SignChallenge, LoginFails, ServerAuthenticates, LoginGoes, IdleLogin, TypeOK
    <2> QED  BY <1>1, <2>1, NumbersKept
             DEF SignChallenge, LoginFails, ServerAuthenticates, server, map, history, Creating
  <1>2. CASE Subscribe(l) \/ FinishLogin(l)
    <2>1. login'["app"].pc \in {"subscribe", "rest", "xpubs"} =>
            login["app"].pc \in {"subscribe", "rest", "xpubs"}
      BY <1>2 DEF Subscribe, FinishLogin, LoginReplies, At, LoginGoes, IdleLogin, TypeOK
    <2> QED  BY <1>2, <2>1, NumbersKept
             DEF Subscribe, FinishLogin, server, map, history, Creating
  <1>3. CASE update_login_data(l)
    <2>1. SUFFICES ASSUME ~racy' PROVE NumbersInv'
      BY DEF NumbersInv
    <2>2. login[l].accounts = accounts \ {0} /\ \A c \in Callers : ~Creating(c)
      BY <1>3, <2>1 DEF update_login_data
    <2>3. \A c \in Callers : calls'[c].pc = calls[c].pc
      BY <1>3 DEF update_login_data, Dangle, TypeOK, CallStates
    <2>4. \A c \in Callers : ~Creating(c)'
      BY <2>2, <2>3 DEF Creating
    <2>5. \A s \in accounts' \cup m_subaccounts' : s < m_next_subaccount'
      BY <1>3, <2>2, MaxAssumption DEF update_login_data, WithMain, IsNext, server, TypeOK, Numbers
    <2> QED  BY <2>4, <2>5 DEF NumbersInv, Reserved, Distinct
  <1>4. CASE update_login_data_throws(l)
    BY <1>4 DEF update_login_data_throws, NumbersInv
  <1> QED  BY <1>1, <1>2, <1>3, <1>4 DEF LoginNext

\* The hole register_subaccount_xpubs fills is below m_next_subaccount
LEMMA NumbersRegister ==
  ASSUME TypeOK, NumbersInv, register_subaccount_xpubs
  PROVE  NumbersInv'
  <1> USE DEF Logins
  <1>1. UNCHANGED <<accounts, m_next_subaccount, calls, racy>>
    BY DEF register_subaccount_xpubs, server, map, history
  <1>2. login'["app"].pc = "idle"
    BY DEF register_subaccount_xpubs, LoginGoes, IdleLogin, TypeOK
  <1>3. SUFFICES ASSUME ~racy PROVE NumbersInv'
    BY <1>1 DEF NumbersInv
  <1>4. \A c \in Callers : ~Creating(c)'
    BY <1>1, <1>3 DEF register_subaccount_xpubs, At, NumbersInv, Creating
  <1>5. Cardinality(m_subaccounts) \in 0..m_next_subaccount
    <2>1. m_next_subaccount \in Nat /\ m_subaccounts \in SUBSET (0..m_next_subaccount - 1)
      BY <1>3, MaxAssumption DEF NumbersInv, TypeOK, Numbers
    <2> QED  BY <2>1, Below
  <1>6. \A s \in m_subaccounts' \ m_subaccounts : s \in 1..Cardinality(m_subaccounts) - 1
    BY DEF register_subaccount_xpubs, map
  <1>7. \A s \in m_subaccounts' : s < m_next_subaccount
    BY <1>3, <1>5, <1>6 DEF NumbersInv, TypeOK
  <1> QED  BY <1>1, <1>2, <1>3, <1>4, <1>7 DEF NumbersInv, Reserved, Distinct

\* Steps of the calls keep NumbersInv
LEMMA NumbersCall ==
  ASSUME TypeOK, NumbersInv, NEW c \in Callers, CallNext(c)
  PROVE  NumbersInv'
  <1>0. /\ \A d \in Callers \ {c} : calls'[d] = calls[d]
        /\ login' = login /\ \A d \in Callers : calls[d].s \in Numbers
    BY OneCall DEF TypeOK, CallStates
  <1>1. ASSUME UNCHANGED <<accounts, m_subaccounts, m_next_subaccount, racy>>,
               ~Creating(c)'
        PROVE  NumbersInv'
    <2>1. \A d \in Callers : Creating(d)' => d # c /\ Creating(d) /\ calls'[d] = calls[d]
      BY <1>0, <1>1 DEF Creating
    <2> QED  BY <1>0, <1>1, <2>1, NumbersKept
  <1>2. CASE \E s \in Numbers, all \in BOOLEAN : StartGet(c, s, all)
    <2>1. ~Creating(c)'
      BY <1>2, ReadingOn DEF StartGet, Creating, TypeOK
    <2> QED  BY <1>1, <1>2, <2>1 DEF StartGet, server, map, history
  <1>3. CASE ServerReads(c)
    <2>1. ~Creating(c)'
      BY <1>3 DEF ServerReads, Creating, TypeOK, CallStates
    <2> QED  BY <1>1, <1>3, <2>1 DEF ServerReads, server, map, history
  <1>4. CASE CallFails(c) \/ GetThrows(c) \/ ServerRefuses(c)
    <2>1. ~Creating(c)'
      BY <1>4, Ending DEF CallFails, GetThrows, ServerRefuses, Creating, TypeOK
    <2> QED  BY <1>1, <1>4, <2>1 DEF CallFails, GetThrows, ServerRefuses, server, map, history
  <1>5. CASE StoreBalance(c)
    <2>1. CASE CallEnds(c, "idle")
      BY <1>1, <1>5, <2>1, Ending DEF StoreBalance, Creating, TypeOK, server
    <2>2. CASE \E t \in m_subaccounts : calls' = [calls EXCEPT ![c] = Reading(t, TRUE)]
      <3>1. calls'[c].pc = "reading"
        BY <2>2, ReadingOn DEF TypeOK
      <3> QED  BY <1>1, <1>5, <3>1 DEF StoreBalance, Creating, server
    <2> QED  BY <1>5, <2>1, <2>2 DEF StoreBalance, GoOn
  <1>6. CASE get_next_subaccount(c)
    <2>1. /\ calls'[c].s = m_next_subaccount /\ calls'[c].pc = "reserved"
          /\ m_next_subaccount' = m_next_subaccount + 1
          /\ UNCHANGED <<accounts, m_subaccounts, racy>> /\ login'["app"].pc = "idle"
      BY <1>0, <1>6, Going DEF get_next_subaccount, Free, At, TypeOK, server, history
    <2>2. SUFFICES ASSUME ~racy PROVE NumbersInv'
      BY <2>1 DEF NumbersInv
    <2>3. \A n \in Numbers \cup {m_next_subaccount} : n \in Int
      BY MaxAssumption DEF Numbers, TypeOK
    <2>4. \A s \in accounts' \cup m_subaccounts' : s < m_next_subaccount'
      BY <2>1, <2>2, <2>3 DEF NumbersInv, TypeOK
    <2>5. Reserved'
      <3> SUFFICES ASSUME NEW d \in Callers, Creating(d)'
                   PROVE  /\ calls'[d].s < m_next_subaccount'
                          /\ calls'[d].pc # "created" => calls'[d].s \notin accounts'
                          /\ calls'[d].s \notin m_subaccounts'
        BY DEF Reserved
      <3>1. CASE d = c
        BY <2>1, <2>2, <2>3, <3>1 DEF NumbersInv, TypeOK
      <3>2. CASE d # c
        BY <1>0, <2>1, <2>2, <2>3, <3>2 DEF NumbersInv, Reserved, Creating
      <3> QED  BY <3>1, <3>2
    <2>6. \A d \in Callers \ {c} : Creating(d)' => calls'[d].s # calls'[c].s
      BY <1>0, <2>1, <2>2, <2>3 DEF NumbersInv, Reserved, Creating
    <2>7. Distinct'
      BY <1>0, <2>2, <2>6 DEF NumbersInv, Distinct, Creating
    <2> QED  BY <2>1, <2>4, <2>5, <2>7 DEF NumbersInv
  <1>7. CASE GetXpub(c)
    <2>1. calls'[c].s = calls[c].s /\ calls'[c].pc = "creating" /\ calls[c].pc = "reserved"
      BY <1>0, <1>7, Going DEF GetXpub, CallAt, TypeOK
    <2> QED  BY <1>0, <1>7, <2>1, NumbersKept DEF GetXpub, server, map, history, Creating
  <1>8. CASE ServerCreates(c)
    <2>1. calls[c].pc = "creating" /\ Creating(c)
      BY <1>8 DEF ServerCreates, CallReplies, CallAt, Creating
    <2>2. CASE CallGoes(c, "created", calls[c].s)
      <3>1. calls'[c].s = calls[c].s /\ calls'[c].pc = "created"
        BY <1>0, <2>2, Going DEF TypeOK
      <3>2. accounts' = accounts \cup {calls[c].s} /\ UNCHANGED <<m_subaccounts, m_next_subaccount, racy>>
        BY <1>8 DEF ServerCreates, map, history
      <3> QED  BY <1>0, <2>1, <3>1, <3>2 DEF NumbersInv, Reserved, Distinct, Creating
    <2>3. CASE CallEnds(c, "idle")
      <3>1. calls'[c].pc = "idle"
        BY <2>3, Ending DEF TypeOK
      <3>2. accounts' = accounts \cup {calls[c].s} /\ UNCHANGED <<m_subaccounts, m_next_subaccount, racy>>
        BY <1>8 DEF ServerCreates, map, history
      <3> QED  BY <1>0, <2>1, <3>1, <3>2 DEF NumbersInv, Reserved, Distinct, Creating
    <2> QED  BY <1>8, <2>2, <2>3 DEF ServerCreates
  <1>9. CASE FinishCreate(c)
    <2>1. Creating(c) /\ ~Creating(c)'
      BY <1>9, Ending DEF FinishCreate, CallAt, Creating, TypeOK
    <2>2. /\ m_subaccounts' \subseteq m_subaccounts \cup {calls[c].s}
          /\ UNCHANGED <<accounts, m_next_subaccount, racy>>
      BY <1>9 DEF FinishCreate, map, server
    <2> QED  BY <1>0, <2>1, <2>2 DEF NumbersInv, Reserved, Distinct, Creating
  <1> QED  BY <1>2, <1>3, <1>4, <1>5, <1>6, <1>7, <1>8, <1>9 DEF CallNext

\* Every step keeps NumbersInv
LEMMA NumbersStep == TypeOK /\ NumbersInv /\ [Next]_vars => NumbersInv'
  <1> SUFFICES ASSUME TypeOK, NumbersInv, [Next]_vars PROVE NumbersInv'
    OBVIOUS
  <1> USE DEF Logins
  <1>1. CASE UNCHANGED vars
    BY <1>1, NumbersKept DEF vars, server, map, history, Creating
  <1>2. CASE \E S \in Affected : ServerNewTx(S \cap accounts)
    <2>1. login'["app"].pc = login["app"].pc
      BY <1>2 DEF ServerNewTx, LateLogins, TypeOK, LoginStates
    <2>2. \A c \in Callers : calls'[c].pc = calls[c].pc /\ calls'[c].s = calls[c].s
      BY <1>2 DEF ServerNewTx, LateCalls, TypeOK, CallStates
    <2> QED  BY <1>2, <2>1, <2>2, NumbersKept DEF ServerNewTx, map, Creating
  <1>3. CASE \E n \in Numbers : OtherAppCreates(n)
    BY <1>3 DEF OtherAppCreates, NumbersInv
  <1>4. CASE ConnectionLost \/ TaskLeaves
    <2>1. Cut(login)["app"].pc = login["app"].pc /\ DOMAIN Cut(login) = Logins
      BY DEF Cut, TypeOK, LoginStates
    <2>2. login'["app"].pc = login["app"].pc
      BY <1>4, <2>1 DEF ConnectionLost, TaskLeaves
    <2>3. calls' = Cut(calls)
      BY <1>4 DEF ConnectionLost, TaskLeaves, GoDown
    <2>4. \A c \in Callers : calls'[c].pc = calls[c].pc /\ calls'[c].s = calls[c].s
      BY <2>3 DEF Cut, TypeOK, CallStates
    <2> QED  BY <1>4, <2>2, <2>4, NumbersKept DEF ConnectionLost, TaskLeaves, server, map, Creating
  <1>5. CASE TaskDisconnects \/ TaskConnects \/ TaskLogsIn \/ AppLogsIn \/ AppLogsInWithDevice
             \/ RegistrationFails
    <2>1. login'["app"].pc \in {"subscribe", "rest", "xpubs"} => login'["app"] = login["app"]
      BY <1>5 DEF TaskDisconnects, TaskConnects, TaskLogsIn, AppLogsIn, AppLogsInWithDevice,
                  RegistrationFails, StartLogin, LoginGoes, IdleLogin, TypeOK
    <2>2. UNCHANGED <<accounts, m_subaccounts, m_next_subaccount, calls, racy>>
      BY <1>5 DEF TaskDisconnects, TaskConnects, TaskLogsIn, AppLogsIn, AppLogsInWithDevice,
                  RegistrationFails, server, map, history
    <2> QED  BY <2>1, <2>2, NumbersKept DEF Creating
  <1>6. CASE on_new_transaction
    BY <1>6, NumbersKept DEF on_new_transaction, server, Creating
  <1> QED  BY <1>1, <1>2, <1>3, <1>4, <1>5, <1>6, NumbersLogin, NumbersRegister, NumbersCall DEF Next

\* For any subaccounts and any number of concurrent calls: a reserved number
\* is refused, by the server or by insert_subaccount, only if subaccounts were
\* created around a login.
THEOREM FittingNumbers == Spec => NumbersFit
  <1>1. ASSUME TypeOK, NumbersInv, [Next]_vars, NEW c \in Callers,
               calls[c].pc # "refused", calls'[c].pc = "refused"
        PROVE  racy
    <2>1. SUFFICES ASSUME ~racy PROVE FALSE
      OBVIOUS
    <2>2. CASE \E d \in Callers : CallNext(d)
      <3>1. CallNext(c)
        <4>1. PICK d \in Callers : CallNext(d)
          BY <2>2
        <4>2. d = c
          BY <1>1, <4>1, OneCall DEF TypeOK
        <4> QED  BY <4>1, <4>2
      <3>2. CASE ServerRefuses(c)
        BY <1>1, <2>1, <3>2 DEF ServerRefuses, CallReplies, CallAt, Creating, NumbersInv, Reserved
      <3>3. CASE FinishCreate(c)
        <4>1. calls[c].s \notin m_subaccounts
          BY <1>1, <2>1, <3>3 DEF FinishCreate, CallAt, Creating, NumbersInv, Reserved
        <4>2. CallEnds(c, "crashed") \/ CallEnds(c, "idle")
          BY <3>3, <4>1 DEF FinishCreate
        <4> QED  BY <1>1, <4>2, Ending DEF TypeOK
      <3>4. CASE \E s \in Numbers, all \in BOOLEAN : StartGet(c, s, all)
        BY <1>1, <3>4, ReadingOn DEF StartGet, TypeOK
      <3>8. CASE ServerReads(c)
        BY <1>1, <3>8 DEF ServerReads, TypeOK, CallStates
      <3>5. CASE CallFails(c) \/ GetThrows(c)
        BY <1>1, <3>5, Ending DEF CallFails, GetThrows, TypeOK
      <3>6. CASE StoreBalance(c)
        <4>1. CASE CallEnds(c, "idle")
          BY <1>1, <4>1, Ending DEF TypeOK
        <4>2. CASE \E t \in m_subaccounts : calls' = [calls EXCEPT ![c] = Reading(t, TRUE)]
          BY <1>1, <4>2, ReadingOn DEF TypeOK
        <4> QED  BY <3>6, <4>1, <4>2 DEF StoreBalance, GoOn
      <3>7. CASE get_next_subaccount(c) \/ GetXpub(c) \/ ServerCreates(c)
        BY <1>1, <3>7 DEF get_next_subaccount, GetXpub, ServerCreates, CallEnds, CallGoes, IdleCall, TypeOK
      <3> QED  BY <3>1, <3>2, <3>3, <3>4, <3>5, <3>6, <3>7, <3>8 DEF CallNext
    <2>3. CASE ~\E d \in Callers : CallNext(d)
      <3>1. \/ calls' = calls \/ calls' = Cut(calls) \/ Dangle
            \/ \E S \in Affected : calls' = LateCalls(S \cap accounts)
        BY <1>1, <2>3 DEF Next, vars, ServerNewTx, OtherAppCreates, ConnectionLost, GoDown,
             TaskDisconnects, TaskLeaves, TaskConnects, TaskLogsIn, AppLogsIn, AppLogsInWithDevice,
             LoginNext, SignChallenge, ServerAuthenticates, LoginFails, update_login_data,
             update_login_data_throws, Subscribe, FinishLogin, register_subaccount_xpubs,
             RegistrationFails, on_new_transaction
      <3>2. calls'[c].pc = calls[c].pc
        <4>1. calls \in [Callers -> CallStates]
          BY <1>1 DEF TypeOK
        <4>2. CASE calls' = Cut(calls)
          BY <4>1, <4>2 DEF Cut, CallStates
        <4>3. CASE Dangle
          BY <4>1, <4>3 DEF Dangle, CallStates
        <4>4. CASE \E S \in Affected : calls' = LateCalls(S \cap accounts)
          BY <4>1, <4>4 DEF LateCalls, CallStates
        <4> QED  BY <3>1, <4>2, <4>3, <4>4
      <3> QED  BY <1>1, <3>2
    <2> QED  BY <2>2, <2>3
  <1>2. TypeOK /\ NumbersInv /\ [Next]_vars =>
          [\A c \in Callers : calls[c].pc # "refused" /\ calls'[c].pc = "refused" => racy]_vars
    BY <1>1
  <1> QED  BY <1>2, TypeInit, TypeStep, NumbersInit, NumbersStep, PTL DEF Spec, NumbersFit

=============================================================================
