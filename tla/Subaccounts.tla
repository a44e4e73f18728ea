----------------------------- MODULE Subaccounts -----------------------------
(***************************************************************************)
(* Subaccounts of a GreenAddress session, their cached balances, and the   *)
(* logins that replace them (ga_session.cpp): get_subaccount(s),           *)
(* create_subaccount, on_new_transaction's marking of balances, login,     *)
(* authenticate, update_login_data, on_failed_login, the login of the      *)
(* reconnect task and the registration of a hardware wallet's xpubs.       *)
(*                                                                         *)
(* Every action is what one thread does while it holds m_mutex, or one     *)
(* step of the server; m_mutex is free between two actions, as it is while *)
(* the code waits for a reply.  Two threads log in: the reconnect task     *)
(* (again, with the mnemonic it kept) and the application.                 *)
(*                                                                         *)
(* excused, racy and whole are history; no guard reads them.               *)
(***************************************************************************)
EXTENDS Integers, Sequences, FiniteSets

CONSTANTS
    MaxNumber,   \* the largest subaccount number (the code has 16383)
    Accounts,    \* the sets of subaccounts a wallet may start with
    Wallets,     \* "sw": keys in the session, "hw": keys in a device
    Networks,    \* "btc" or "liquid"
    Affected,    \* the sets of subaccounts a transaction may touch
    Callers,     \* threads calling get_subaccount(s) and create_subaccount
    MaxChanges,  \* bound: changes of one balance
    MaxNotes     \* bound: undelivered notifications

Numbers == 0..MaxNumber
Dirty == -1           \* an entry without "satoshi"
Logins == {"task", "app"}

ASSUME MaxAssumption == MaxNumber \in Nat /\ MaxChanges \in Nat
ASSUME AccountsAssumption ==
    \A A \in Accounts : A \subseteq Numbers /\ 0 \in A /\ \A s \in A : 0..s \subseteq A
ASSUME AffectedAssumption == Affected \subseteq SUBSET Numbers
ASSUME KindsAssumption == Wallets \subseteq {"sw", "hw"} /\ Networks \subseteq {"btc", "liquid"}

VARIABLES
    accounts,        \* server: the subaccounts of the wallet
    bal,             \* server: balance of each, counted in changes
    link,            \* "down", "open": connected, "authed": and logged in
    sub,             \* subscribed to the wallet's transactions
    notes,           \* notifications on their way: sets of subaccounts
    wallet, network, \* fixed at the start
    m_subaccounts,   \* the keys of m_subaccounts
    satoshi,         \* their "satoshi", or Dirty
    m_next_subaccount,
    m_signer,        \* m_signer is set
    m_user_pubkeys,  \* subaccounts with keys; {}: null
    m_mnemonic,      \* m_mnemonic is set
    m_local_encryption_key, \* is set
    login,           \* the two logins
    calls,           \* the calls
    excused,         \* history: balances that missed a change, see BalanceFresh
    racy,            \* history: subaccounts were created around a login
    whole            \* history: the last login that created keys was applied

server == <<accounts, bal>>
conn == <<link, sub, notes>>
fixed == <<wallet, network>>
map == <<m_subaccounts, satoshi, m_next_subaccount>>
keys == <<m_signer, m_user_pubkeys, m_mnemonic, m_local_encryption_key>>
history == <<excused, racy, whole>>
vars == <<server, conn, fixed, map, keys, login, calls, history>>

IdleLogin == [pc |-> "idle", accounts |-> {}, bal |-> [s \in Numbers |-> 0],
              late |-> {}, cut |-> FALSE]
IdleCall == [pc |-> "idle", s |-> 0, value |-> 0, all |-> FALSE,
             late |-> FALSE, dangling |-> FALSE, cut |-> FALSE]
\* n is one more than the largest number in A
IsNext(n, A) == n - 1 \in A \cup {0} /\ \A s \in A : s < n

\* A session right after its first login
Init ==
    /\ accounts \in Accounts
    /\ bal = [s \in Numbers |-> 0]
    /\ link = "authed" /\ sub = TRUE /\ notes = <<>>
    /\ wallet \in Wallets /\ network \in Networks
    /\ m_subaccounts = accounts
    /\ satoshi = bal
    /\ m_next_subaccount \in 1..MaxNumber + 1 /\ IsNext(m_next_subaccount, accounts)
    /\ m_signer = TRUE
    /\ m_user_pubkeys = accounts
    /\ m_mnemonic = (wallet = "sw") /\ m_local_encryption_key = TRUE
    /\ login = [l \in Logins |-> IdleLogin]
    /\ calls = [c \in Callers |-> IdleCall]
    /\ excused = {} /\ racy = FALSE /\ whole = TRUE

-----------------------------------------------------------------------------
(* The server and the connection.                                          *)

Pending == UNION {notes[i] : i \in DOMAIN notes}
\* Somebody holds a reply the server gave before it changed the balances of S
LateLogins(S) == [l \in Logins |->
    IF login[l].pc = "apply" THEN [login[l] EXCEPT !.late = @ \cup S] ELSE login[l]]
LateCalls(S) == [c \in Callers |->
    IF calls[c].pc \in {"read", "created"} /\ calls[c].s \in S
    THEN [calls[c] EXCEPT !.late = TRUE] ELSE calls[c]]

\* A transaction of the wallet that touches the subaccounts S
ServerNewTx(S) ==
    /\ S # {}
    /\ \A s \in S : bal[s] < MaxChanges
    /\ bal' = [s \in Numbers |-> IF s \in S THEN bal[s] + 1 ELSE bal[s]]
    /\ login' = LateLogins(S)
    /\ calls' = LateCalls(S)
    /\ \/ sub /\ Len(notes) < MaxNotes /\ notes' = Append(notes, S) /\ UNCHANGED excused
       \/ ~sub /\ excused' = excused \cup S /\ UNCHANGED notes
    /\ UNCHANGED <<accounts, link, sub, fixed, map, keys, racy, whole>>

\* The user creates a subaccount in another app
OtherAppCreates(n) ==
    /\ n \in Numbers \ accounts
    /\ accounts' = accounts \cup {n}
    /\ racy' = TRUE
    /\ UNCHANGED <<bal, conn, fixed, map, keys, login, calls, excused, whole>>

\* Calls in progress on a connection that goes down only end in an error
Waiting == {"challenge", "auth", "subscribe", "rest", "reading", "creating"}
Cut(x) == [i \in DOMAIN x |-> IF x[i].pc \in Waiting THEN [x[i] EXCEPT !.cut = TRUE] ELSE x[i]]
GoDown ==
    /\ link' = "down" /\ sub' = FALSE /\ notes' = <<>>
    /\ excused' = excused \cup Pending
    /\ calls' = Cut(calls)

ConnectionLost ==
    /\ link # "down"
    /\ GoDown
    /\ login' = Cut(login)
    /\ UNCHANGED <<server, fixed, map, keys, racy, whole>>

-----------------------------------------------------------------------------
(* Logging in.                                                             *)

At(l, pc) == login[l].pc = pc
LoginGoes(l, pc) == login' = [login EXCEPT ![l] = [IdleLogin EXCEPT !.pc = pc]]
LoginReplies(l, pc) == At(l, pc) /\ ~login[l].cut /\ link # "down"

on_failed_login ==
    /\ m_signer' = FALSE /\ m_user_pubkeys' = {}
    /\ m_mnemonic' = FALSE /\ m_local_encryption_key' = FALSE

\* What is done about an exception of a login: reconnect() always cleans up,
\* session::exception_wrapper only after a login_error
CleanUp(l, refused) ==
    IF l = "task" \/ refused THEN on_failed_login ELSE UNCHANGED keys

\* reconnect(): disconnect() first drops the signer ...
TaskDisconnects ==
    /\ At("task", "idle")
    /\ m_signer' = FALSE
    /\ LoginGoes("task", "leave")
    /\ UNCHANGED <<server, conn, fixed, map, m_user_pubkeys, m_mnemonic,
                   m_local_encryption_key, calls, history>>

\* ... then leaves the session and closes the transport
TaskLeaves ==
    /\ At("task", "leave")
    /\ GoDown
    /\ login' = [Cut(login) EXCEPT !["task"].pc = "connect"]
    /\ UNCHANGED <<server, fixed, map, keys, racy, whole>>

\* connect() succeeds, or throws: try_reconnect's loop calls reconnect() again
TaskConnects ==
    /\ At("task", "connect")
    /\ \/ link' = "open" /\ LoginGoes("task", "cached")
       \/ LoginGoes("task", "idle") /\ UNCHANGED link
    /\ UNCHANGED <<server, sub, notes, fixed, map, keys, calls, history>>

\* login(locker, mnemonic) up to its first call
StartLogin(l) ==
    /\ m_signer' = TRUE
    /\ m_user_pubkeys' = {0}
    /\ m_local_encryption_key' = TRUE
    /\ whole' = FALSE
    /\ LoginGoes(l, "challenge")
    /\ UNCHANGED m_mnemonic

\* login_from_cached, when there is a mnemonic
TaskLogsIn ==
    /\ At("task", "cached")
    /\ IF m_mnemonic
       THEN StartLogin("task")
       ELSE on_failed_login /\ LoginGoes("task", "idle") /\ UNCHANGED whole
    /\ UNCHANGED <<server, conn, fixed, map, calls, excused, racy>>

\* GA_login with a mnemonic; a session that has a signer refuses it
AppLogsIn ==
    /\ wallet = "sw" /\ At("app", "idle")
    /\ ~m_signer
    /\ StartLogin("app")
    /\ UNCHANGED <<server, conn, fixed, map, calls, excused, racy>>

\* GA_login with a device: login_call sets the local encryption key, which
\* must not be set, has the device sign the challenge and calls authenticate,
\* which makes a proxy signer if there is no signer
AppLogsInWithDevice ==
    /\ wallet = "hw" /\ At("app", "idle")
    /\ ~m_local_encryption_key
    /\ m_signer' = TRUE /\ m_local_encryption_key' = TRUE
    /\ LoginGoes("app", "auth")
    /\ UNCHANGED <<server, conn, fixed, map, m_user_pubkeys, m_mnemonic, calls, history>>

\* The challenge arrives and is signed; authenticate sends the answer
SignChallenge(l) ==
    /\ LoginReplies(l, "challenge")
    /\ IF m_signer
       THEN /\ m_mnemonic' = TRUE
            /\ LoginGoes(l, "auth")
            /\ UNCHANGED <<m_signer, m_user_pubkeys, m_local_encryption_key>>
       ELSE CleanUp(l, FALSE) /\ LoginGoes(l, "idle")
    /\ UNCHANGED <<server, conn, fixed, map, calls, history>>

\* The server accepts the signature and replies with the wallet's data
ServerAuthenticates(l) ==
    /\ LoginReplies(l, "auth")
    /\ link' = "authed"
    /\ login' = [login EXCEPT ![l] =
          [IdleLogin EXCEPT !.pc = "apply", !.accounts = accounts \ {0}, !.bal = bal]]
    /\ UNCHANGED <<server, sub, notes, fixed, map, keys, calls, history>>

\* A call fails, or the login threw; "false" in answer to authenticate is a
\* login_error
LoginFails(l) ==
    /\ login[l].pc \in Waiting \cup {"failed"}
    /\ \/ CleanUp(l, FALSE)
       \/ LoginReplies(l, "auth") /\ CleanUp(l, TRUE)
    /\ LoginGoes(l, "idle")
    /\ UNCHANGED <<server, conn, fixed, map, calls, history>>

\* m_subaccounts is cleared: references and iterators into it are dead
Dangle == calls' = [c \in Callers |->
    IF calls[c].pc \in {"reading", "read"} THEN [calls[c] EXCEPT !.dangling = TRUE]
    ELSE calls[c]]
Creating(c) == calls[c].pc \in {"reserved", "creating", "created"}

\* insert_subaccount needs the signer to derive keys that are not there yet
Underived(A) == IF m_user_pubkeys = {} THEN {} ELSE A \ m_user_pubkeys

\* Mutant: nothing is done about subaccounts the session knew before
DerivesNew(A) == m_user_pubkeys \cup (Underived(A) \ m_subaccounts)

\* insert_subaccount adds the keys, unless m_user_pubkeys is null
Derives(A) == m_user_pubkeys \cup Underived(A)

\* "Insert the main account so callers can treat all accounts equally"
WithMain(A) == A \cup {0}

\* update_login_data
update_login_data(l) ==
    LET data == login[l] IN
    /\ At(l, "apply")
    /\ m_signer \/ Underived(data.accounts) = {}
    /\ m_subaccounts' = WithMain(data.accounts)
    /\ satoshi' = data.bal
    /\ \E n \in 1..MaxNumber + 1 : IsNext(n, data.accounts) /\ m_next_subaccount' = n
    /\ m_user_pubkeys' = Derives(data.accounts)
    /\ Dangle
    /\ LoginGoes(l, "subscribe")
    /\ excused' = data.late
    /\ racy' = (data.accounts # accounts \ {0} \/ \E c \in Callers : Creating(c))
    /\ whole' = TRUE
    /\ UNCHANGED <<server, conn, fixed, m_signer, m_mnemonic, m_local_encryption_key>>

\* get_signer() throws at the first subaccount without keys, which is already
\* in the map; those after it and the main account are not
update_login_data_throws(l) ==
    LET data == login[l] IN
    /\ At(l, "apply")
    /\ ~m_signer
    /\ \E u \in Underived(data.accounts) :
         /\ \A v \in Underived(data.accounts) : u <= v
         /\ m_subaccounts' = {s \in data.accounts : s <= u}
         /\ \E n \in 0..u - 1 :
              /\ IsNext(n + 1, {s \in data.accounts : s < u})
              /\ m_next_subaccount' = n
    /\ satoshi' = data.bal
    /\ Dangle
    /\ LoginGoes(l, "failed")
    /\ excused' = data.late
    /\ racy' = TRUE
    /\ whole' = FALSE
    /\ UNCHANGED <<server, conn, fixed, keys>>

\* The subscription to the wallet's transactions
Subscribe(l) ==
    /\ LoginReplies(l, "subscribe")
    /\ sub' = TRUE
    /\ LoginGoes(l, "rest")
    /\ UNCHANGED <<server, link, notes, fixed, map, keys, calls, history>>

\* The other subscriptions and push_appearance_to_server, then the end of the
\* login; with a device login_call goes on to ask for one xpub for each of
\* get_subaccounts, whose reads are those of a caller (StartGet)
FinishLogin(l) ==
    /\ LoginReplies(l, "rest")
    /\ login' = [login EXCEPT ![l] =
          IF wallet = "hw" THEN [IdleLogin EXCEPT !.pc = "xpubs", !.accounts = m_subaccounts]
          ELSE IdleLogin]
    /\ UNCHANGED <<server, conn, fixed, map, keys, calls, history>>

\* register_subaccount_xpubs: m_subaccounts[i] is the subaccount with number
\* i, made up (without balance or pointer) where there is none
register_subaccount_xpubs ==
    /\ At("app", "xpubs")
    /\ m_subaccounts # {} /\ m_user_pubkeys = {}
    /\ Cardinality(login["app"].accounts) = Cardinality(m_subaccounts)
    /\ LET size == Cardinality(m_subaccounts)
           holes == {i \in 1..size - 1 : i \notin m_subaccounts}
       IN \/ /\ holes = {}
             /\ m_user_pubkeys' = 0..size - 1
             /\ UNCHANGED map
          \/ \E i \in holes :
             /\ \A j \in holes : i <= j
             /\ m_user_pubkeys' = 0..i - 1
             /\ m_subaccounts' = m_subaccounts \cup {i}
             /\ satoshi' = [satoshi EXCEPT ![i] = Dirty]
             /\ UNCHANGED m_next_subaccount
    /\ LoginGoes("app", "idle")
    /\ UNCHANGED <<server, conn, fixed, m_signer, m_mnemonic, m_local_encryption_key,
                   calls, history>>

\* A balance cannot be read, the device gives no xpubs, or the assertions
\* before the registration fail
RegistrationFails ==
    /\ At("app", "xpubs")
    /\ LoginGoes("app", "idle")
    /\ UNCHANGED <<server, conn, fixed, map, keys, calls, history>>

-----------------------------------------------------------------------------
(* Balances.                                                               *)

CallAt(c, pc) == calls[c].pc = pc
CallGoes(c, pc, s) == calls' = [calls EXCEPT ![c] = [IdleCall EXCEPT !.pc = pc, !.s = s]]
CallEnds(c, pc) == CallGoes(c, pc, 0)
CallReplies(c, pc) == CallAt(c, pc) /\ ~calls[c].cut /\ link = "authed"
\* Everything up to login is serialized by the application
Free(c) == calls[c].pc \in {"idle", "refused"} /\ At("app", "idle")

\* get_subaccount asks the server for a balance it does not have
Asks(s) == satoshi[s] = Dirty \/ network = "liquid"
Reading(s, all) == [IdleCall EXCEPT !.pc = "reading", !.s = s, !.all = all]

\* get_subaccount, or get_subaccounts (by login_call too) up to the first it
\* has to ask for; what needs no call is returned without a change of state
StartGet(c, s, all) ==
    /\ Free(c) \/ (all /\ At("app", "xpubs") /\ calls[c].pc \in {"idle", "refused"})
    /\ s \in m_subaccounts /\ Asks(s)
    /\ all => \A t \in m_subaccounts : Asks(t) => s <= t
    /\ calls' = [calls EXCEPT ![c] = Reading(s, all)]
    /\ UNCHANGED <<server, conn, fixed, map, keys, login, history>>

\* get_subaccount_balance_from_server
ServerReads(c) ==
    /\ CallReplies(c, "reading")
    /\ calls[c].s \in accounts
    /\ calls' = [calls EXCEPT ![c].pc = "read", ![c].value = bal[calls[c].s]]
    /\ UNCHANGED <<server, conn, fixed, map, keys, login, history>>

\* A failed call; after the number was reserved the user may also give up
CallFails(c) ==
    /\ calls[c].pc \in {"reading", "reserved", "creating"}
    /\ CallEnds(c, "idle")
    /\ UNCHANGED <<server, conn, fixed, map, keys, login, history>>

\* get_subaccounts goes on behind s, or wherever a dead iterator leads
GoOn(c) ==
    LET s == calls[c].s
        after == {t \in m_subaccounts : s < t /\ (satoshi'[t] = Dirty \/ network = "liquid")}
    IN \/ /\ ~calls[c].all \/ after = {} \/ calls[c].dangling
          /\ CallEnds(c, "idle")
       \/ /\ calls[c].all
          /\ \E t \in IF calls[c].dangling THEN m_subaccounts ELSE after :
               /\ calls[c].dangling \/ \A u \in after : t <= u
               /\ calls' = [calls EXCEPT ![c] = Reading(t, TRUE)]

\* The rest of get_subaccount.  details still is the entry found before the
\* call; when the map was cleared since, it is freed memory, in which any
\* entry t of the present map may live by now
StoreBalance(c) ==
    LET s == calls[c].s
        value == IF Asks(s) THEN calls[c].value ELSE satoshi[s]
    IN
    /\ CallAt(c, "read")
    /\ s \in m_subaccounts
    /\ \/ /\ calls[c].dangling
          /\ UNCHANGED <<satoshi, excused>>
       \/ \E t \in IF calls[c].dangling THEN m_subaccounts ELSE {s} :
          /\ satoshi' = [satoshi EXCEPT ![t] = value]
          /\ excused' = IF t # s \/ (Asks(s) /\ calls[c].late) THEN excused \cup {t}
                        ELSE IF Asks(s) THEN excused \ {s} ELSE excused
    /\ GoOn(c)
    /\ UNCHANGED <<server, conn, fixed, m_subaccounts, m_next_subaccount, keys, login, racy, whole>>

\* "Unknown subaccount"
GetThrows(c) ==
    /\ CallAt(c, "read")
    /\ calls[c].s \notin m_subaccounts
    /\ CallEnds(c, "idle")
    /\ UNCHANGED <<server, conn, fixed, map, keys, login, history>>

\* The affected subaccounts behind the first unknown one, where an assertion
\* ends the loop over them in ascending order
GivenUp(affected) == {s \in affected : \E u \in affected \ m_subaccounts : u <= s}

\* Mutant: the loop ends one early
MarkedButLast(affected) ==
    {s \in affected \ GivenUp(affected) : \E t \in affected : s < t}

\* The ones whose "satoshi" is erased
Marked(affected) == affected \ GivenUp(affected)

\* on_new_transaction
on_new_transaction ==
    /\ notes # <<>>
    /\ notes' = Tail(notes)
    /\ satoshi' = [s \in Numbers |-> IF s \in Marked(Head(notes)) THEN Dirty ELSE satoshi[s]]
    /\ excused' = (excused \ Marked(Head(notes))) \cup GivenUp(Head(notes))
    /\ UNCHANGED <<server, link, sub, fixed, m_subaccounts, m_next_subaccount, keys,
                   login, calls, racy, whole>>

-----------------------------------------------------------------------------
(* Creating subaccounts.                                                   *)

\* Mutant: the number is not counted
PeekNext(c) ==
    /\ Free(c)
    /\ m_next_subaccount \in Numbers
    /\ CallGoes(c, "reserved", m_next_subaccount)
    /\ UNCHANGED <<server, conn, fixed, map, keys, login, history>>

\* get_next_subaccount, by create_subaccount or by the handler of a device; a
\* number that is too large is refused by an assertion and never used
get_next_subaccount(c) ==
    /\ Free(c)
    /\ m_next_subaccount \in Numbers
    /\ m_next_subaccount' = m_next_subaccount + 1
    /\ CallGoes(c, "reserved", m_next_subaccount)
    /\ UNCHANGED <<server, conn, fixed, m_subaccounts, satoshi, keys, login, history>>

\* The xpub of the new subaccount comes from the signer or from the device
GetXpub(c) ==
    /\ CallAt(c, "reserved")
    /\ wallet = "sw" => m_signer
    /\ CallGoes(c, "creating", calls[c].s)
    /\ UNCHANGED <<server, conn, fixed, map, keys, login, history>>

\* The server creates the subaccount; the reply may get lost
ServerCreates(c) ==
    /\ CallReplies(c, "creating")
    /\ calls[c].s \notin accounts
    /\ accounts' = accounts \cup {calls[c].s}
    /\ CallGoes(c, "created", calls[c].s) \/ CallEnds(c, "idle")
    /\ UNCHANGED <<bal, conn, fixed, map, keys, login, history>>

\* The server refuses a number that is in use
ServerRefuses(c) ==
    /\ CallReplies(c, "creating")
    /\ calls[c].s \in accounts
    /\ CallEnds(c, "refused")
    /\ UNCHANGED <<server, conn, fixed, map, keys, login, history>>

\* The rest of create_subaccount.  m_user_pubkeys is used whether or not it
\* is null, which ends the process (the other threads' later steps then are
\* steps the program does not take); insert_subaccount refuses a number that
\* is in the map
FinishCreate(c) ==
    LET n == calls[c].s IN
    /\ CallAt(c, "created")
    /\ \/ /\ m_user_pubkeys = {}
          /\ CallEnds(c, "crashed")
          /\ UNCHANGED <<map, m_user_pubkeys, excused>>
       \/ /\ m_user_pubkeys # {} /\ n \in m_subaccounts
          /\ m_user_pubkeys' = m_user_pubkeys \cup {n}
          /\ CallEnds(c, "refused")
          /\ UNCHANGED <<map, excused>>
       \/ /\ m_user_pubkeys # {} /\ n \notin m_subaccounts
          /\ m_user_pubkeys' = m_user_pubkeys \cup {n}
          /\ m_subaccounts' = m_subaccounts \cup {n}
          /\ satoshi' = [satoshi EXCEPT ![n] = 0]
          /\ excused' = IF calls[c].late THEN excused \cup {n} ELSE excused \ {n}
          /\ CallEnds(c, "idle")
          /\ UNCHANGED m_next_subaccount
    /\ UNCHANGED <<server, conn, fixed, m_signer, m_mnemonic, m_local_encryption_key, login,
                   racy, whole>>

-----------------------------------------------------------------------------

LoginNext(l) ==
    \/ SignChallenge(l) \/ ServerAuthenticates(l) \/ LoginFails(l)
    \/ update_login_data(l) \/ update_login_data_throws(l)
    \/ Subscribe(l) \/ FinishLogin(l)

CallNext(c) ==
    \/ \E s \in Numbers, all \in BOOLEAN : StartGet(c, s, all)
    \/ ServerReads(c) \/ CallFails(c) \/ StoreBalance(c) \/ GetThrows(c)
    \/ get_next_subaccount(c) \/ GetXpub(c)
    \/ ServerCreates(c) \/ ServerRefuses(c) \/ FinishCreate(c)

Next ==
    \/ \E S \in Affected : ServerNewTx(S \cap accounts)
    \/ \E n \in Numbers : OtherAppCreates(n)
    \/ ConnectionLost
    \/ TaskDisconnects \/ TaskLeaves \/ TaskConnects \/ TaskLogsIn
    \/ AppLogsIn \/ AppLogsInWithDevice
    \/ \E l \in Logins : LoginNext(l)
    \/ register_subaccount_xpubs \/ RegistrationFails
    \/ on_new_transaction
    \/ \E c \in Callers : CallNext(c)

Spec == Init /\ [][Next]_vars

-----------------------------------------------------------------------------
(* Properties.                                                             *)

LoginStates ==
    [pc : {"idle", "leave", "connect", "cached", "challenge", "auth", "apply", "subscribe",
           "rest", "xpubs", "failed"},
     accounts : SUBSET Numbers, bal : [Numbers -> 0..MaxChanges],
     late : SUBSET Numbers, cut : BOOLEAN]
CallStates ==
    [pc : {"idle", "refused", "reading", "read", "reserved", "creating", "created", "crashed"},
     s : Numbers, value : 0..MaxChanges, all : BOOLEAN,
     late : BOOLEAN, dangling : BOOLEAN, cut : BOOLEAN]

\* Types and ranges, and "Includes 0 for main": update_login_data always ends
\* with the main account in m_subaccounts.
TypeOK ==
    /\ accounts \subseteq Numbers /\ bal \in [Numbers -> 0..MaxChanges]
    /\ link \in {"down", "open", "authed"} /\ sub \in BOOLEAN
    /\ notes \in Seq(SUBSET Numbers)
    /\ wallet \in Wallets /\ network \in Networks
    /\ m_subaccounts \subseteq Numbers /\ satoshi \in [Numbers -> Dirty..MaxChanges]
    /\ m_next_subaccount \in 0..MaxNumber + 1
    /\ m_signer \in BOOLEAN /\ m_user_pubkeys \subseteq Numbers
    /\ m_mnemonic \in BOOLEAN /\ m_local_encryption_key \in BOOLEAN
    /\ login \in [Logins -> LoginStates]
    /\ calls \in [Callers -> CallStates]
    /\ excused \subseteq Numbers /\ racy \in BOOLEAN /\ whole \in BOOLEAN
    /\ whole => 0 \in m_subaccounts

\* A balance the session would return without asking is the server's, unless
\* a notification that marks it is on its way.  The excuses are the windows
\* this code has: a change between the server's reply and its storing, or
\* between authenticate and the subscription; a notification given up at an
\* unknown subaccount or lost with the connection; a store through a
\* reference into a map that was cleared.  A login without such a change ends
\* them all.  get_subaccount, on_new_transaction, update_login_data.
BalanceFresh ==
    \A s \in m_subaccounts \ (Pending \cup excused) : satoshi[s] \in {Dirty, bal[s]}

\* The number create_subaccount has reserved is refused, by the server or by
\* insert_subaccount, only when a login fell between its reservation and its
\* use, a login failed half way or another app created subaccounts; a failed
\* creation alone does no harm, and the next undisturbed login ends it.
NumbersFit ==
    [][\A c \in Callers :
         calls[c].pc # "refused" /\ calls'[c].pc = "refused" => racy]_vars

\* With a mnemonic, once the login that made the keys is applied there are
\* keys for every subaccount, whatever other logins and creations overlap it,
\* or there are none at all (m_user_pubkeys null).  insert_subaccount adds
\* them, create_subaccount too.
KeysComplete ==
    wallet = "sw" /\ whole =>
        m_user_pubkeys = {} \/ m_subaccounts \subseteq m_user_pubkeys

\* "Register the xpub for each of our subaccounts": when a device has given
\* its xpubs, every subaccount has keys.
RegistersAll ==
    [][wallet = "hw" /\ m_user_pubkeys = {} /\ m_user_pubkeys' # {}
         => m_subaccounts' \subseteq m_user_pubkeys']_vars

=============================================================================
