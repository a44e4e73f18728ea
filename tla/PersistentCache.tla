-------------------------- MODULE PersistentCache --------------------------
(***************************************************************************)
(* The persistent cache of a session on liquid (ga_cache.cpp) and what     *)
(* works with it: logins that load it (login, set_local_encryption_key),   *)
(* the unblinding of outputs (unblind_utxo, cleanup_utxos), the handlers   *)
(* that have a device compute blinding nonces (needs_unblind_call,         *)
(* cache_nonces), the cached nlocktimes (get_upcoming_nlocktime) and the   *)
(* asset registry (refresh_http_data).                                     *)
(*                                                                         *)
(* Every action is what a thread does while it holds m_mutex, or a step of *)
(* the server, the device or the process.  Only a save, which writes the   *)
(* file step by step, what refresh_http_data does before its save, and a   *)
(* load or a save that never ends keep m_mutex for longer: "mutex" says    *)
(* so.  The process may be killed between any two steps, and the disk may  *)
(* refuse the file or a part of it.  A datadir is configured.              *)
(***************************************************************************)
EXTENDS Naturals, FiniteSets

CONSTANTS
    Outputs,        \* blinded outputs of the wallet, each with its nonce
    Workers,        \* application threads inside a call or a handler
    Wallets,        \* the kinds of wallet to consider, of {"sw", "hw"}
    MaxChanges,     \* bound on the changes of the wallet's nlocktimes
    MaxCrashes      \* bound on the times the process is killed

ASSUME WalletsAssumption == Wallets \subseteq {"sw", "hw"}
ASSUME BoundsAssumption == MaxChanges \in Nat /\ MaxCrashes \in Nat

VARIABLES
    wallet,         \* software signer or device, fixed
    proc,           \* is the process running
    conn,           \* "down", then "loaded", "authed", "subscribed" by a login
    m_local_encryption_key,   \* is it set
    db,             \* the tables in memory
    m_require_write,
    file,           \* the encrypted file: its state and what it decrypts to
    mutex,          \* "free", "held" or "writing" by a save, "spinning" in read_all or write_all
    thr,            \* the calls in progress
    owned,          \* server: the wallet's outputs
    upcoming,       \* server: version of the wallet's nlocktimes
    due,            \* server: notifications on their way
    crashes,
    lost,           \* history: a change of the cached nlocktimes was not notified, or passed over
    late,           \* history: nlocktimes fetched before a change were stored after it
    unwritten,      \* history: the last save failed, and no one was told
    aborted         \* history: the process was ended by an output inserted twice

session == <<conn, m_local_encryption_key, db, m_require_write, mutex>>
server == <<owned, upcoming, due>>
history == <<lost, late, unwritten, aborted>>
vars == <<wallet, proc, session, file, thr, server, crashes, history>>

\* nlocktimes: of one version of the wallet, or none
Locktimes == {{}} \cup {{v} : v \in 0 .. MaxChanges}

\* LiquidOutput, LiquidBlindingNonce, and two keys of KeyValue: the upcoming
\* nlocktimes and the asset registry
Tables == [outputs : SUBSET Outputs, nonces : SUBSET Outputs,
           upcoming : Locktimes, index : BOOLEAN]
NoTables == [outputs |-> {}, nonces |-> {}, upcoming |-> {}, index |-> FALSE]

\* A call: what it still has to unblind and the output it is at, the nonces
\* the device still owes, the wallet's outputs when the handler was made, the
\* nlocktimes it fetched, and of its history: were these overtaken by a
\* change, did a login replace the tables, which outputs lacked a nonce
IdleCall == [pc |-> "idle", todo |-> {}, cur |-> {}, ask |-> {}, known |-> {},
             val |-> {}, over |-> FALSE, swapped |-> FALSE, missing |-> {}]

HandlerPcs == {"device", "nonces", "set"}
CallPcs == {"list", "locktime", "fetch", "store", "unblind", "blind", "nonce",
            "insert", "save", "writing", "stalled"}
Calls == [pc : {"idle"} \cup HandlerPcs \cup CallPcs,
          todo : SUBSET Outputs, cur : SUBSET Outputs, ask : SUBSET Outputs,
          known : SUBSET Outputs, val : Locktimes,
          over : BOOLEAN, swapped : BOOLEAN, missing : SUBSET Outputs]

TypeOK ==
    /\ wallet \in Wallets /\ proc \in BOOLEAN
    /\ conn \in {"down", "loaded", "authed", "subscribed"}
    /\ m_local_encryption_key \in BOOLEAN
    /\ db \in Tables /\ m_require_write \in BOOLEAN
    /\ file \in [state : {"none", "short", "damaged", "whole"}, data : Tables]
    /\ mutex \in {"free", "held", "writing", "spinning"}
    /\ thr \in [Workers -> Calls]
    /\ owned \in SUBSET Outputs /\ upcoming \in 0 .. MaxChanges /\ due \in Nat
    /\ crashes \in 0 .. MaxCrashes
    /\ lost \in BOOLEAN /\ late \in BOOLEAN /\ unwritten \in BOOLEAN
    /\ aborted \in BOOLEAN

NoFile == [state |-> "none", data |-> NoTables]

Init ==
    /\ wallet \in Wallets /\ proc = TRUE /\ conn = "down"
    /\ m_local_encryption_key = FALSE
    /\ db = NoTables /\ m_require_write = FALSE
    /\ file = NoFile /\ mutex = "free"
    /\ thr = [w \in Workers |-> IdleCall]
    /\ owned = {} /\ upcoming = 0 /\ due = 0 /\ crashes = 0
    /\ lost = FALSE /\ late = FALSE /\ unwritten = FALSE /\ aborted = FALSE

Free == proc /\ mutex = "free"
At(w, pc) == thr[w].pc = pc
Goes(w, pc) == thr' = [thr EXCEPT ![w] = [@ EXCEPT !.pc = pc]]
Ends(w) == thr' = [thr EXCEPT ![w] = IdleCall]
\* a wamp_call is answered
Online == proc /\ conn \in {"authed", "subscribed"}

-----------------------------------------------------------------------------
(* The server, the connection and the process.                             *)

\* calls that hold nlocktimes the server has just changed
Overtake(v) == [w \in Workers |->
    IF thr[w].val # {} /\ thr[w].val # {v} THEN [thr[w] EXCEPT !.over = TRUE]
    ELSE thr[w]]

\* A transaction pays the wallet; the session is notified if it subscribed
ServerNewTx ==
    /\ upcoming < MaxChanges
    /\ upcoming' = upcoming + 1
    /\ \E o \in Outputs : owned' = owned \cup {o}
    /\ IF conn = "subscribed"
       THEN due' = due + 1 /\ UNCHANGED <<lost, thr>>
       ELSE /\ lost' = (lost \/ db.upcoming # {})
            /\ thr' = Overtake(upcoming') /\ UNCHANGED due
    /\ UNCHANGED <<wallet, proc, session, file, crashes, late, unwritten, aborted>>

\* clear_keyvalue does not ask for a write: the file may keep the old value
Cleared(tables) == [tables EXCEPT !.upcoming = {}]

\* on_new_transaction, as far as the cache goes.  It may end before it gets
\* to the nlocktimes: the text of the notification is that of an earlier one
\* and it is elided, or it names a subaccount that another session created
\* and the assertion is swallowed
on_new_transaction ==
    /\ Free /\ due > 0
    /\ due' = due - 1
    /\ thr' = Overtake(upcoming)
    /\ \/ db' = Cleared(db) /\ lost' = FALSE /\ late' = FALSE
       \/ lost' = (lost \/ db.upcoming # {}) /\ UNCHANGED <<db, late>>
    /\ UNCHANGED <<wallet, proc, conn, m_local_encryption_key, m_require_write, mutex,
                   file, owned, upcoming, crashes, unwritten, aborted>>

\* Notifications on their way are gone, and what they would have cleared stays
ConnectionLost ==
    /\ proc /\ conn # "down"
    /\ conn' = "down" /\ due' = 0
    /\ lost' = (lost \/ (due > 0 /\ db.upcoming # {}))
    /\ thr' = Overtake(upcoming)
    /\ UNCHANGED <<wallet, proc, m_local_encryption_key, db, m_require_write, mutex, file,
                   owned, upcoming, crashes, late, unwritten, aborted>>

\* All state but the file is gone
Dies ==
    /\ proc' = FALSE /\ conn' = "down" /\ due' = 0
    /\ m_local_encryption_key' = FALSE
    /\ db' = NoTables /\ m_require_write' = FALSE /\ mutex' = "free"
    /\ thr' = [w \in Workers |-> IdleCall]
    /\ lost' = FALSE /\ late' = FALSE /\ unwritten' = FALSE
    /\ UNCHANGED <<wallet, file, owned, upcoming>>

Crash ==
    /\ proc /\ crashes < MaxCrashes
    /\ crashes' = crashes + 1
    /\ Dies
    /\ UNCHANGED aborted

Restart ==
    /\ ~proc
    /\ proc' = TRUE
    /\ UNCHANGED <<wallet, session, file, thr, server, crashes, history>>

-----------------------------------------------------------------------------
(* Logins.                                                                 *)

\* on_failed_login: after a login_error, and in a reconnection that cannot
\* log in by itself
on_failed_login ==
    /\ Free /\ conn \in {"down", "loaded"}
    /\ m_local_encryption_key' = FALSE
    /\ conn' = "down"
    /\ UNCHANGED <<wallet, proc, db, m_require_write, mutex, file, thr, server, crashes,
                   history>>

\* Mutant: the nlocktimes of an earlier run come back with the tables
Kept(tables) == tables

\* Mutant: the registry is dropped together with the nlocktimes
WithoutIndex(tables) == [Cleared(tables) EXCEPT !.index = FALSE]

\* login and set_local_encryption_key: clear_keyvalue follows load_db
Reloaded(tables) == Cleared(tables)

\* load_db: no file leaves the tables in memory alone, and so does one that
\* cannot be decrypted, which is removed; a whole one replaces them.  In a
\* file shorter than the IV and the tag, read_all waits for bytes that do
\* not come.
load_db ==
    \/ /\ file.state = "none"
       /\ db' = Reloaded(db)
       /\ UNCHANGED <<file, mutex, unwritten>>
    \/ /\ file.state = "damaged"
       /\ file' = NoFile
       /\ db' = Reloaded(db)
       /\ UNCHANGED <<mutex, unwritten>>
    \/ /\ file.state = "whole"
       /\ db' = Reloaded(file.data)
       /\ unwritten' = FALSE
       /\ UNCHANGED <<file, mutex>>
    \/ /\ file.state = "short"
       /\ mutex' = "spinning"
       /\ UNCHANGED <<db, file, unwritten>>

\* calls that may have lost what they put in the tables
Swapped == [w \in Workers |->
    [Overtake(upcoming)[w] EXCEPT !.swapped = @ \/ file.state = "whole"]]

\* A login with a mnemonic, of the application or of the reconnect task, or
\* the first part of one with a device: the key must not be set yet
Login ==
    /\ Free /\ conn = "down"
    /\ wallet = "hw" => ~m_local_encryption_key
    /\ m_local_encryption_key' = TRUE
    /\ load_db
    /\ conn' = "loaded"
    /\ IF file.state = "short" THEN UNCHANGED <<thr, lost, late>>
       ELSE thr' = Swapped /\ lost' = FALSE /\ late' = FALSE
    /\ UNCHANGED <<wallet, proc, m_require_write, server, crashes, aborted>>

\* authenticate, then the subscription to the wallet's transactions
LoginGoesOn ==
    /\ Free
    /\ \/ conn = "loaded" /\ conn' = "authed"
       \/ conn = "authed" /\ conn' = "subscribed"
    /\ UNCHANGED <<wallet, proc, m_local_encryption_key, db, m_require_write, mutex, file,
                   thr, server, crashes, history>>

-----------------------------------------------------------------------------
(* Handlers that need blinding nonces from the device.                     *)

\* Mutant: what another handler asks for is not asked for again
AskOnce(listed) == {o \in listed \ (db.outputs \cup db.nonces) :
                       \A v \in Workers : o \notin thr[v].ask}

\* get_blinded_scripts: outputs of the listed transactions that are neither
\* unblinded nor have a known nonce
get_blinded_scripts(listed) == listed \ (db.outputs \cup db.nonces)

\* needs_unblind_call's constructor: the transactions of one subaccount or of
\* all, from the list cache, which may be behind; with a software signer the
\* call is made at once
needs_unblind_call(w) ==
    /\ Free /\ Online /\ At(w, "idle")
    /\ \/ /\ wallet = "sw"
          /\ thr' = [thr EXCEPT ![w] = [IdleCall EXCEPT !.pc = "list"]]
       \/ /\ wallet = "hw"
          /\ \E listed \in SUBSET owned :
                thr' = [thr EXCEPT ![w] = [IdleCall EXCEPT
                    !.pc = "device", !.known = listed, !.ask = get_blinded_scripts(listed)]]
    /\ UNCHANGED <<wallet, proc, session, file, server, crashes, history>>

\* The application passes the nonces on, or drops the handler
ResolveCode(w) ==
    /\ proc /\ At(w, "device")
    /\ Goes(w, "nonces") \/ Ends(w)
    /\ UNCHANGED <<wallet, proc, session, file, server, crashes, history>>

\* cache_nonces: has_blinding_nonce takes the mutex ...
has_blinding_nonce(w) ==
    /\ Free /\ At(w, "nonces")
    /\ IF thr[w].ask = {} THEN Goes(w, "list")
       ELSE \E o \in thr[w].ask :
            thr' = [thr EXCEPT ![w] = [@ EXCEPT
                !.pc = IF o \in db.nonces THEN "nonces" ELSE "set",
                !.ask = thr[w].ask \ {o},
                !.cur = IF o \in db.nonces THEN {} ELSE {o}]]
    /\ UNCHANGED <<wallet, proc, session, file, server, crashes, history>>

\* ... and set_blinding_nonce takes it again.  The insertion of a nonce that
\* is there fails, and so does the reset of its statement: it throws in the
\* destructor of _stmt_clean, which ends the process
set_blinding_nonce(w) ==
    /\ Free /\ At(w, "set")
    /\ IF thr[w].cur \subseteq db.nonces
       THEN Dies /\ UNCHANGED <<crashes, aborted>>
       ELSE /\ db' = [db EXCEPT !.nonces = @ \cup thr[w].cur]
            /\ m_require_write' = TRUE
            /\ thr' = [thr EXCEPT ![w] = [@ EXCEPT !.pc = "nonces", !.cur = {}]]
            /\ UNCHANGED <<wallet, proc, conn, m_local_encryption_key, mutex, file, server,
                           crashes, history>>

-----------------------------------------------------------------------------
(* get_unspent_outputs.                                                    *)

\* The server lists the outputs
ListOutputs(w) ==
    /\ Online /\ At(w, "list")
    /\ thr' = [thr EXCEPT ![w] = [@ EXCEPT !.pc = "locktime", !.todo = owned]]
    /\ UNCHANGED <<wallet, proc, session, file, server, crashes, history>>

\* get_upcoming_nlocktime: cached, or fetched without the mutex and stored
ReadLocktimes(w) ==
    /\ Free /\ At(w, "locktime")
    /\ Goes(w, IF db.upcoming # {} THEN "unblind" ELSE "fetch")
    /\ UNCHANGED <<wallet, proc, session, file, server, crashes, history>>

FetchLocktimes(w) ==
    /\ Online /\ At(w, "fetch")
    /\ thr' = [thr EXCEPT ![w] = [@ EXCEPT !.pc = "store", !.val = {upcoming}]]
    /\ UNCHANGED <<wallet, proc, session, file, server, crashes, history>>

\* upsert_keyvalue: "ON CONFLICT(key) DO UPDATE"
upsert_keyvalue(w) == thr[w].val

StoreLocktimes(w) ==
    /\ Free /\ At(w, "store")
    /\ db' = [db EXCEPT !.upcoming = upsert_keyvalue(w)]
    /\ m_require_write' = TRUE
    /\ late' = thr[w].over /\ lost' = FALSE
    /\ thr' = [thr EXCEPT ![w] = [@ EXCEPT !.pc = "unblind", !.val = {}, !.over = FALSE]]
    /\ UNCHANGED <<wallet, proc, conn, m_local_encryption_key, mutex, file, server, crashes,
                   unwritten, aborted>>

\* unblind_utxo: an output that was unblinded before, or the next to unblind
LookUp(w) ==
    /\ Free /\ At(w, "unblind") /\ thr[w].todo # {}
    /\ \E o \in thr[w].todo :
          thr' = [thr EXCEPT ![w] = [@ EXCEPT
              !.todo = thr[w].todo \ {o},
              !.pc = IF o \in db.outputs THEN "unblind" ELSE "blind",
              !.cur = IF o \in db.outputs THEN {} ELSE {o}]]
    /\ UNCHANGED <<wallet, proc, session, file, server, crashes, history>>

\* the output is left blinded, with an error
GivesUp(w) ==
    thr' = [thr EXCEPT ![w] = [@ EXCEPT !.pc = "unblind", !.cur = {},
                                        !.missing = thr[w].missing \cup thr[w].cur]]

\* With a software signer the key is at hand; with a device a nonce is needed
Unblind(w) ==
    /\ Free /\ At(w, "blind")
    /\ IF wallet = "sw" THEN Goes(w, "insert")
       ELSE IF thr[w].cur \subseteq db.nonces THEN Goes(w, "nonce")
       ELSE GivesUp(w)
    /\ UNCHANGED <<wallet, proc, session, file, server, crashes, history>>

\* get_blinding_nonce takes the mutex again, and throws if the nonce is gone
get_blinding_nonce(w) ==
    /\ Free /\ At(w, "nonce")
    /\ IF thr[w].cur \subseteq db.nonces THEN Goes(w, "insert") ELSE GivesUp(w)
    /\ UNCHANGED <<wallet, proc, session, file, server, crashes, history>>

\* Mutant: the second look under the lock is forgotten
Unchecked(w) == FALSE

\* "check again, we released the lock earlier, so some other thread could
\* have started to unblind too"
Inserted(w) == thr[w].cur \subseteq db.outputs

\* Mutant: the insertion does not ask for a write
NoWrite == m_require_write

\* an insertion into a table
RequireWrite == TRUE

InsertOutput(w) ==
    /\ Free /\ At(w, "insert")
    /\ IF ~Inserted(w) /\ thr[w].cur \subseteq db.outputs
       THEN Dies /\ aborted' = TRUE /\ UNCHANGED crashes
       ELSE /\ IF Inserted(w) THEN UNCHANGED <<db, m_require_write>>
               ELSE /\ db' = [db EXCEPT !.outputs = @ \cup thr[w].cur]
                    /\ m_require_write' = RequireWrite
            /\ thr' = [thr EXCEPT ![w] = [@ EXCEPT !.pc = "unblind", !.cur = {}]]
            /\ UNCHANGED <<wallet, proc, conn, m_local_encryption_key, mutex, file, server,
                           crashes, history>>

-----------------------------------------------------------------------------
(* refresh_http_data, when the registry answers with a new content: it is  *)
(* stored and saved under one lock.                                        *)
refresh_http_data(w) ==
    /\ Free /\ At(w, "idle")
    /\ db' = [db EXCEPT !.index = TRUE]
    /\ m_require_write' = TRUE
    /\ mutex' = "held"
    /\ Goes(w, "save")
    /\ UNCHANGED <<wallet, proc, conn, m_local_encryption_key, file, server, crashes,
                   history>>

-----------------------------------------------------------------------------
(* save_db and openssl_encrypt.                                            *)

\* cleanup_utxos has gone through the outputs, or the registry was stored
Saves(w) ==
    /\ proc
    /\ \/ At(w, "save") /\ mutex = "held"
       \/ At(w, "unblind") /\ thr[w].todo = {} /\ mutex = "free"

\* Nothing to write, or nothing to write it with
SkipSave(w) ==
    /\ Saves(w)
    /\ ~m_local_encryption_key \/ ~m_require_write
    /\ mutex' = "free"
    /\ Ends(w)
    /\ UNCHANGED <<wallet, proc, conn, m_local_encryption_key, db, m_require_write, file,
                   server, crashes, history>>

\* The file is truncated when it is opened; if it cannot be opened,
\* openssl_encrypt just returns
OpenFile(w) ==
    /\ Saves(w)
    /\ m_local_encryption_key /\ m_require_write
    /\ \/ /\ file' = [state |-> "short", data |-> NoTables]
          /\ mutex' = "writing"
          /\ Goes(w, "writing")
          /\ UNCHANGED <<m_require_write, unwritten>>
       \/ /\ m_require_write' = FALSE /\ unwritten' = TRUE
          /\ mutex' = "free"
          /\ Ends(w)
          /\ UNCHANGED file
    /\ UNCHANGED <<wallet, proc, conn, m_local_encryption_key, db, server, crashes, lost,
                   late, aborted>>

\* A part of the ciphertext reaches the disk
WriteFile(w) ==
    /\ proc /\ At(w, "writing") /\ file.state = "short"
    /\ file' = [file EXCEPT !.state = "damaged"]
    /\ UNCHANGED <<wallet, proc, session, thr, server, crashes, history>>

\* A write fails: tellp is -1 from then on, and write_all goes on for ever
WriteStalls(w) ==
    /\ proc /\ At(w, "writing")
    /\ mutex' = "spinning"
    /\ Goes(w, "stalled")
    /\ UNCHANGED <<wallet, proc, conn, m_local_encryption_key, db, m_require_write, file,
                   server, crashes, history>>

\* The rest of the ciphertext and the tag are in the stream, and its
\* destructor cannot write them: no one looks, and the write counts as done
CloseFails(w) ==
    /\ proc /\ At(w, "writing")
    /\ mutex' = "free"
    /\ m_require_write' = FALSE /\ unwritten' = TRUE
    /\ Ends(w)
    /\ UNCHANGED <<wallet, proc, conn, m_local_encryption_key, db, file, server, crashes,
                   lost, late, aborted>>

\* The rest of the ciphertext and the tag are written
CloseFile(w) ==
    /\ proc /\ At(w, "writing")
    /\ file' = [state |-> "whole", data |-> db]
    /\ mutex' = "free"
    /\ m_require_write' = FALSE /\ unwritten' = FALSE
    /\ Ends(w)
    /\ UNCHANGED <<wallet, proc, conn, m_local_encryption_key, db, server, crashes, lost,
                   late, aborted>>

\* A call to the server fails, or the signer is gone with the connection
CallFails(w) ==
    /\ proc
    /\ \/ thr[w].pc \in {"list", "fetch"}
       \/ At(w, "blind") /\ conn = "down"
    /\ Ends(w)
    /\ UNCHANGED <<wallet, proc, session, file, server, crashes, history>>

-----------------------------------------------------------------------------
HandlerStep(w) ==
    needs_unblind_call(w) \/ ResolveCode(w) \/ has_blinding_nonce(w) \/ set_blinding_nonce(w)
UnblindStep(w) ==
    \/ ListOutputs(w) \/ ReadLocktimes(w) \/ FetchLocktimes(w) \/ StoreLocktimes(w)
    \/ LookUp(w) \/ Unblind(w) \/ get_blinding_nonce(w) \/ InsertOutput(w)
SaveStep(w) ==
    \/ SkipSave(w) \/ OpenFile(w) \/ WriteFile(w) \/ WriteStalls(w) \/ CloseFails(w)
    \/ CloseFile(w)
WorkerStep(w) ==
    HandlerStep(w) \/ UnblindStep(w) \/ refresh_http_data(w) \/ SaveStep(w) \/ CallFails(w)

Next ==
    \/ ServerNewTx \/ on_new_transaction \/ ConnectionLost \/ Crash \/ Restart
    \/ on_failed_login \/ Login \/ LoginGoesOn
    \/ \E w \in Workers : WorkerStep(w)

Spec == Init /\ [][Next]_vars

-----------------------------------------------------------------------------
(* Properties.                                                             *)

\* the rows that are worth keeping: nlocktimes are fetched anew by each login
Entry == [table : {"output", "nonce"}, row : Outputs] \cup {[table |-> "index", row |-> "index"]}
Entries(tables) ==
    [table : {"output"}, row : tables.outputs] \cup [table : {"nonce"}, row : tables.nonces]
    \cup (IF tables.index THEN {[table |-> "index", row |-> "index"]} ELSE {})

\* what a load would find
OnDisk == IF file.state = "whole" THEN Entries(file.data) ELSE {}

\* save_db and load_db implement a store that is replaced as a whole: what a
\* load brings back is what was in memory when a save was completed, or
\* nothing, wherever the process was killed and whatever part of the file
\* could not be written (load_db, openssl_encrypt)
Store == INSTANCE DurableStore WITH mem <- Entries(db), disk <- OnDisk,
                                    writing <- (mutex = "writing")
StoreSpec == Store!Spec

\* Nothing is kept in memory only without a write being due: when
\* m_require_write is false, every row is on disk, unless the last save
\* failed unnoticed: its file could not be opened, or not be written to its
\* end when it was closed (m_require_write, save_db, openssl_encrypt)
NothingUnsaved ==
    ~m_require_write /\ ~unwritten => Entries(db) \subseteq OnDisk

\* Threads that unblind the same output do not insert it twice, which would
\* end the process (unblind_utxo, insert_liquidoutput)
OutputsInsertedOnce == ~aborted

\* A handler's call finds a nonce for every output the wallet had when the
\* handler asked the device, unless a login has replaced the tables since
\* (get_blinded_scripts, cache_nonces, unblind_utxo)
NoncesComplete ==
    \A w \in Workers : thr[w].missing \cap thr[w].known # {} => thr[w].swapped

\* The cached nlocktimes are the server's, or about to be cleared, or in one
\* of these windows: the change was not notified; its notification was
\* elided, or dropped for an unknown subaccount; or they were fetched before
\* the change and stored after it.  None is left from an earlier run of the
\* process (get_upcoming_nlocktime, on_new_transaction, login)
LocktimesFresh ==
    db.upcoming \subseteq {upcoming} \/ due > 0 \/ lost \/ late
=============================================================================
