# A TLA+ development for GDK

GDK is the wallet library of the GreenAddress service: a C interface (`include/gdk.h`)
over C++ sessions (`src/`), with a second kind of session that talks to Electrum servers
and is written in Rust (`subprojects/gdk_rust`). This directory holds TLA+ modules that
model its stateful parts from the source, TLC configurations that check them on small
instances, and TLAPS proofs for instances of every size.

File names without a directory are relative to `src/src`.

## 1. Inventory

### Threads

A GreenAddress session is used by

- any number of application threads inside `GA_*` calls,
- one io thread (`event_loop_controller::m_run_thread`) that runs asio handlers: the ping
  timer, the pong timeout, the WAMP subscriptions,
- a pool of four threads (`m_pool`) that runs the reconnect task and emits notifications.

`ga_session::m_mutex` protects most of the session's state, but every call to the server
releases it (`wamp_call` through `unique_unlock`), and so do the callbacks into the
application. The comment at `ga_session.hpp:447` lists which members it protects and says
that local state may be out of date when the user is logged in twice. Almost everything
hard in this code lives in these windows: state is read, the mutex is released for the
time of a network call, and the result is applied to a state that may have changed.

### Components

| component | state | operations | interacts with | correct when |
|---|---|---|---|---|
| transaction list cache (`tx_list_cache.cpp`) | per subaccount: fetched transactions, next page, first empty page, a mutex; a map of shared_ptrs | `get`, `purge`, `purge_all` | filled from the server by `get_raw_transactions`, purged by notifications, re-login, memo changes | no purged page is served again; the result is the requested range |
| network control (`ga_session.cpp` 410-705, `session.cpp`) | enabled, reconnect flag, exit promise, ping timer, transport, WAMP session, `session::m_impl` | ping, pong timeout, `try_reconnect`, reconnect task, `reconnect_hint`, `disconnect`, destructor | every failing call ends here; the task logs in again | one reconnection at a time; a kept session gets its connection back; destruction is safe and ends |
| two factor handlers (`ga_auth_handlers.cpp`) | handler: state, method, action, code, attempts; session: 2fa config, limits, nlocktime, settings | constructors, `request_code`, `resolve_code`, `operator()` | the server authorizes; the session's copy is updated from replies | operation performed once; attempts and codes agree with the server; the copy is current |
| hardware wallet handlers (`ga_auth_handlers.cpp`) | handler: the required data, the device's replies | register, login, create subaccount, sign, receive address, create transaction, unblind | the application passes requests to a device | each request answered once; no signature of something else |
| login (`ga_session.cpp` 898-1710) | `m_login_data`, signer, watch-only flag, subaccounts, subscriptions | `register_user`, `login`, `authenticate`, `update_login_data`, `login_watch_only`, pin | reconnection logs in again while calls run | the state of one login is never mixed with another's |
| subaccounts and balances | `m_subaccounts`, cached balances, `m_next_subaccount` | `get_subaccounts`, `get_subaccount`, `create_subaccount`, balance marked dirty by notifications | notifications, re-login | numbers are unique; a balance read before a notification is not kept after it |
| server notifications | last transaction notifications, block height, fee estimates | `on_new_transaction`, `on_new_block`, `on_new_fees`, `emit_notification` | caches, balances, application | each change applied; order of what the application sees |
| persistent cache (`ga_cache.cpp`) | sqlite tables in memory (unblinded outputs, blinding nonces, keys and values), a flag that a write is due, an encrypted file per wallet | load, save, get, upsert, insert, clear | loaded by logins, filled by unblinding, by handlers that have a device compute nonces and by the asset registry, cleared by notifications | a load brings back one completed save or nothing; nothing stays unsaved; no stale value comes back; concurrent callers do not insert twice |
| transaction construction (`ga_tx.cpp`, `transaction_utils.cpp`) | none (JSON in, JSON out) | coin selection, change and fee loop, bumps, sweeps, re-deposits | utxos of the session, dust and minimum fee; the result is signed by the session or a device | inputs = outputs + fee; the fee is that of the final transaction; addressees get what they should and no output is dust; the loop ends |
| fee estimates, amounts | table of estimates | normalisation, unit conversion | transaction construction | table is non-increasing; no overflow |
| Tor controller (`ga_tor.cpp`) | a controller shared by all sessions through a weak reference; in it, unless it sleeps, Tor's thread, a control connection with its queue of reply handlers and its thread, bootstrap phase, SOCKS address | `get_shared_ref`, `wait_for_socks5`, `sleep`, `wakeup`, destructor; the chain of control callbacks | `connect` and `make_transport` of both kinds of session wait for the address; the application's hints put it to sleep | one Tor at a time; the address is that of a Tor that is ready, and the same after a sleep; every wait and every join ends |
| HTTP and SOCKS clients | the request in progress | one request | the application's and the registry's requests | single-use callback chains |
| session facade, C interface, bindings | `m_impl` | forward and translate exceptions | all | errors are reported, network errors start a reconnection |
| Electrum session (`ga_rust.cpp`, gdk_rust) | store, headers, sync threads | connect, sync, create/sign/broadcast | its own threads around a shared store | the store is consistent with the server's history |
| signer, wally wrappers, network parameters, utilities, sqlite3 | keys, constants | cryptography, encodings | all | out of TLC's reach, or without state |

`PROJECT.json` lists every component with its status, and under "hazards" what in this
code is hard to test, each at its line with the properties that would catch it.

## 2. Modules

One module per component; an `MC` module gives TLC its constants, a `Proofs` module holds
the theorems.

| module | models | TLC | proofs |
|---|---|---|---|
| `TxListCache` | transaction list caches and everything that fills or purges them | `MCTxListCache` | `TxListCacheProofs` |
| `Reconnect` | network control, reconnection, hints, teardown | `MCReconnect` | `ReconnectProofs` |
| `TwoFactor` | two factor handlers, the session's copy of the settings, the server's authorization | `MCTwoFactor` | `TwoFactorProofs` |
| `Subaccounts` | logins, subaccounts, their numbers, keys and cached balances | `MCSubaccounts` | `SubaccountsProofs` |
| `PersistentCache` | the cache's tables and file, and the calls that read and write them | `MCPersistentCache` | `PersistentCacheProofs` |
| `DurableStore` | abstract: a set in memory and a set on disk that is replaced as a whole; implemented by `PersistentCache` | | |
| `CreateTx` | the construction of a bitcoin transaction | `MCCreateTx` | `CreateTxProofs` |
| `TorController` | the shared Tor: its start, its control connection, the waits for its address, sleep, wakeup and destruction | `MCTorController` | `TorControllerProofs` |
| `Induction` | nothing: induction over numbers and recursion along a sequence, used by `TxListCacheProofs` and `CreateTxProofs` | | itself |

Comments that start with "Mutant:" mark variants of the definition below them with a
plausible bug; each one makes the property it is paired with fail, which shows that the
property depends on that piece of code.

### TxListCache

`m_caches` is the map of `tx_list_caches`, `objs` the cache objects behind its
shared_ptrs, `thr` the calls in progress. A cache is purged by dropping it from the map,
so a call may go on filling an object no later call will find: `Reclaim` models the
shared_ptr. A call goes through `GetCache` (find or create), `LockCache`, `ReadPage` (the
server answers), `ApplyFill` (first loop, into the cache) or `ApplySpill` (second loop,
into the result), `StartResult` between them, and `Return`, `FetchFails` or
`ReversedRangeThrows`. `wamp_call` is two steps because other threads, the io thread and
the server run in between. `last = first + count` is computed modulo `U32`.

Purges come from `on_new_transaction` (one subaccount at a time in sorted order, stopping
at an unknown one), `on_new_block`, `Relogin` (the last step of `update_login_data`) and
`MemoPurge`. The server is external: it changes a list (`ServerNewTx`, with or without
RBF, `ServerNewBlock`, `ChangeMemo`), and notifies a subscribed session; notifications are
lost with the connection, may be delivered twice, and a repeated one may be elided.
Between the purge of a re-login and `Subscribe` nothing is notified.

A reversed range whose end lies within the cached part throws (`ReversedRangeThrows`). One whose
end lies in a later page would be an insertion of a reversed range of iterators, which is
undefined; the model appends nothing there, and the ranges of the runs do not reach it.

The contents of a transaction are reduced to an id and whether it was replaced. `edition`
counts the server's changes of a list, and each page carries the edition it was read from:
that is what "stale" means in the properties. `lost` collects the subaccounts whose change
the code cannot know of (notification lost, handler threw, memo call failed after the
server acted).

### Reconnect

One session from the return of `GA_connect` to its destruction. `pc` places each thread in
`session::reconnect` / `try_reconnect` or in `~ga_session`, one step per access to shared
state: the flag is loaded and then exchanged, the exit promise reset after the flag is
claimed, the task posted after that. `task` places the reconnect task. `refs` and `m_impl`
are the shared_ptrs; whoever drops the last one runs the destructor, the io thread
included. `life = "terminated"` stands for `std::terminate`.

A session ends in one of two ways. `GA_disconnect` (`SessionDisconnect`) makes `m_impl` null
and drops the pointer. `GA_destroy_session` only deletes the `GA_session`: `~session` is
defaulted, so the pointer is dropped with the object it lives in, and the ping handlers of
`session::connect`, which captured the session's `this`, may still run. `handle` says whether
the `GA_session` is there, deleted after it was disconnected, or `torn`, deleted while it was
connected; a handler that loads `m_impl` from a deleted one ends in `life = "undefined"`
(`LoadsDeleted`). The application makes no call on a session it has deleted.

The environment may drop the transport and come back. A connection attempt that fails
leaves the transport down, up, or up and joined, because `connect` can throw after each of
these. The backoff is a finite wait; the login inside the task only emits a notification
and is part of `TaskConnects`.

### TwoFactor

`srv` is the server's state for the wallet (external): enabled methods, limit, nlocktime,
appearance, and the code issued per method with the attempts left. `ses` is the session's
copy, `hs` the handlers. A code stands for the method and the action it was made out for;
`BadCode` is a mistyped one. `Create` is the constructors of the nine classes (which of
them need a code, which start in `make_call`, which are wrong from the start),
`RequestCode` and `ResolveCode` the caller's steps, and `operator()` is split at the
network call: `CallAccepted` or `CallRejected` on the server, then `ReplyOk`,
`ReplyInvalidCode`, `ReplyRefused`, or `CallFails` when the reply is lost. Four of the calls
answer with a bool (`CallDeclined` when it is false), which the session's functions assert,
but for `remove_account`, whose caller drops it (`ReplyDeclined`). Enabling a
method is two calls with two codes (`OnInitDone` between them), with a special path for
gauth, and a reset is two calls as well. Disabling gauth reads the whole configuration
back (`ReadConfig`, `SwapConfig`).

`insync` records whether the session could know the server's state: no reply of an
accepted call was lost, no other app of the same user made a change, and no two calls on the
same part of the state (the methods, the limits, the nlocktime: `Part`) were under way
together, of which the session may apply the replies in the other order (`Overlaps`). `alone`
records that no two dialogues have been open at once. Both are history. Limits are in one
unit: `is_spending_limits_decrease` also compares `is_fiat`, and a limit in the other unit
is handled like one that is not a decrease.

### Subaccounts

A session after its first login. Every action is what a thread does while it holds
`m_mutex`, or a step of the server: the mutex is free between two actions, as it is during
a `wamp_call`. `login` places the two threads that log in. The reconnect task goes
`TaskDisconnects` (drops the signer), `TaskLeaves` (closes the connection), `TaskConnects`,
`TaskLogsIn` with the mnemonic it kept; the application starts with `AppLogsIn` (a mnemonic,
refused while there is a signer) or `AppLogsInWithDevice`. Both go on with `SignChallenge`,
`ServerAuthenticates`, `update_login_data`, `Subscribe` and `FinishLogin`, and a device then
with `register_subaccount_xpubs`. `LoginFails` cleans up as `reconnect()` and
`session::exception_wrapper` do, which is not the same. `update_login_data_throws` is the
case that a `disconnect()` took the signer away in the middle of a login: the map is half
rebuilt. `calls` places the calls: `StartGet`, `ServerReads`, `StoreBalance` for
`get_subaccount` and `get_subaccounts`; `get_next_subaccount`, `GetXpub`, `ServerCreates`,
`FinishCreate` for the creation of a subaccount.

`get_subaccount` finds its entry again after the call, but assigns it to the reference it
took before; when a login has cleared the map, that reference is freed memory. `Dangle`
records it, and `StoreBalance` then writes to any entry that may live there by now, or to
none. `create_subaccount` uses `m_user_pubkeys` after its call whether or not a failed login
has reset it; the call is then `crashed`.

`AppLogsInWithDevice` is two calls of `login_call`, `set_local_encryption_key` and the start of
`authenticate`, each with its own lock, in one step: the moment in which the key is set and the
proxy signer not yet made is left out.

A balance is the number of changes the server has made to it. `excused` collects the
balances that missed a change in one of the windows `BalanceFresh` names; `racy` says that
subaccounts were created around a login (in another app, or by a call in progress when a
login was applied) and is reset by an undisturbed login; `whole` that the last login that
made keys was applied. None of the three is read by a guard. A subaccount's name, type,
receiving id and recovery keys are left out. The server sends the list of subaccounts in
ascending order.

### PersistentCache and DurableStore

One wallet on a liquid network, with a software signer or a device (`wallet`), over several
runs of the process. `db` is the tables in memory, `file` the encrypted file: absent, whole
with what it decrypts to, damaged, or shorter than the IV and the tag. An action is what a
thread does under one lock of `m_mutex`; `mutex` says when it is kept across actions: by a
save, which truncates the file (`OpenFile`), writes some of it (`WriteFile`) and completes it
(`CloseFile`), by `refresh_http_data` between its insertion and its save, by a load of a
file that is too short, in which `read_all` never returns, and by a save whose `write_all`
never returns. `Crash` kills the process between any two steps; only the file survives.

The disk may fail, and `openssl_encrypt` does not look at its stream. A file that cannot be
opened is left as it is and the save counts as done (`OpenFile`); a write that fails makes
`tellp` return -1 and `write_all` go on for ever, with the mutex (`WriteStalls`); what is still
in the stream's buffer when its destructor fails to write it is missing from the file, and the
save counts as done as well (`CloseFails`). `unwritten` records the saves that failed unnoticed.

`on_new_transaction` clears the nlocktimes only if it gets that far: an elided duplicate and an
assertion that it swallows end it before. Which of the two it meets is decided in `TxListCache`;
here it is a choice.

`thr` places the calls. A handler starts with `needs_unblind_call`: with a device it asks
for the nonces of the outputs in the transactions it was given that are neither unblinded
nor have one (`get_blinded_scripts`), waits for the application (`ResolveCode`) and stores
them one by one (`has_blinding_nonce`, `set_blinding_nonce`: two locks). The call is
`get_unspent_outputs`: `ListOutputs`, the nlocktimes (`ReadLocktimes`, `FetchLocktimes`,
`StoreLocktimes`), then for each output `LookUp`, `Unblind`, `get_blinding_nonce` and
`InsertOutput`, and the save of `cleanup_utxos`. An insertion that fails throws in the
destructor of the statement's guard, which ends the process (`Dies`).

An output stands for its blinded data together with its nonce; a value is the number of
changes the server has made. `lost`, `late`, `unwritten`, `aborted` and the fields `over`,
`swapped` and `missing` are history and read by no guard.

`DurableStore` says what the file promises: rows are learnt one at a time, a save gives up
the old set and later has the set in memory on disk or, if it fails, nothing, a load replaces
the set in memory by
the one on disk, and a crash leaves the disk. The refinement (`Store` in `PersistentCache`)
takes the rows of the tables that are worth keeping, those of a whole file, and whether a
file is being written.

### CreateTx

One behaviour is one call of `create_ga_transaction` for bitcoin. `req` is the request: a send,
a re-deposit, a sweep, or a transaction to replace or to pay for, with manual selection or not.
`check_bump_tx` and the checks before the outputs are the operators `is_rbf` to `network_fee`
and `Init`, and `Refuse` (assertions on what an application may ask for); then `AddOld`,
`AddAddressee`, which may meet an invalid address or amount, and `Collect` add one input or
output at a time, and each iteration of the loop is one of `SendAll`, `SendAllToNobody`,
`Insufficient`, `AddUtxo`, `Settle`, `DustyChange` and `AddChange`. `Endless` is the assertion
after the loop, `Finish` what follows it: the change amount and place, the errors, the list
`transaction_outputs` (`Labels`) and the requirements on a replacement.

Scripts are reduced to whom they pay and sizes to a number per input and output, so the fee
is an exact rounding up where the code uses a double. Amounts are integers; the one
subtraction that may go below zero, that of the change, wraps at `U64`. Addresses, locktimes
and the results' descriptive fields are left out. The `utxos.at("btc")` of `ga_tx.cpp:668`
is not an error path of the model: a bitcoin request has its utxos under that key or none.

### TorController

The process with its sessions, of which some are a `ga_session` and some (`Electrum`) a
`ga_rust`: both wait for Tor when they connect, but a `ga_session` that got no address wakes
Tor up and a `ga_rust` keeps the address it got first. `ref` is `m_tor_ctrl` of each session,
so the weak reference of `get_shared_ref` is live while `Referenced` holds. `ctrl` is the
`tor_controller` objects with `m_ctrl_mutex` (`lock`), `imp` the `tor_controller_impl`
objects, and `tor` what runs in their `m_tor_run_thread`. `thr` places the calls:

- `connect`: `get_shared_ref` finds the controller or makes one with `s_inst_mutex` held
  (`StartImpl`, then `Constructed` or `ConstructionFails`), then waits;
- `connect` and `query`: `StartWait` takes `m_ctrl_mutex`, `Look` is the loop of
  `wait_for_socks5`, `Wakes` and `TimesOut` are the two ways out of its wait, and `Answer` is
  what the caller does with the address;
- `sleep`, `wakeup` and `Destroy`: the destructor is `Stopping`, `Halt` (the command),
  `PushStopped` (its handler) and `Joined`.

The control thread is `connected_cb`, one action per callback, and `EndOfStream` with
`disconnected_cb`. A command is two steps, `Send` and `Push`, because `command()` adds the
bytes and then the handler without a lock while the destructor's thread may do the same.
`bootstrap_phase_cb` is three: it stores the phase under the mutex, notifies after it and
reads the phase again without it. Where the code asserts, throws out of a thread or destroys
a joinable one, the process ends (`Abort`) and the model stops.

`Halt` is the check of the connection and the two additions to its buffer in one step: a
connection freed between them is `HaltOnFreed`, and a command cut in two by another one is a
reply no handler accepts; both end in `Abort` or `Stuck`. `Asserts` says that a handler fails on
the reply to another command; `socks_cb` would read a reply to the phase command, but only
HALT can come between a command and its handler, so it is not given one.

The controller keeps the port of the Tor it puts to sleep in `m_socks5_port`, and the sessions
keep the address they were given (`proxy`). `forgot` is history: a sleep has overwritten a port
that was kept with none, because Tor had not told its address yet.

Tor is external: it comes up on a port of its own choice or the one in its configuration,
answers commands in order, refuses those that need authentication before it
(`TorRefuses`), halts when told (`TorHalts`), may exit by itself (`TorDies`), and a second
one in the process fails its assertion (`TorUp`). Replies are reduced to the command they
answer, the code and one value; the cookie and its HMAC are left out.

## 3. What TLC checks

Passing runs:

| run | instance | properties |
|---|---|---|
| `tx_cache_shared` | 2 subaccounts, one unknown until re-login, 2 callers, 3 objects, one change per list | `CacheFresh`: once everything due is applied, a cache in the map holds only the present list. `NoStaleServe`: a call that starts after a purge uses nothing read before it. `OneGetPerCache`: the mutex is held for the whole get and released on every way out. |
| `tx_cache_range` | every history of 0 to 5 transactions with every set of replaced ones, pages of 2, `CACHE_SIZE` 2, six ranges of which two wrap, one change | `ResultExact`: the result is the reference slice of the list. `GetEnds`: neither loop runs forever. `TypeOK` |
| `reconnect` | 1 application thread, the io thread, 2 task slots, all hints; 142,954 states | `SingleReconnect`. `NoUseAfterFree`: nothing runs on a `ga_session` that is taken apart, and a deleted `GA_session` is used only if it was connected when it was deleted. `Reconnects`: if from some time on the server answers and the session is kept and enabled, it is connected again and again, unless the hint "now" has ended the one attempt in the state `Abandoned`. `TeardownEnds`: the destructor comes to its end, unless a ping handler has started its timer again after the final cancel. |
| `twofactor` | in three parts: 1 handler, email, sms and gauth, enable, disable, set email, reset; 1 handler, limits, sends, settings, nlocktime, account removal, another app sets the limit; 2 handlers at once, with two calls on the methods, two on the limits and one on the nlocktime; 479,757 states | `ExactlyOnce`: at most one performance, and done only if it was, but for a declined account removal. `ConfigCurrent`: the session's copy of each part is the server's while no call on it is under way, outside the windows of `insync`. `AttemptsMatch`, `RightCodeAccepted` and `Completes`, while dialogues do not overlap. `TypeOK` |
| `subaccounts` | numbers 0 to 2, one caller, both logins, a mnemonic or a device, transactions of the subaccounts 1 and 2 | `BalanceFresh`: a balance returned without asking is the server's, or about to be marked, or in a named window. `KeysComplete`: an applied login leaves keys for all subaccounts or none. `NumbersFit`: a reserved number is refused only when subaccounts were created around a login. |
| `cache` | 2 threads, 1 output, software signer and device, one new transaction, one crash, failing opens, writes and closes; 2,576,794 states | `StoreSpec`: the file implements `DurableStore`. `NothingUnsaved`: rows in memory only have a write due, unless the last save failed unnoticed. `OutputsInsertedOnce`: threads that unblind the same output do not end the process. `NoncesComplete`: a handler's call finds every nonce it asked for. `LocktimesFresh`: cached nlocktimes are the server's, about to be cleared, or in a named window. |
| `create_tx` | all kinds of request; every purse of up to 4 utxos of three amounts around the dust and fee thresholds, and one of 10; up to two addressees, rates below, at and above the minimum; 287,088 states | `Balanced`: inputs are outputs and fee. `FeeRight`, `NoDust`, `PaysAddressees`, `InsufficientIsReal`, `LoopProgress`, `SignsItsInputs`, `TypeOK` |
| `tor` | a `ga_session` and a `ga_rust`, 2 controllers, 2 impls, 2 ports; three calls or exits of Tor by both sessions, five while the `ga_session` is alone; 273,737 states | `OneTor`: two Tors run at once only for different controllers of which one is being destroyed. `SocksLive`: the address is where the running Tor listens, with its circuit built. `PortKept`: a Tor that is up listens where its sessions have their proxy, unless the controller forgot the port. `NoLostWakeup`: a thread that goes on waiting has seen the present phase and there is no address. `CallsEnd`: every call ends, unless HALT came before the authentication. `TypeOK`: no handler is given a reply it cannot read. |

Bounds, and why they are enough. A cache is shared by at most the callers of one subaccount, and
two suffice for every conflict over its mutex and its two page numbers; one object more than the
callers can hold lets a purge be followed by a refill. Two subaccounts cover the loop over the
affected ones. `MaxEdition` 1 lets each list change once, before, while or after a page is read
(the proofs have any number); `MaxNotes` 1 leaves one notification waiting while another is
handled. Pages and caches of 1 or 2 entries put every boundary within a list of 5. `U32` is 8,
so that a range of a few entries wraps. In `Reconnect` an application thread and the io thread
compete for the flag; two task slots would show two tasks side by side; any number of threads is
covered by the proofs of the safety properties. In `TwoFactor` three methods are the one being
changed, one that authorizes and gauth with its own rules; limits and amounts up to 2 have sends
under, at and over the limit; two handlers are what an overlap takes, and any number is covered
by the proofs; a dialogue after which the session's copy is out of step is followed by dialogues
that disable a method only, since all properties but `ExactlyOnce`, which is about one dialogue,
assume `insync`. In `Subaccounts` numbers up to 2 let a gap appear (1 reserved and never
created, then 2), a transaction of two subaccounts meets one that is unknown, and one caller
beside the two logins has every window; calls that race with each other, more numbers and liquid
networks, on which every read asks the server, are covered by the proofs. In `PersistentCache`
two threads are enough for the two races over one row, the insertion of an output and of a
nonce; one output has three rows with its nonce and the registry, so that parts and mixtures of
sets differ; one change of the nlocktimes lies before, between or after any two steps; one crash
meets every state of a save, and the login after it every state of the file; the process that is
started again has one call at a time, because the races of two are those of the first, whose
logins load the file as well. In `CreateTx` a dust threshold of 3, sizes of 2 per input and 1
per output, rates 0 to 3 and amounts of 2, 6 and 11 put totals below, at and above every
threshold of the loop; the purse of 10 has more small utxos than the loop has iterations. In
`TorController` three events are enough for a connect, a sleep or the destruction of the
session, and a wakeup or the connect of the other session, each at any moment of what the
earlier ones started; five by a lone session (`MaxShared`, `Lone`) are a connect, a sleep, a
wakeup, a sleep before the address is known and another wakeup, in which the port is forgotten;
two controllers and two impls exist at once only while one is being destroyed; a circuit is
built in one step (`Full` 1), so that a phase is reported before and after it. The proofs below
remove the bounds for the main safety properties.

Symmetry is used only in runs without liveness properties, over application threads, tasks,
callers and cache objects, which the modules treat alike; `StoreSpec`, checked with symmetry
over the threads, is a safety property that does not mention them. Deadlock is not checked where
a behaviour may end: in `Reconnect` with the destruction of the session, in `CreateTx` with the
return of the call, in `PersistentCache` when a load or a write never returns, and in
`TorController` with the process.

Fairness. `TxListCache`: a caller that is inside a get takes its next step, because the
thread is scheduled and a `wamp_call` ends in a reply, an error or its timeout.
`Reconnect`: threads inside gdk code, the task and the io thread's timer run; nothing makes
the application call, hint or disconnect, and nothing makes the network recover (the
properties assume it where they need it). `TwoFactor`: the user who started a dialogue goes
on, and calls end; nothing makes the user start, type the right code or give up.
`TorController`: calls, control threads and a Tor that runs take their next step; a wait that is
notified again and again still reaches its `tstop`, hence strong fairness for `TimesOut`; nothing
makes Tor build its circuit or exit.

Runs that show a disagreement between the code and what the repository says of it:

| run | property | what the counterexample shows |
|---|---|---|
| `tx_missing` | `NothingMissing` | Replaced transactions are dropped before `tx_list_cache::get` sees the page, so a page of which all were replaced is taken for the end of the list; the rest is missing until the next purge. |
| `hw_xpubs` | `RegistersAll` | A number is reserved and never created, the next one is created; after the next login with a device, `register_subaccount_xpubs` takes positions for numbers, makes up an entry for the gap, throws, and the subaccount behind the gap has no keys. |
| `create_pair` | `PairPaysRate` | A child adds the whole fee its parent would pay at the new rate; the comment at `ga_tx.cpp:186` says the difference to what the parent pays. Child and parent together pay the parent's old fee more than the rate asks for. |
| `create_outputs` | `OutputsMatch` | With two addressees the change is swapped to the front: the outputs are change, B, A, and `transaction_outputs`, which a device is shown, lists them as change, A, B. |

Seen while modelling, without a run of their own: a fetch that fails after an earlier page
was cached leaves `m_next_uncached_page` behind, and the next call returns that page twice
(the field `torn` excuses it in `ResultExact`); an unknown subaccount in a notification
leaves the known ones after it unpurged (`lost`); a thread that saw the transport down may
start a reconnection after another has completed; after the hint "now" a task may end with
the transport up, not joined, and no timer (`Abandoned`);
a send refused because the limits changed never reaches `request_code`, although a comment
there names that case; the io thread may drop the last reference to a session in its ping
handler, run the destructor and join itself, which ends the process (`JoinIo`); a failed
push of the settings leaves the session's copy changed, and the retry pushes nothing and is
done (`PushFails`, `ChangeSettings`); a balance read before a transaction
may be stored after its notification and stays until the next one (`late`);
`get_subaccounts` goes on with an iterator into a map that a login has cleared;
`create_subaccount` may find `m_user_pubkeys` null after its call; a login that failed
otherwise than by `login_error` leaves its signer, and the application cannot log in again
before a reconnection.

In `TwoFactor`: a removal of the account that the server declines is shown as done
(`ga_auth_handlers.cpp:1186`, the exception in `ExactlyOnce`).

In `Reconnect`, three ways in which a teardown goes wrong: a `GA_session` that is deleted
without `GA_disconnect` may be used by a ping handler that is on its way to `reconnect`
(`session.cpp:160`, the exception in `NoUseAfterFree`); the hint "now" and the destructor
set the exit promise of one reconnection, the second `set_value` throws, the rest of the
destructor's body is skipped and a joinable thread destroyed, which ends the process
(`ga_session.cpp:653`, `StopReconnect`); and a ping handler that starts its timer after the
destructor has cancelled it keeps the io thread busy, so that its join, and with it
`GA_disconnect`, does not return (`ga_session.cpp:574`, the exception in `TeardownEnds`).

In `PersistentCache`: a process that is killed between the truncation of the file and its
first flush leaves a file whose load never returns, with `m_mutex` held, at every later login
(`load_db`); two handlers that got the same nonce may both insert it, which ends the process
(`set_blinding_nonce`); a save whose file cannot be opened, or not be completed, counts as done
(`unwritten`), and one whose write fails earlier never returns (`WriteStalls`); a notification
that is elided or that names an unknown subaccount leaves the nlocktimes (`lost`);
`clear_keyvalue` asks for no write, which is harmless because every login clears the key
again; without a file a login keeps the tables in memory; nlocktimes fetched before a
notification may be stored after it (`late`); a device login that was cancelled after its key
was set cannot be repeated before the key is reset.

In `CreateTx`: the limit of the loop counts assets where a comment speaks of utxos, so with
enough small utxos the call fails with "Endless tx loop building" although the funds suffice
(`Endless`); change that
became dust with no utxo left is reported as insufficient funds; the change amount shown with
that error has wrapped; sending everything to nobody is an error of the JSON library;
`randomise_inputs` shuffles a transaction that has been written to the result already.

In `TorController`: the weak reference expires as soon as the last session lets go of the
controller, while that session's thread is still in the destructor. A session that connects
meanwhile starts a second Tor next to the first, and the assertion that the comment at
`ga_tor.cpp:554` wants to avoid by a blocking join fails, because the join blocks only the
thread that destroys (`ga_tor.cpp:772`, the exception in `OneTor`). A sleep hint, or the end of
the session, right after Tor's start sends HALT before the authentication: Tor refuses it and
closes the connection, `stopped_cb` is given the refusal and takes it for the acknowledgement
that the comment at `ga_tor.cpp:269` describes, and the join does not return, with
`m_ctrl_mutex` held (`ga_tor.cpp:550`, `Stuck` in `CallsEnd`). A Tor that is put to sleep again
before it knows its address leaves no port behind, and the next one may choose another while the
sessions keep the old one (`ga_tor.cpp:752`, `forgot` in `PortKept`). The buffer and the deque
of `command()` are used by two threads without a lock, so that replies may reach the wrong
handler, whose assertion ends the process; and the destructor may write to a connection that the
control thread has freed (`HaltOnFreed`). `ga_rust::connect` calls the application's handler
while it holds both mutexes.

## 4. What is proved

All theorems hold for every value of the constants that satisfies the modules' named assumptions
(`SubaccountsAssumption`, `SizesAssumption`, `ThreadsAssumption`, `OpsAssumption`,
`KindsAssumption`, ...: they say that numbers are numbers, that the null pointer is no object,
that the io thread is not an application thread, that email is among the methods). One
assumption bounds data: `ListsFit` of `TxListCache` says that no transaction list outgrows the
page numbers, which are `uint32_t` with the maximum kept to mean "no empty page"
(`tx_list_cache.hpp:29`); with pages of 30 that is more than 10^11 transactions.

Every invariant that a passing run checks is also stated by a theorem. Where a claim is about what a
recursion computes (the sum of amounts, the transactions of a list that were not replaced), it
is put as a set of numbers that contains 0 and with each number the next; `Induction` shows
that such a set has all numbers, and that a recursion along a sequence has a result, so that
the definition can be unfolded. Its lemmas have no operator parameters, which the provers
could not instantiate.

- `TxListCacheProofs`: `CacheFreshness` (`Spec => []CacheFresh`) and `NoStaleServing`
  (`Spec => []NoStaleServe`). `CacheFresh` is not inductive: a page on its way into a cache
  is in nobody's `eds` yet. The invariant `IInv` adds `Shapes`, `OneSubaccount` (an object
  serves one subaccount, and an unreferenced one is empty), `SincePurge` (a cache in the map
  holds, and is about to receive, only pages read since the last purge), `SinceCall` (the
  same for a call's cache and the purge before the call, whether or not the cache is still
  in the map) and `DueOrPurged` (a list that changed since its last purge is about to be
  purged, or the change is lost). The lemmas go by kind of step: server steps, purges,
  queue steps, and the steps of a caller.
  `TypeCorrect` (`[]TypeOK`) and `OneGetAtATime` (`[]OneGetPerCache`) follow; the second needs
  that an object nobody refers to is as new, so that the one a call is given is not locked
  (`Fresh`). `ExactResults` (`[]ResultExact`) is the functional correctness of
  `tx_list_cache::get`: for every page size, cache size and range, whatever earlier calls left
  in the cache. It has three parts. About sequences: the transactions kept of a list up to a
  page are those kept up to the page before and those kept of the page (`Upto`), and slices of
  a list put together from two are the slices of the parts. About one step of a call on one
  cache object, as predicates on values: a cache that holds pages of the present list only
  holds exactly what is kept up to its next page (`CacheGood`), and so does a call, in the loop
  that fills the cache (`FillGood`), in the loop for what does not fit (`SpillGood`), and with a
  reply in hand (`ReplyGood`). About the system: every object that a subaccount's map entry or
  call refers to, and every call, stays good (`Good`), since only one call works on an object
  and a change of the list begins a new edition.
- `ReconnectProofs`: `TypeCorrect`, `OneReconnection` (`[]SingleReconnect`) and
  `SafeDestruction` (`[]NoUseAfterFree`), for any number of threads and tasks. The invariant
  adds `Owned`: a thread inside the session is in `refs`, and the destructor runs only when
  `refs` is empty and `m_impl` is null, so nobody can enter again. With it a claim of the
  flag and a destructor exclude each other. That a session which was disconnected first is not
used after its deletion needs `Gone`: an owner is inside the session, so the last one to leave,
were it the io thread, is past `get_impl`, and `GA_destroy_session` finds no call of the
application in progress.
- `TwoFactorProofs`: `TypeCorrect` (attempts never below zero, limit never overspent) and
  `OncePerHandler` (`[]ExactlyOnce`) for any number of handlers over one session. The
  invariant says of each handler (`Good`) that the number of final calls the server
  performed is determined by where the handler is (`Acted`), that attempts are positive
  unless it is in error (`Counted`), and that only a change of settings pushes settings
  (`Named`).
  `ConfigStaysCurrent` (`[]ConfigCurrent`) is about any number of handlers whose dialogues
  overlap. Its invariant `SharedInv` goes part by part: as long as no two calls on one part are
  under way (`Apart`), the session's copy of a part that no call is changing is the server's,
  and one that a call is changing will be once its reply is applied, also for the copy a reload
  has read and not yet stored (`Agree`). That email is enabled only when confirmed is needed
  where disabling it sets "confirmed" in the session's copy (`Sure`).
  `AttemptsAgree` and `RightCodesPass` (`[]AttemptsMatch`, `[]RightCodeAccepted`) hold up to the
  first overlap of two dialogues (`alone`): the claims are not true after it, because a second
  dialogue for the same method replaces the first one's code at the server. The invariant `SyncInv`
  says what the handler that is being worked on may rely on (`Knows`): the methods it offers
  are enabled; when it goes on without a code, the server does the call without one (`Open`); a
  code it waits for was issued for its method and action and has as many attempts left as it
  shows (`Takes`, `Stands`), one less after a rejection (`RejectedGood`); the first of the two
  codes for gauth is still good or was mistyped (`FirstGood`); after an accepted call the code
  of the next phase has been sent (`ActingGood`), and the session is what the server is once
  the reply is applied (`Current` of `Cached`).
- `SubaccountsProofs`: `TypeCorrect`, `FreshBalances` (`[]BalanceFresh`), `CompleteKeys`
  (`[]KeysComplete`) and `FittingNumbers` (`Spec => NumbersFit`, an action property), for any
  numbers, callers, networks and overlap of logins. `BalanceFresh` needs `FreshInv`: balances
  in a reply that was not overtaken (`late`) are the server's, in a login's data, a
  `get_subaccount` and a `create_subaccount` alike, and a number the server does not have
  has no balance. `KeysComplete` needs that keys made by a session include the main
  account's. `NumbersFit` needs `NumbersInv`: unless `racy`, all numbers in use are below
  `m_next_subaccount`, reserved ones are distinct, unknown to the map and, until the server
  has them, to the server, and no creation is in progress once the application's login has
  been applied. That the gap `register_subaccount_xpubs` fills is below
  `m_next_subaccount` rests on the size of a set of numbers below it (lemma `Below`).

- `PersistentCacheProofs`: `TypeCorrect`, `AllIsSaved` (`[]NothingUnsaved`),
  `NoDoubleInsertion` (`[]OutputsInsertedOnce`), `NoncesAreThere` (`[]NoncesComplete`) and
  `LocktimesAreFresh` (`[]LocktimesFresh`) for any number of threads, outputs, changes and
  crashes, and the refinement `FileIsAStore` (`Spec => StoreSpec`). The invariant adds `CallsInv`
  (a call is at one output exactly in the steps that treat one; what its handler asked about
  is unblinded, has its nonce or is still owed by the device; fetched nlocktimes are the
  server's or known to be overtaken) and `WriterInv` (one thread writes, with the mutex and a
  write due). For the refinement each action is shown to be one action of `DurableStore` or a
  stutter; that a load recalls exactly the disk's set needs that clearing a key drops no row,
  and that a save commits the set in memory needs `WriterInv`; a save that fails at its close
  is `Fail` of `DurableStore`.
- `CreateTxProofs`: `TypeCorrect`, `FeeIsRight`, `NoOutputIsDust`, `AddresseesArePaid`,
  `InsufficientMeansIt`, `LoopGetsOn`, `EveryInputIsSigned` and
  `NothingIsLost` (`[]Balanced`) for any
  requests, sizes, rates and thresholds. The invariant says where each input came from
  (`InputsInv`, `UsedInv`), that the addressees' outputs are in order before the change until the
  end (`OutsInv`), that a dust amount has left its error (`ErrorInv`), how many iterations went
  into utxos, change and forced additions (`LoopInv`), and what the loop has left (`LeftInv`).
  `Balanced` needs `BalanceInv`: the total
  is the sum of the inputs in every step, the outputs are the addressees' sum and what was put
  into the change, and without a change output nothing is left over. The lemmas on `Sum` say
  what adding, replacing and exchanging elements of a sequence does to it.
- `TorControllerProofs`: `TypeCorrect`, `OneTorRuns` (`[]OneTor`), `LiveAddress`
  (`[]SocksLive`), `PortIsKept` (`[]PortKept`) and `NoWakeupLost` (`[]NoLostWakeup`) for any
  number of sessions, controllers, impls, ports and calls. None is inductive. The invariant
  adds `ThreadsInv` (a call that has an impl has it alone: with the controller's mutex, or on
  a controller that no session refers to), `OwnersInv` (impl and controller point to each
  other, and a running Tor belongs to the one controller the sessions have or are about to
  get, or to one in its destructor), and `DataInv`: for each impl there is one port such that
  every reply in the buffer, the stored address and the port the controller kept name it, and
  a command or reply about the address exists only once the circuit is built. `RefInv` says
  that only `connect` asks for the controller. There is one lemma per action; those of the
  control thread and of Tor go through `ImplStep`, those of the calls through `LeavesInv` (a
  call lets go of its impl), `ShiftInv` (it stays with it), `Enters` (it takes one) and
  `Starts` (one is made). `PortKept` needs `ProxyInv` on top: unless it was forgotten, the
  address a session keeps is in `m_socks5_port`, or in an impl that nobody is about to destroy,
  from which the next sleep takes it (`Told`).

Only model-checked: the liveness properties (`GetEnds`, `Reconnects`, `TeardownEnds`,
`Completes`, `CallsEnd`), which need fairness and ENABLED and are out of the prover's reach.

## 5. What is not modelled

- The fiat rate and block height that a page of transactions carries, and the JSON the
  handlers build for the application.
- Data races on asio objects (`m_ping_timer` is used by three threads) are modelled as
  atomic accesses: their outcomes are those of the library's build.
- `connect()` replaces `m_session` while calls are in flight: such a call is taken to end
  in an error.
- Watch-only and pin logins, `register_user`, `rename_subaccount` and system messages.
- In `TwoFactor`, the pricing source that a change of settings may also set, and the name of
  the action with which a fee bump asks for its code. In `Subaccounts`, repeated
  notifications and their elision, which are in `TxListCache`.
- In `CreateTx`, liquid: several assets, the fee output, blinding; amounts given in other
  units or payment URIs, and the signatures. In `PersistentCache`, files of older versions and
  sessions without a datadir.
- The order in which the pool emits notifications to the application.
- The Electrum session: on the C++ side it forwards, and the store and its threads are in
  gdk_rust, whose synchronisation is that of its crates.
- Fee estimates and amounts: short sequential conversions that unit tests reach.
- In `TorController`, what a race on the deque of handlers does beyond a changed order; the
  application's progress handler; a line of Tor longer than `MAX_LINE_LENGTH`, which also disconnects.
- Cryptography, Tor itself, sockets. sqlite3 is vendored; its amalgamation is nine tenths of
  the C and C++ lines in the repository, so that the modules cover a small share of all lines
  and a large one of those that keep state in gdk's own code.

## 6. Plan

Order: what decides whether the user sees and spends the right money first.

1. Done: `TxListCache`, `Reconnect`, `TwoFactor`, `Subaccounts`, `PersistentCache` with the
   abstract `DurableStore`, `CreateTx`, `TorController`.
2. `Session`: `Subaccounts` composed with `Reconnect`, whose task logs in, and with
   `TxListCache`, whose known set is `m_subaccounts`; watch-only and pin logins,
   `get_system_message` and its acknowledgement.
3. `HwAuth`: the dialogues of the hardware wallet handlers over an abstract device.
4. `CreateTx` for several assets; `ElectrumSync`: the
   threads of gdk_rust around the store and the headers chain.
5. Abstract specifications: a list per subaccount that is read at one moment, implemented
   by `TxListCache` when no change interferes; an operation authorized once, implemented by
   `TwoFactor` and `HwAuth`.
6. Proofs: every invariant of the runs has its theorem. Next: the refinements of item 5, once
   the abstract specifications are written, from `ExactResults` and `OncePerHandler`.
