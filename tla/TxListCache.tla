----------------------------- MODULE TxListCache -----------------------------
(***************************************************************************)
(* The per-subaccount transaction list caches of a GreenAddress session:   *)
(* tx_list_cache and tx_list_caches (tx_list_cache.cpp), the function that *)
(* reads through them (ga_session::get_raw_transactions) and the places    *)
(* that invalidate them: on_new_transaction, on_new_block (also called by  *)
(* update_login_data) and set_transaction_memo (ga_session.cpp).           *)
(*                                                                         *)
(* A cache is a shared_ptr: a purge only removes it from the map, and a    *)
(* call that already holds it goes on filling it.  The session mutex does  *)
(* not protect the caches, so calls, purges and server changes interleave  *)
(* freely; a page is read by the server at one moment (ReadPage) and       *)
(* applied by the caller at a later one (ApplyPage).                       *)
(*                                                                         *)
(* edition[sa] counts the changes the server made to the list of sa.  The  *)
(* history variables purgedAt and lost, and the fields eds, used, floor    *)
(* and torn, record what the properties compare; no guard reads them.      *)
(***************************************************************************)
EXTENDS Integers, Sequences

CONSTANTS
    Subaccounts,  \* numbers of the subaccounts a notification may name
    Known,        \* those in m_subaccounts after the first login
    Callers,      \* threads calling GA_get_transactions
    Obj,          \* identities of tx_list_cache objects
    NoObj,        \* the null shared_ptr
    Requests,     \* the <<first, count>> pairs callers ask for
    Histories,    \* the lists a subaccount may have when the session logs in
    Bumps,        \* whether new transactions may, or must, replace an older one
    PAGE,         \* transactions per server page
    CACHE_SIZE,   \* tx_list_cache::CACHE_SIZE
    U32,          \* 2^32: page numbers and indexes are uint32_t
    MaxEdition,   \* bound: changes of one subaccount's list
    MaxNotes      \* bound: undelivered notifications

\* a notification; dup: the server has sent it before
Note == [kind : {"tx", "block"}, sas : SUBSET Subaccounts, dup : BOOLEAN]
Tx == [id : Nat, replaced : BOOLEAN]  \* an entry of a list, newest has the largest id

ASSUME SubaccountsAssumption ==
    Subaccounts \subseteq Nat /\ Known \subseteq Subaccounts
ASSUME RequestsAssumption == Requests \subseteq Nat \X Nat /\ Bumps \subseteq BOOLEAN
ASSUME HistoriesAssumption == Histories \subseteq Seq(Tx)
ASSUME SizesAssumption ==
    {PAGE, CACHE_SIZE, U32} \subseteq Nat \ {0} /\ MaxEdition \in Nat
ASSUME NoObjAssumption == NoObj \notin Obj
\* no list grows beyond what uint32_t page numbers below their maximum reach
ASSUME ListsFit == \A h \in Histories : Len(h) + MaxEdition <= (U32 - 1) * PAGE

VARIABLES
    txlist,    \* server: the transactions of each subaccount, newest first
    edition,   \* server: number of changes made to each list
    conn,      \* "up": logged in and subscribed, "login": not yet subscribed, "down"
    known,     \* the keys of m_subaccounts
    notes,     \* notifications sent by the server and not yet delivered
    io,        \* what is left of the notification being handled
    memo,      \* subaccount whose memo set_transaction_memo is changing, if any
    m_caches,  \* tx_list_caches::m_caches
    objs,      \* the tx_list_cache objects
    thr,       \* the calls to get_raw_transactions
    purgedAt,  \* history: edition of each list when it was last purged
    lost       \* history: subaccounts with a notification nobody applied

server == <<txlist, edition>>
link == <<conn, known, notes, io>>
vars == <<server, link, memo, m_caches, objs, thr, purgedAt, lost>>

NoPage == U32 - 1          \* numeric_limits<uint32_t>::max()
EmptyCache == [txs |-> <<>>, next |-> 0, firstEmpty |-> NoPage,
               locked |-> FALSE, eds |-> {}, torn |-> FALSE]
NewCall(pc, o, sa, first, last, floor) ==
    [pc |-> pc, obj |-> o, sa |-> sa, first |-> first, last |-> last,
     page |-> 0, fetched |-> 0, reply |-> <<>>, replyEd |-> 0,
     result |-> <<>>, used |-> {}, floor |-> floor, torn |-> FALSE]
IdleCall == NewCall("idle", NoObj, 0, 0, 0, 0)
IdleIo == [kind |-> "none", sas |-> {}, dup |-> FALSE]

Init ==
    /\ txlist \in [Subaccounts -> Histories]
    /\ edition = [sa \in Subaccounts |-> 0]
    /\ conn = "up"
    /\ known = Known
    /\ notes = <<>>
    /\ io = IdleIo
    /\ memo = {}
    /\ m_caches = [sa \in Subaccounts |-> NoObj]
    /\ objs = [o \in Obj |-> EmptyCache]
    /\ thr = [t \in Callers |-> IdleCall]
    /\ purgedAt = [sa \in Subaccounts |-> 0]
    /\ lost = {}

-----------------------------------------------------------------------------
(* The server (external): what the calls and subscriptions of ga_session   *)
(* rely on.                                                                *)

\* com.greenaddress.txs.get_list_v2 returns page p of the list ...
Page(list, p) == SubSeq(list, p * PAGE + 1,
                        IF (p + 1) * PAGE < Len(list) THEN (p + 1) * PAGE ELSE Len(list))
\* ... from which the server_get lambda removes the replaced transactions:
\* Kept(list)[n] is what is left of the first n
Kept(list) ==
    LET kept[n \in 0 .. Len(list)] ==
          IF n = 0 THEN <<>>
          ELSE IF list[n].replaced THEN kept[n - 1] ELSE Append(kept[n - 1], list[n])
    IN kept
Visible(list) == Kept(list)[Len(list)]
server_get(sa, p) == Visible(Page(txlist[sa], p))

Change(sas) == edition' = [sa \in Subaccounts |->
                             IF sa \in sas THEN edition[sa] + 1 ELSE edition[sa]]
CanChange(sas) == \A sa \in sas : edition[sa] < MaxEdition

\* The server notifies a change of the lists of sas to a subscribed session
Notify(kind, sas) ==
    IF conn = "up"
    THEN /\ Len(notes) < MaxNotes
         /\ notes' = Append(notes, [kind |-> kind, sas |-> sas, dup |-> FALSE])
         /\ lost' = lost
    ELSE lost' = lost \cup sas /\ notes' = notes

\* A new transaction of the wallet, touching the lists of sas.  It may
\* bump (RBF) the newest one, which stays listed with "replaced_by" set.
ServerNewTx(sas, rbf) ==
    /\ sas # {} /\ CanChange(sas)
    /\ Change(sas)
    /\ txlist' = [sa \in Subaccounts |->
         IF sa \notin sas THEN txlist[sa]
         ELSE <<[id |-> Len(txlist[sa]) + 1, replaced |-> FALSE]>> \o
              [i \in DOMAIN txlist[sa] |->
                 [txlist[sa][i] EXCEPT !.replaced = @ \/ (rbf /\ i = 1)]]]
    /\ Notify("tx", sas)
    /\ UNCHANGED <<conn, known, io, memo, m_caches, objs, thr, purgedAt>>

\* A block confirms (or a reorg unconfirms) listed transactions
ServerNewBlock ==
    /\ CanChange(Subaccounts)
    /\ Change(Subaccounts)
    /\ Notify("block", Subaccounts)
    /\ UNCHANGED <<txlist, conn, known, io, memo, m_caches, objs, thr, purgedAt>>

\* The connection drops: what was sent and not delivered is gone
ConnectionLost ==
    /\ conn # "down"
    /\ conn' = "down"
    /\ lost' = lost \cup UNION {notes[i].sas : i \in DOMAIN notes}
    /\ notes' = <<>>
    /\ UNCHANGED <<server, known, io, memo, m_caches, objs, thr, purgedAt>>

-----------------------------------------------------------------------------
(* tx_list_caches: the map and its two purges                              *)

Referenced(caches, calls) ==
    {caches[sa] : sa \in Subaccounts} \cup {calls[t].obj : t \in Callers}
\* shared_ptr: an object nobody refers to is destroyed
Reclaim(os, caches, calls) ==
    [o \in Obj |-> IF o \in Referenced(caches, calls) THEN os[o] ELSE EmptyCache]

\* Mutant: empty the purged cache objects instead of dropping them
PurgeInPlace(sas) ==
    /\ purgedAt' = [sa \in Subaccounts |-> IF sa \in sas THEN edition[sa] ELSE purgedAt[sa]]
    /\ objs' = [o \in Obj |-> IF \E sa \in sas : m_caches[sa] = o
                             THEN [EmptyCache EXCEPT !.locked = objs[o].locked] ELSE objs[o]]
    /\ UNCHANGED m_caches

\* tx_list_caches::purge, of every subaccount in sas at once
Purge(sas) ==
    /\ m_caches' = [sa \in Subaccounts |-> IF sa \in sas THEN NoObj ELSE m_caches[sa]]
    /\ purgedAt' = [sa \in Subaccounts |-> IF sa \in sas THEN edition[sa] ELSE purgedAt[sa]]
    /\ objs' = Reclaim(objs, m_caches', thr)
purge(sa) == Purge({sa})
purge_all == Purge(Subaccounts)

-----------------------------------------------------------------------------
(* Invalidation                                                            *)

\* update_login_data, on the new connection: the subaccounts are loaded again
\* and the final on_new_block purges every list ...
Relogin ==
    /\ conn = "down"
    /\ conn' = "login"
    /\ known' = Subaccounts
    /\ purge_all
    /\ lost' = {}
    /\ UNCHANGED <<server, notes, io, memo, thr>>
\* ... and only then does authenticate subscribe, in calls of their own
Subscribe ==
    /\ conn = "login"
    /\ conn' = "up"
    /\ UNCHANGED <<server, known, notes, io, memo, m_caches, objs, thr, purgedAt, lost>>

\* The io thread takes the next notification.  on_new_block first calls the
\* application's handler, with the session mutex released, and purges after.
Deliver ==
    /\ io = IdleIo /\ notes # <<>>
    /\ io' = Head(notes)
    /\ notes' = Tail(notes)
    /\ UNCHANGED <<server, conn, known, memo, m_caches, objs, thr, purgedAt, lost>>
\* The server sent that notification twice: the copy is next in the queue
DeliverTwice ==
    /\ io = IdleIo /\ notes # <<>> /\ Head(notes).kind = "tx" /\ ~Head(notes).dup
    /\ io' = Head(notes)
    /\ notes' = <<[Head(notes) EXCEPT !.dup = TRUE]>> \o Tail(notes)
    /\ UNCHANGED <<server, conn, known, memo, m_caches, objs, thr, purgedAt, lost>>

\* on_new_transaction elides a notification found in m_tx_notifications; a
\* copy that comes after 60 seconds or 8 others is handled like the first
on_new_transaction_elides ==
    /\ io = IdleIo /\ notes # <<>> /\ Head(notes).dup
    /\ notes' = Tail(notes)
    /\ UNCHANGED <<server, conn, known, io, memo, m_caches, objs, thr, purgedAt, lost>>

NextAffected == CHOOSE sa \in io.sas : \A other \in io.sas : sa <= other

\* on_new_transaction purges the affected subaccounts one by one in sorted order
on_new_transaction ==
    /\ io.kind = "tx" /\ io.sas # {} /\ NextAffected \in known
    /\ purge(NextAffected)
    /\ io' = IF io.sas = {NextAffected} THEN IdleIo
             ELSE [io EXCEPT !.sas = @ \ {NextAffected}]
    /\ lost' = lost \ {NextAffected}
    /\ UNCHANGED <<server, conn, known, notes, memo, thr>>

\* "Unknown subaccount" is thrown out of the loop and swallowed by
\* no_std_exception_escape: the rest is not purged, and the notification is
\* already recorded as delivered
on_new_transaction_throws ==
    /\ io.kind = "tx" /\ io.sas # {} /\ NextAffected \notin known
    /\ lost' = lost \cup io.sas
    /\ io' = IdleIo
    /\ UNCHANGED <<server, conn, known, notes, memo, m_caches, objs, thr, purgedAt>>

on_new_block ==
    /\ io.kind = "block"
    /\ purge_all
    /\ io' = IdleIo
    /\ lost' = {}
    /\ UNCHANGED <<server, conn, known, notes, memo, thr>>

\* set_transaction_memo: the server changes the memo of a listed transaction ...
ChangeMemo(sa) ==
    /\ memo = {} /\ conn # "down" /\ txlist[sa] # <<>> /\ CanChange({sa})
    /\ Change({sa})
    /\ memo' = {sa}
    /\ UNCHANGED <<txlist, link, m_caches, objs, thr, purgedAt, lost>>
\* ... and the call purges every list before it returns ...
MemoPurge ==
    /\ memo # {}
    /\ purge_all
    /\ memo' = {}
    /\ lost' = {}
    /\ UNCHANGED <<server, link, thr>>
\* ... unless wamp_call throws although the server made the change
MemoFails ==
    /\ memo # {}
    /\ lost' = lost \cup memo
    /\ memo' = {}
    /\ UNCHANGED <<server, link, m_caches, objs, thr, purgedAt>>

-----------------------------------------------------------------------------
(* get_raw_transactions -> tx_list_caches::get -> tx_list_cache::get       *)

\* Mutant: the end of the range is computed without wrapping
LastUnwrapped(first, count) == first + count

\* const auto last = first + count, in uint32_t
Last(first, count) == (first + count) % U32

SetCall(t, call) == thr' = [thr EXCEPT ![t] = call]

\* tx_list_caches::get(subaccount): find or create the object and share it
GetCache(t, sa, req) ==
    /\ thr[t].pc \in {"idle", "done", "failed"}
    /\ \E o \in IF m_caches[sa] # NoObj THEN {m_caches[sa]}
                ELSE Obj \ Referenced(m_caches, thr) :
         /\ m_caches' = [m_caches EXCEPT ![sa] = o]
         /\ SetCall(t, NewCall("lock", o, sa, req[1], Last(req[1], req[2]), purgedAt[sa]))
    /\ UNCHANGED <<server, link, memo, objs, purgedAt, lost>>

\* tx_list_cache::get starts: take the mutex of the cache and read its state
LockCache(t) ==
    LET c == thr[t] o == objs[c.obj] IN
    /\ c.pc = "lock" /\ ~o.locked
    /\ objs' = [objs EXCEPT ![c.obj].locked = TRUE]
    /\ SetCall(t, [c EXCEPT !.pc = "fill", !.page = o.next, !.fetched = Len(o.txs),
                            !.used = o.eds, !.torn = o.torn])
    /\ UNCHANGED <<server, link, memo, m_caches, purgedAt, lost>>

cache_full(o) == Len(o.txs) >= CACHE_SIZE
More(c, o) == c.page < o.firstEmpty /\ c.fetched < c.last
NeedsFill(c, o) == ~cache_full(o) /\ More(c, o)
Fetches(c, o) == \/ c.pc = "fill" /\ NeedsFill(c, o)
                 \/ c.pc = "spill" /\ More(c, o)
Slice(seq, first, last) ==
    SubSeq(seq, first + 1, IF last < Len(seq) THEN last ELSE Len(seq))

\* A fetch of either loop sends get_list_v2; the server reads page c.page now
ReadPage(t) ==
    LET c == thr[t] o == objs[c.obj] IN
    /\ Fetches(c, o) /\ conn # "down"
    /\ SetCall(t, [c EXCEPT !.pc = IF @ = "fill" THEN "fill_reply" ELSE "spill_reply",
                            !.reply = server_get(c.sa, c.page),
                            !.replyEd = edition[c.sa]])
    /\ UNCHANGED <<server, link, memo, m_caches, objs, purgedAt, lost>>

\* Mutant: the whole page, whatever the range
WantedAll(txs, fetched, first, last) == txs

\* The part of a page the fetch lambda appends, given the requested range
Wanted(txs, fetched, first, last) ==
    LET drop(n) == IF n >= fetched THEN 0
                   ELSE IF fetched - n < Len(txs) THEN fetched - n ELSE Len(txs)
    IN SubSeq(txs, Len(txs) - drop(first) + 1, Len(txs) - drop(last))

\* Mutant: an empty page is ignored by an early return of the fetch lambda
ApplyFillIgnoresEmpty(t) ==
    LET c == thr[t] IN
    /\ c.pc = "fill_reply"
    /\ objs' = [objs EXCEPT ![c.obj].eds = @ \cup {c.replyEd}, ![c.obj].txs = @ \o c.reply]
    /\ SetCall(t, [c EXCEPT !.pc = "fill", !.page = IF c.reply = <<>> THEN @ ELSE @ + 1,
                            !.reply = <<>>, !.replyEd = 0, !.fetched = @ + Len(c.reply),
                            !.used = @ \cup {c.replyEd}])
    /\ UNCHANGED <<server, link, memo, m_caches, purgedAt, lost>>
\* The reply of the first loop goes into the cache ...
ApplyFill(t) ==
    LET c == thr[t] o == objs[c.obj] IN
    /\ c.pc = "fill_reply"
    /\ objs' = [objs EXCEPT ![c.obj].eds = @ \cup {c.replyEd},
                            ![c.obj].firstEmpty = IF c.reply = <<>> THEN c.page ELSE @,
                            ![c.obj].txs = @ \o c.reply]
    /\ SetCall(t, [c EXCEPT !.pc = "fill", !.page = @ + 1, !.reply = <<>>, !.replyEd = 0,
                            !.fetched = @ + Len(c.reply), !.used = @ \cup {c.replyEd}])
    /\ UNCHANGED <<server, link, memo, m_caches, purgedAt, lost>>

\* ... and that of the second directly into the result
ApplySpill(t) ==
    LET c == thr[t] fetched == c.fetched + Len(c.reply) IN
    /\ c.pc = "spill_reply"
    /\ objs' = [objs EXCEPT ![c.obj].eds = IF c.reply = <<>> THEN @ \cup {c.replyEd} ELSE @,
                            ![c.obj].firstEmpty = IF c.reply = <<>> THEN c.page ELSE @]
    /\ SetCall(t, [c EXCEPT !.pc = "spill", !.page = @ + 1, !.reply = <<>>, !.replyEd = 0,
                            !.fetched = fetched, !.used = @ \cup {c.replyEd},
                            !.result = @ \o Wanted(c.reply, fetched, c.first, c.last)])
    /\ UNCHANGED <<server, link, memo, m_caches, purgedAt, lost>>

\* Between the loops: record the next page and start with the cached part.
\* After a wrap of first + count the range may be reversed: vector's
\* constructor throws, see ReversedRangeThrows.
Reversed(c, o) == c.last < c.first /\ c.last < Len(o.txs)
\* Mutant: m_next_uncached_page is not recorded
StartResultForgetsPage(t) ==
    LET c == thr[t] o == objs[c.obj] IN
    /\ c.pc = "fill" /\ ~NeedsFill(c, o) /\ ~Reversed(c, o)
    /\ SetCall(t, [c EXCEPT !.pc = "spill", !.result = Slice(o.txs, c.first, c.last)])
    /\ UNCHANGED <<server, link, memo, m_caches, objs, purgedAt, lost>>
StartResult(t) ==
    LET c == thr[t] o == objs[c.obj] IN
    /\ c.pc = "fill" /\ ~NeedsFill(c, o) /\ ~Reversed(c, o)
    /\ objs' = [objs EXCEPT ![c.obj].next = c.page]
    /\ SetCall(t, [c EXCEPT !.pc = "spill", !.result = Slice(o.txs, c.first, c.last)])
    /\ UNCHANGED <<server, link, memo, m_caches, purgedAt, lost>>

\* Mutant: the mutex is not released on the way out
LeaveLocked(t, pc, os) ==
    /\ SetCall(t, NewCall(pc, NoObj, 0, 0, 0, 0))
    /\ objs' = Reclaim(os, m_caches, thr')

\* Unlock and drop the shared_ptr
Leave(t, pc, os) ==
    LET c == thr[t]
        returned == [c EXCEPT !.pc = pc, !.obj = NoObj, !.page = 0, !.fetched = 0]
    IN /\ SetCall(t, IF pc = "done" THEN returned ELSE NewCall(pc, NoObj, 0, 0, 0, 0))
       /\ objs' = Reclaim([os EXCEPT ![thr[t].obj].locked = FALSE], m_caches, thr')

Return(t) ==
    /\ thr[t].pc = "spill" /\ ~More(thr[t], objs[thr[t].obj])
    /\ Leave(t, "done", objs)
    /\ UNCHANGED <<server, link, memo, m_caches, purgedAt, lost>>

\* wamp_call throws (timeout, disconnection, server error) out of a fetch.
\* What the first loop has appended stays, m_next_uncached_page is not set.
FetchFails(t) ==
    LET c == thr[t] o == objs[c.obj] IN
    /\ Fetches(c, o) \/ c.pc \in {"fill_reply", "spill_reply"}
    /\ Leave(t, "failed", [objs EXCEPT ![c.obj].torn =
                  @ \/ (c.pc \in {"fill", "fill_reply"} /\ c.page # o.next)])
    /\ UNCHANGED <<server, link, memo, m_caches, purgedAt, lost>>

\* std::length_error from the reversed range: m_next_uncached_page is set
ReversedRangeThrows(t) ==
    LET c == thr[t] o == objs[c.obj] IN
    /\ c.pc = "fill" /\ ~NeedsFill(c, o) /\ Reversed(c, o)
    /\ Leave(t, "failed", [objs EXCEPT ![c.obj].next = c.page])
    /\ UNCHANGED <<server, link, memo, m_caches, purgedAt, lost>>

CallerStep(t) ==
    \/ LockCache(t) \/ ReadPage(t) \/ ApplyFill(t) \/ ApplySpill(t)
    \/ StartResult(t) \/ Return(t) \/ FetchFails(t) \/ ReversedRangeThrows(t)

Next ==
    \/ \E sas \in SUBSET Subaccounts, rbf \in Bumps : ServerNewTx(sas, rbf)
    \/ ServerNewBlock
    \/ ConnectionLost
    \/ Relogin
    \/ Subscribe
    \/ Deliver \/ DeliverTwice
    \/ on_new_transaction_elides
    \/ on_new_transaction
    \/ on_new_transaction_throws
    \/ on_new_block
    \/ \E sa \in Subaccounts : ChangeMemo(sa)
    \/ MemoPurge
    \/ MemoFails
    \/ \E t \in Callers, sa \in Subaccounts, req \in Requests : GetCache(t, sa, req)
    \/ \E t \in Callers : CallerStep(t)

Spec == Init /\ [][Next]_vars

\* A caller's thread is scheduled, and a wamp_call ends in a reply or a timeout
FairSpec == Spec /\ \A t \in Callers : WF_vars(CallerStep(t))

-----------------------------------------------------------------------------
(* Properties                                                              *)

CacheRecord == [txs : Seq(Tx), next : Nat, firstEmpty : Nat, locked : BOOLEAN,
                eds : SUBSET Nat, torn : BOOLEAN]
CallRecord ==
    [pc : {"idle", "lock", "fill", "fill_reply", "spill", "spill_reply", "done", "failed"},
     obj : Obj \cup {NoObj}, sa : Nat, first : Nat, last : 0 .. U32 - 1, page : Nat,
     fetched : Nat, reply : Seq(Tx), replyEd : Nat, result : Seq(Tx),
     used : SUBSET Nat, floor : Nat, torn : BOOLEAN]
TypeOK ==
    /\ txlist \in [Subaccounts -> Seq(Tx)]
    /\ edition \in [Subaccounts -> Nat]
    /\ conn \in {"up", "login", "down"}
    /\ known \in SUBSET Subaccounts
    /\ notes \in Seq(Note)
    /\ io \in [kind : {"none", "tx", "block"}, sas : SUBSET Subaccounts, dup : BOOLEAN]
    /\ memo \in SUBSET Subaccounts
    /\ m_caches \in [Subaccounts -> Obj \cup {NoObj}]
    /\ objs \in [Obj -> CacheRecord]
    /\ thr \in [Callers -> CallRecord]
    /\ purgedAt \in [Subaccounts -> Nat]
    /\ lost \in SUBSET Subaccounts

\* Someone is still going to purge the list of sa (a copy may be elided)
PurgeDue(sa) ==
    \/ \E i \in DOMAIN notes : sa \in notes[i].sas /\ ~notes[i].dup
    \/ sa \in io.sas
    \/ sa \in memo

\* Once every notification and memo change of a subaccount has been applied,
\* the cache in the map holds only pages of the server's present list: a get
\* that was in the middle of filling it when the purge came cannot put pages
\* of the old list back.
CacheFresh ==
    \A sa \in Subaccounts :
        m_caches[sa] # NoObj /\ ~PurgeDue(sa) /\ sa \notin lost
            => objs[m_caches[sa]].eds \subseteq {edition[sa]}

\* A call that starts after a purge of its subaccount (a notification was
\* handled, set_transaction_memo returned, the session logged in again)
\* returns nothing the server read before that purge.
NoStaleServe ==
    \A t \in Callers : \A ed \in thr[t].used : ed >= thr[t].floor

\* One call at a time works on a cache: its mutex is held from the reading of
\* m_next_uncached_page to the return, and every way out releases it.
InGet(c) == c.pc \in {"fill", "fill_reply", "spill", "spill_reply"}
OneGetPerCache ==
    \A o \in Obj :
        /\ objs[o].locked <=> \E t \in Callers : InGet(thr[t]) /\ thr[t].obj = o
        /\ \A t, u \in Callers :
             InGet(thr[t]) /\ InGet(thr[u]) /\ thr[t].obj = o /\ thr[u].obj = o => t = u

\* Every page with transactions has one that was not replaced
NoHiddenPage(sa) ==
    \A p \in 0 .. Len(txlist[sa]) :
        Page(txlist[sa], p) # <<>> => server_get(sa, p) # <<>>
\* The call returned, and all it used is the server's present list
Returned(c) == c.pc = "done" /\ c.used \subseteq {edition[c.sa]} /\ c.used # {}

\* The two loops and the cached part put together return exactly the asked
\* for range of the list without replaced transactions, whatever was in the
\* cache before and wherever pages and CACHE_SIZE fall in the range.
ResultExact ==
    \A t \in Callers :
        Returned(thr[t]) /\ ~thr[t].torn /\ NoHiddenPage(thr[t].sa)
            => thr[t].result = Slice(Visible(txlist[thr[t].sa]), thr[t].first, thr[t].last)

\* A call that has the cache's mutex returns or throws: neither loop can run
\* forever, at the end of the list included.
GetEnds ==
    \A t \in Callers : InGet(thr[t]) ~> thr[t].pc \in {"done", "failed"}

\* tx_list_cache::get adds transactions "until either it's full or 'last' has
\* been cached", then the ones that do not fit: it returns all it was asked for
\* that the server has.
NothingMissing ==
    \A t \in Callers : Returned(thr[t]) /\ ~thr[t].torn =>
        Len(thr[t].result) = Len(Slice(Visible(txlist[thr[t].sa]), thr[t].first, thr[t].last))
=============================================================================
