-------------------------- MODULE TxListCacheProofs --------------------------
(***************************************************************************)
(* Proofs about TxListCache: the caches serve no page read before the last *)
(* purge, and hold only the server's present list once every change has    *)
(* been applied; tx_list_cache::get runs for one call at a time; and what  *)
(* it returns is exactly the range that was asked for.  All for any number *)
(* of subaccounts, callers and cache objects, any page and cache size.     *)
(***************************************************************************)
EXTENDS TxListCache, SequenceTheorems, Induction, TLAPS

-----------------------------------------------------------------------------
(* The inductive invariant.  The contents of the lists play no part, so    *)
(* the shapes say which fields a record has and type only the fields the   *)
(* argument uses.                                                          *)

CacheFields == {"txs", "next", "firstEmpty", "locked", "eds", "torn"}
CallFields == {"pc", "obj", "sa", "first", "last", "page", "fetched", "reply", "replyEd",
               "result", "used", "floor", "torn"}

CacheShape(r) ==
    /\ r = [f \in CacheFields |-> r[f]]
    /\ r.eds \in SUBSET Nat

CallShape(c) ==
    /\ c = [f \in CallFields |-> c[f]]
    /\ c.obj \in Obj \cup {NoObj}
    /\ c.replyEd \in Nat /\ c.floor \in Nat /\ c.used \in SUBSET Nat
    /\ c.obj # NoObj => c.sa \in Subaccounts
    /\ c.obj # NoObj <=> c.pc \in {"lock", "fill", "fill_reply", "spill", "spill_reply"}

Shapes ==
    /\ edition \in [Subaccounts -> Nat]
    /\ purgedAt \in [Subaccounts -> Nat]
    /\ m_caches \in [Subaccounts -> Obj \cup {NoObj}]
    /\ notes \in Seq(Note)
    /\ objs = [o \in Obj |-> objs[o]]
    /\ \A o \in Obj : CacheShape(objs[o])
    /\ thr = [t \in Callers |-> thr[t]]
    /\ \A t \in Callers : CallShape(thr[t])

\* An object serves one subaccount; one nobody refers to is a fresh one
OneSubaccount ==
    /\ \A sa, sb \in Subaccounts : m_caches[sa] = m_caches[sb] /\ m_caches[sa] # NoObj => sa = sb
    /\ \A sa \in Subaccounts, t \in Callers :
         m_caches[sa] = thr[t].obj /\ m_caches[sa] # NoObj => thr[t].sa = sa
    /\ \A t, u \in Callers : thr[t].obj = thr[u].obj /\ thr[t].obj # NoObj => thr[t].sa = thr[u].sa
    /\ \A o \in Obj : o \notin Referenced(m_caches, thr) => objs[o].eds = {}

Reading(c) == c.pc \in {"fill_reply", "spill_reply"}

\* A cache in the map holds, and is about to receive, only pages read since
\* its subaccount was last purged
SincePurge ==
    \A sa \in Subaccounts :
        /\ purgedAt[sa] <= edition[sa]
        /\ m_caches[sa] # NoObj =>
             /\ \A ed \in objs[m_caches[sa]].eds : purgedAt[sa] <= ed /\ ed <= edition[sa]
             /\ \A t \in Callers : thr[t].obj = m_caches[sa] /\ Reading(thr[t])
                    => purgedAt[sa] <= thr[t].replyEd /\ thr[t].replyEd <= edition[sa]

\* A call's cache, purged from the map or not, holds and is about to receive
\* only pages read since the purge that preceded the call
SinceCall ==
    \A t \in Callers :
        /\ \A ed \in thr[t].used : ed >= thr[t].floor
        /\ thr[t].obj # NoObj =>
             /\ thr[t].floor <= edition[thr[t].sa]
             /\ \A ed \in objs[thr[t].obj].eds : ed >= thr[t].floor
             /\ \A u \in Callers : thr[u].obj = thr[t].obj /\ Reading(thr[u])
                    => thr[u].replyEd >= thr[t].floor

\* A list that changed since its last purge is about to be purged again
DueOrPurged ==
    \A sa \in Subaccounts : PurgeDue(sa) \/ sa \in lost \/ purgedAt[sa] = edition[sa]

Caches == Shapes /\ OneSubaccount /\ SincePurge /\ SinceCall
IInv == Caches /\ DueOrPurged

-----------------------------------------------------------------------------
(* What the kinds of steps do to Caches                                    *)

\* A step of the server, of its notifications or of the connection: nothing
\* that reads or writes the caches moves, editions only grow.
LEMMA ServerFrame ==
    ASSUME Caches, UNCHANGED <<m_caches, objs, thr, purgedAt>>,
           edition' \in [Subaccounts -> Nat],
           \A sa \in Subaccounts : edition[sa] <= edition'[sa],
           notes' \in Seq(Note)
    PROVE  Caches'
<1>1. Shapes'
  BY DEF Caches, Shapes, CacheShape, CallShape
<1>2. OneSubaccount'
  BY DEF Caches, OneSubaccount, Referenced
<1>3. SincePurge'
  <2> SUFFICES ASSUME NEW sa \in Subaccounts
               PROVE  /\ purgedAt[sa] <= edition'[sa]
                      /\ m_caches[sa] # NoObj =>
                           /\ \A ed \in objs[m_caches[sa]].eds : purgedAt[sa] <= ed /\ ed <= edition'[sa]
                           /\ \A t \in Callers : thr[t].obj = m_caches[sa] /\ Reading(thr[t])
                                => purgedAt[sa] <= thr[t].replyEd /\ thr[t].replyEd <= edition'[sa]
    BY DEF SincePurge, Reading
  <2>1. edition[sa] \in Nat /\ edition'[sa] \in Nat /\ purgedAt[sa] \in Nat /\ edition[sa] <= edition'[sa]
    BY DEF Caches, Shapes
  <2>2. m_caches[sa] # NoObj => objs[m_caches[sa]].eds \in SUBSET Nat
    BY DEF Caches, Shapes, CacheShape
  <2>3. \A t \in Callers : thr[t].replyEd \in Nat
    BY DEF Caches, Shapes, CallShape
  <2> QED BY <2>1, <2>2, <2>3 DEF Caches, SincePurge
<1>4. SinceCall'
  <2>1. \A t \in Callers : thr[t].obj # NoObj => thr[t].floor <= edition'[thr[t].sa]
    BY DEF Caches, SinceCall, Shapes, CallShape
  <2> QED BY <2>1 DEF Caches, SinceCall, Reading
<1> QED BY <1>1, <1>2, <1>3, <1>4 DEF Caches

\* A purge: the objects of sas leave the map, the others and the calls that
\* hold any of them go on.
LEMMA PurgeFrame ==
    ASSUME Caches, NEW sas, Purge(sas), UNCHANGED <<edition, thr>>, notes' \in Seq(Note)
    PROVE  /\ Caches'
           /\ \A sa \in Subaccounts : purgedAt'[sa] = IF sa \in sas THEN edition[sa] ELSE purgedAt[sa]
<1>1. /\ m_caches' \in [Subaccounts -> Obj \cup {NoObj}]
      /\ purgedAt' \in [Subaccounts -> Nat]
      /\ \A sa \in Subaccounts : purgedAt'[sa] = IF sa \in sas THEN edition[sa] ELSE purgedAt[sa]
      /\ \A sa \in Subaccounts : m_caches'[sa] = IF sa \in sas THEN NoObj ELSE m_caches[sa]
  BY DEF Caches, Shapes, Purge
<1>2. /\ objs' = [o \in Obj |-> objs'[o]]
      /\ \A o \in Obj : o \in Referenced(m_caches', thr) => objs'[o] = objs[o]
      /\ \A o \in Obj : o \notin Referenced(m_caches', thr) => objs'[o] = EmptyCache
  BY DEF Purge, Reclaim
<1>3. CacheShape(EmptyCache) /\ EmptyCache.eds = {}
  BY DEF CacheShape, EmptyCache, CacheFields
<1>4. Shapes'
  <2>1. ASSUME NEW o \in Obj PROVE CacheShape(objs'[o])
    <3>1. CacheShape(objs[o]) BY DEF Caches, Shapes
    <3> QED BY <1>2, <1>3, <3>1 DEF CacheShape
  <2> QED BY <1>1, <1>2, <2>1 DEF Caches, Shapes, CacheShape, CallShape
<1>5. OneSubaccount'
  BY <1>1, <1>2, <1>3, NoObjAssumption DEF Caches, OneSubaccount, Shapes
<1>6. \A sa \in Subaccounts : m_caches'[sa] # NoObj =>
         m_caches[sa] = m_caches'[sa] /\ objs'[m_caches[sa]] = objs[m_caches[sa]]
               /\ purgedAt'[sa] = purgedAt[sa]
  BY <1>1, <1>2 DEF Referenced, Caches, Shapes
<1>7. SincePurge'
  <2>1. ASSUME NEW sa \in Subaccounts PROVE purgedAt'[sa] <= edition[sa]
    <3>1. edition[sa] \in Nat /\ purgedAt[sa] <= edition[sa]
      BY DEF Caches, SincePurge, Shapes
    <3> QED BY <1>1, <3>1
  <2> QED BY <1>6, <2>1 DEF Caches, SincePurge, Reading
<1>8. SinceCall'
  <2>1. \A t \in Callers : thr[t].obj # NoObj => objs'[thr[t].obj] = objs[thr[t].obj]
    BY <1>2 DEF Referenced, Caches, Shapes, CallShape
  <2> QED BY <2>1 DEF Caches, SinceCall, Reading
<1> QED BY <1>1, <1>4, <1>5, <1>7, <1>8 DEF Caches

\* A step of the call of t after it has its cache: a page read before may
\* enter the cache, a page of the present list may be read, and the call may
\* drop its cache.
LEMMA CallFrame ==
    ASSUME Caches, NEW t \in Callers, NEW c, CallShape(c),
           UNCHANGED <<edition, purgedAt, m_caches, notes>>,
           thr' = [thr EXCEPT ![t] = c],
           objs' = [o \in Obj |-> objs'[o]],
           \A o \in Obj : CacheShape(objs'[o]),
           c.obj = NoObj \/ (c.obj = thr[t].obj /\ c.sa = thr[t].sa /\ c.floor = thr[t].floor),
           \A o \in Obj : \A ed \in objs'[o].eds :
                ed \in objs[o].eds \/ (o = thr[t].obj /\ Reading(thr[t]) /\ ed = thr[t].replyEd),
           \A o \in Obj : o \notin Referenced(m_caches, thr') => objs'[o].eds = {},
           Reading(c) => c.replyEd = edition[c.sa],
           \A ed \in c.used : ed >= c.floor
    PROVE  Caches'
<1>1. \A u \in Callers : thr'[u] = IF u = t THEN c ELSE thr[u]
  BY DEF Caches, Shapes
<1>2. Shapes'
  <2>1. \A u \in Callers : CallShape(thr'[u])
    BY <1>1 DEF Caches, Shapes
  <2>2. thr' = [u \in Callers |-> thr'[u]]
    BY DEF Caches, Shapes
  <2> QED BY <2>1, <2>2 DEF Caches, Shapes, CacheShape, CallShape
<1>3. OneSubaccount'
  <2>1. \A o \in Obj : o \notin Referenced(m_caches', thr') => objs'[o].eds = {}
    BY DEF Referenced
  <2>2. \A u \in Callers : thr'[u].obj # NoObj =>
           thr'[u].obj = thr[u].obj /\ thr'[u].sa = thr[u].sa
    BY <1>1
  <2>3. \A sa \in Subaccounts, u \in Callers :
           m_caches[sa] = thr'[u].obj /\ m_caches[sa] # NoObj => thr'[u].sa = sa
    BY <2>2 DEF Caches, OneSubaccount
  <2>4. \A u, v \in Callers : thr'[u].obj = thr'[v].obj /\ thr'[u].obj # NoObj => thr'[u].sa = thr'[v].sa
    BY <2>2 DEF Caches, OneSubaccount
  <2> QED BY <2>1, <2>3, <2>4 DEF Caches, OneSubaccount, Referenced
<1>4. SincePurge'
  <2> SUFFICES ASSUME NEW sa \in Subaccounts, m_caches[sa] # NoObj
               PROVE  /\ \A ed \in objs'[m_caches[sa]].eds : purgedAt[sa] <= ed /\ ed <= edition[sa]
                      /\ \A u \in Callers : thr'[u].obj = m_caches[sa] /\ Reading(thr'[u])
                           => purgedAt[sa] <= thr'[u].replyEd /\ thr'[u].replyEd <= edition[sa]
    BY DEF Caches, SincePurge, Reading
  <2>1. m_caches[sa] \in Obj /\ purgedAt[sa] <= edition[sa] /\ edition[sa] \in Nat
    BY DEF Caches, Shapes, SincePurge
  <2>2. \A ed \in objs'[m_caches[sa]].eds : purgedAt[sa] <= ed /\ ed <= edition[sa]
    BY <2>1 DEF Caches, SincePurge
  <2>3. c.obj = m_caches[sa] => c.sa = sa
    BY DEF Caches, OneSubaccount
  <2> QED BY <1>1, <2>1, <2>2, <2>3 DEF Caches, SincePurge
<1>5. SinceCall'
  <2> SUFFICES ASSUME NEW u \in Callers, thr'[u].obj # NoObj
               PROVE  /\ thr'[u].floor <= edition[thr'[u].sa]
                      /\ \A ed \in objs'[thr'[u].obj].eds : ed >= thr'[u].floor
                      /\ \A v \in Callers : thr'[v].obj = thr'[u].obj /\ Reading(thr'[v])
                           => thr'[v].replyEd >= thr'[u].floor
    BY <1>1 DEF Caches, SinceCall, Reading
  <2>1. thr'[u].obj = thr[u].obj /\ thr'[u].sa = thr[u].sa /\ thr'[u].floor = thr[u].floor
    BY <1>1
  <2>2. thr[u].obj \in Obj /\ thr[u].floor <= edition[thr[u].sa]
    BY <2>1 DEF Caches, SinceCall, Shapes, CallShape
  <2>3. \A ed \in objs'[thr[u].obj].eds : ed >= thr[u].floor
    BY <2>1, <2>2 DEF Caches, SinceCall
  <2>4. \A v \in Callers : thr'[v].obj = thr[u].obj /\ Reading(thr'[v])
           => thr'[v].replyEd >= thr[u].floor
    <3> SUFFICES ASSUME NEW v \in Callers, thr'[v].obj = thr[u].obj, Reading(thr'[v])
                 PROVE  thr'[v].replyEd >= thr[u].floor
      OBVIOUS
    <3>1. CASE v # t
      BY <3>1, <1>1, <2>1 DEF Caches, SinceCall
    <3>2. CASE v = t
      <4>1. c.sa = thr[u].sa /\ c.replyEd = edition[c.sa]
        BY <3>2, <1>1, <2>1 DEF Caches, OneSubaccount
      <4>2. thr[u].floor \in Nat /\ edition[thr[u].sa] \in Nat
        BY <2>1 DEF Caches, Shapes, CallShape
      <4> QED BY <4>1, <4>2, <3>2, <1>1, <2>2
    <3> QED BY <3>1, <3>2
  <2> QED BY <2>1, <2>2, <2>3, <2>4
<1> QED BY <1>2, <1>3, <1>4, <1>5 DEF Caches

-----------------------------------------------------------------------------
(* The steps of the server and of the connection                           *)

\* Changes the server makes: each is notified or recorded as lost
LEMMA ServerSteps ==
    ASSUME IInv,
           \/ \E sas \in SUBSET Subaccounts, rbf \in Bumps : ServerNewTx(sas, rbf)
           \/ ServerNewBlock
    PROVE  IInv'
<1>1. PICK sas \in SUBSET Subaccounts, kind \in {"tx", "block"} :
         /\ Change(sas) /\ Notify(kind, sas)
         /\ UNCHANGED <<io, memo, m_caches, objs, thr, purgedAt>>
  BY DEF ServerNewTx, ServerNewBlock
<1>2. /\ edition' \in [Subaccounts -> Nat]
      /\ \A sa \in Subaccounts : edition[sa] <= edition'[sa]
      /\ \A sa \in Subaccounts : sa \notin sas => edition'[sa] = edition[sa]
  BY <1>1 DEF Change, IInv, Caches, Shapes
<1>3. notes \in Seq(Note) /\ notes' \in Seq(Note)
  <2>1. [kind |-> kind, sas |-> sas, dup |-> FALSE] \in Note
    BY DEF Note
  <2>2. notes \in Seq(Note)
    BY DEF IInv, Caches, Shapes
  <2>3. notes' = notes \/ notes' = Append(notes, [kind |-> kind, sas |-> sas, dup |-> FALSE])
    BY <1>1 DEF Notify
  <2> QED BY <2>1, <2>2, <2>3, AppendProperties
<1>4. Caches'
  BY <1>1, <1>2, <1>3, ServerFrame DEF IInv
<1>5. \A sa \in sas : (\E i \in DOMAIN notes' : sa \in notes'[i].sas /\ ~notes'[i].dup) \/ sa \in lost'
  <2>1. CASE notes' = Append(notes, [kind |-> kind, sas |-> sas, dup |-> FALSE])
    <3>1. /\ Len(notes) + 1 \in DOMAIN notes'
          /\ notes'[Len(notes) + 1] = [kind |-> kind, sas |-> sas, dup |-> FALSE]
      BY <2>1, <1>3
    <3> QED BY <3>1
  <2>2. CASE lost' = lost \cup sas
    BY <2>2
  <2> QED BY <1>1, <2>1, <2>2 DEF Notify
<1>6. \A i \in DOMAIN notes : i \in DOMAIN notes' /\ notes'[i] = notes[i]
  <2>1. CASE notes' = Append(notes, [kind |-> kind, sas |-> sas, dup |-> FALSE])
    BY <2>1, <1>3
  <2>2. CASE notes' = notes
    BY <2>2
  <2> QED BY <1>1, <2>1, <2>2 DEF Notify
<1>7. lost \subseteq lost'
  BY <1>1 DEF Notify
<1>8. DueOrPurged'
  BY <1>1, <1>2, <1>5, <1>6, <1>7 DEF IInv, DueOrPurged, PurgeDue
<1> QED BY <1>4, <1>8 DEF IInv

\* Replacing the head of a sequence changes nothing else of it
LEMMA HeadReplaced ==
    ASSUME NEW S, NEW q \in Seq(S), q # <<>>, NEW e \in S
    PROVE  /\ Len(<<e>> \o Tail(q)) = Len(q)
           /\ \A i \in 1 .. Len(q) : i > 1 => (<<e>> \o Tail(q))[i] = q[i]
<1> DEFINE s == <<e>> \o Tail(q)
<1>1. <<e>> \in Seq(S) /\ Len(<<e>>) = 1 OBVIOUS
<1>2. /\ Tail(q) \in Seq(S) /\ Len(Tail(q)) = Len(q) - 1
      /\ \A i \in 1 .. Len(Tail(q)) : Tail(q)[i] = q[i + 1]
  BY HeadTailProperties
<1>3. /\ Len(s) = 1 + Len(Tail(q))
      /\ \A i \in 1 .. 1 + Len(Tail(q)) : s[i] = IF i <= 1 THEN <<e>>[i] ELSE Tail(q)[i - 1]
  <2> DEFINE one == <<e>>
             rest == Tail(q)
  <2> HIDE DEF one, rest
  <2>1. one \in Seq(S) /\ rest \in Seq(S) /\ Len(one) = 1 BY <1>1, <1>2 DEF one, rest
  <2>2. /\ Len(one \o rest) = Len(one) + Len(rest)
        /\ \A i \in 1 .. Len(one) + Len(rest) :
             (one \o rest)[i] = IF i <= Len(one) THEN one[i] ELSE rest[i - Len(one)]
    BY <2>1, ConcatProperties
  <2>3. /\ Len(one \o rest) = 1 + Len(rest)
        /\ \A i \in 1 .. 1 + Len(rest) : (one \o rest)[i] = IF i <= 1 THEN one[i] ELSE rest[i - 1]
    BY <2>1, <2>2
  <2> QED BY <2>3, Zenon DEF one, rest
<1> HIDE DEF s
<1>4. Len(q) \in Nat BY LenProperties
<1>5. Len(s) = Len(q) BY <1>2, <1>3, <1>4
<1>6. ASSUME NEW i \in 1 .. Len(q), i > 1 PROVE s[i] = q[i]
  <2>1. i \in 1 .. 1 + Len(Tail(q)) /\ i - 1 \in 1 .. Len(Tail(q)) BY <1>2, <1>4, <1>6
  <2>2. s[i] = Tail(q)[i - 1] BY <1>3, <1>6, <2>1
  <2>3. Tail(q)[i - 1] = q[(i - 1) + 1] BY <1>2, <2>1
  <2>4. (i - 1) + 1 = i BY <1>4
  <2> QED BY <2>2, <2>3, <2>4, Zenon
<1> QED BY <1>5, <1>6 DEF s

\* Steps of the connection and of the delivery of notifications
LEMMA LinkSteps ==
    ASSUME IInv, \/ ConnectionLost \/ Subscribe \/ Deliver \/ DeliverTwice
           \/ on_new_transaction_elides \/ on_new_transaction_throws
    PROVE  IInv'
<1>1. UNCHANGED <<edition, memo, m_caches, objs, thr, purgedAt>>
  BY DEF ConnectionLost, Subscribe, Deliver, DeliverTwice, on_new_transaction_elides,
         on_new_transaction_throws, server
<1>2. notes \in Seq(Note) /\ edition \in [Subaccounts -> Nat]
  BY DEF IInv, Caches, Shapes
<1>3. notes' \in Seq(Note)
  <2>1. \/ notes' = notes \/ notes' = <<>> \/ (notes # <<>> /\ notes' = Tail(notes))
        \/ notes # <<>> /\ notes' = <<[Head(notes) EXCEPT !.dup = TRUE]>> \o Tail(notes)
    BY DEF ConnectionLost, Subscribe, Deliver, DeliverTwice, on_new_transaction_elides,
         on_new_transaction_throws
  <2>2. <<>> \in Seq(Note)
    OBVIOUS
  <2>3. notes # <<>> => Tail(notes) \in Seq(Note) /\ Head(notes) \in Note
    BY <1>2, HeadTailProperties
  <2>4. notes # <<>> => [Head(notes) EXCEPT !.dup = TRUE] \in Note
    BY <2>3 DEF Note
  <2>5. notes # <<>> => <<[Head(notes) EXCEPT !.dup = TRUE]>> \o Tail(notes) \in Seq(Note)
    BY <2>3, <2>4, ConcatProperties
  <2> QED BY <2>1, <2>2, <2>3, <2>5, <1>2
<1>4. Caches'
  BY <1>1, <1>2, <1>3, ServerFrame DEF IInv
<1>5. ASSUME NEW sa \in Subaccounts, PurgeDue(sa) \/ sa \in lost
      PROVE  PurgeDue(sa)' \/ sa \in lost'
  <2>1. CASE ConnectionLost
    BY <2>1, <1>5 DEF ConnectionLost, PurgeDue
  <2>2. CASE Subscribe
    BY <2>2, <1>5 DEF Subscribe, PurgeDue
  <2>3. CASE Deliver
    <3>1. \A i \in DOMAIN notes : i = 1 \/ (i - 1 \in DOMAIN notes' /\ notes'[i - 1] = notes[i])
      BY <2>3, <1>2 DEF Deliver
    <3>2. io' = notes[1] /\ io.sas = {} /\ lost' = lost /\ memo' = memo
      BY <2>3, <1>2 DEF Deliver, IdleIo
    <3> QED BY <3>1, <3>2, <1>5 DEF PurgeDue
  <2>4. CASE on_new_transaction_throws
    BY <2>4, <1>5 DEF on_new_transaction_throws, PurgeDue
  <2>5. CASE DeliverTwice
    <3> DEFINE copy == <<[Head(notes) EXCEPT !.dup = TRUE]>>
    <3>1. notes # <<>> /\ notes' = copy \o Tail(notes) BY <2>5 DEF DeliverTwice
    <3>2. /\ Tail(notes) \in Seq(Note) /\ Len(Tail(notes)) = Len(notes) - 1
          /\ \A j \in 1 .. Len(Tail(notes)) : Tail(notes)[j] = notes[j + 1]
      BY <3>1, <1>2
    <3>3. [Head(notes) EXCEPT !.dup = TRUE] \in Note
      <4>1. Head(notes) \in Note BY <3>1, <1>2
      <4> QED BY <4>1 DEF Note
    <3>4. \A i \in DOMAIN notes : i = 1 \/ (i \in DOMAIN notes' /\ notes'[i] = notes[i])
      <4>1. /\ Len(notes') = Len(notes)
            /\ \A i \in 1 .. Len(notes) : i > 1 => notes'[i] = notes[i]
        BY <3>1, <3>3, <1>2, HeadReplaced
      <4> QED BY <4>1, <1>2, <1>3
    <3>5. io' = notes[1] /\ io.sas = {} /\ lost' = lost /\ memo' = memo
      BY <2>5, <1>2 DEF DeliverTwice, IdleIo
    <3> QED BY <3>4, <3>5, <1>5 DEF PurgeDue
  <2>6. CASE on_new_transaction_elides
    <3>1. \A i \in DOMAIN notes : i = 1 \/ (i - 1 \in DOMAIN notes' /\ notes'[i - 1] = notes[i])
      BY <2>6, <1>2 DEF on_new_transaction_elides
    <3>2. notes[1].dup /\ io' = io /\ lost' = lost /\ memo' = memo
      BY <2>6, <1>2 DEF on_new_transaction_elides
    <3> QED BY <3>1, <3>2, <1>5 DEF PurgeDue
  <2> QED BY <2>1, <2>2, <2>3, <2>4, <2>5, <2>6
<1>6. DueOrPurged'
  BY <1>1, <1>5 DEF IInv, DueOrPurged, PurgeDue
<1> QED BY <1>4, <1>6 DEF IInv

-----------------------------------------------------------------------------
(* Invalidation                                                            *)

\* Every step that purges: what it purges is up to date
LEMMA PurgeSteps ==
    ASSUME IInv, Relogin \/ on_new_transaction \/ on_new_block \/ MemoPurge
    PROVE  IInv'
<1>1. PICK sas : /\ Purge(sas)
                 /\ \A sa \in Subaccounts : sa \notin sas =>
                      /\ sa \in lost' <=> sa \in lost
                      /\ PurgeDue(sa) => PurgeDue(sa)'
  <2>1. CASE on_new_transaction
    <3>1. Purge({NextAffected})
      BY <2>1 DEF on_new_transaction, purge
    <3>2. ASSUME NEW sa \in Subaccounts, sa # NextAffected, PurgeDue(sa) PROVE PurgeDue(sa)'
      <4>1. sa \in io.sas => sa \in io'.sas
        <5> SUFFICES ASSUME sa \in io.sas PROVE sa \in io'.sas OBVIOUS
        <5>1. io.sas # {NextAffected} BY <3>2
        <5> QED BY <5>1, <2>1, <3>2 DEF on_new_transaction
      <4> QED BY <4>1, <2>1, <3>2 DEF on_new_transaction, PurgeDue
    <3> QED BY <3>1, <3>2, <2>1 DEF on_new_transaction
  <2>2. CASE Relogin \/ on_new_block \/ MemoPurge
    BY <2>2 DEF Relogin, on_new_block, MemoPurge, purge_all
  <2> QED BY <2>1, <2>2
<1>2. UNCHANGED <<edition, thr, notes>>
  BY DEF Relogin, on_new_transaction, on_new_block, MemoPurge, server, link
<1>3. Caches' /\ \A sa \in Subaccounts :
        purgedAt'[sa] = IF sa \in sas THEN edition[sa] ELSE purgedAt[sa]
  <2>1. notes' \in Seq(Note) BY <1>2 DEF IInv, Caches, Shapes
  <2> QED BY <1>1, <1>2, <2>1, PurgeFrame DEF IInv
<1>4. DueOrPurged'
  BY <1>1, <1>2, <1>3 DEF IInv, DueOrPurged
<1> QED BY <1>3, <1>4 DEF IInv

\* A memo change is due to be purged, or lost
LEMMA MemoSteps ==
    ASSUME IInv, MemoFails \/ \E sa \in Subaccounts : ChangeMemo(sa)
    PROVE  IInv'
<1>1. CASE MemoFails
  <2>1. UNCHANGED <<edition, notes, io, m_caches, objs, thr, purgedAt>>
    BY <1>1 DEF MemoFails, server, link
  <2>2. Caches'
    BY <2>1, ServerFrame DEF IInv, Caches, Shapes
  <2>3. DueOrPurged'
    BY <1>1, <2>1 DEF MemoFails, IInv, DueOrPurged, PurgeDue
  <2> QED BY <2>2, <2>3 DEF IInv
<1>2. ASSUME NEW sa \in Subaccounts, ChangeMemo(sa) PROVE IInv'
  <2>1. /\ UNCHANGED <<notes, io, lost, m_caches, objs, thr, purgedAt>>
        /\ memo = {} /\ memo' = {sa} /\ Change({sa})
    BY <1>2 DEF ChangeMemo, link
  <2>2. /\ edition' \in [Subaccounts -> Nat]
        /\ \A sb \in Subaccounts : edition[sb] <= edition'[sb]
        /\ \A sb \in Subaccounts : sb # sa => edition'[sb] = edition[sb]
    BY <2>1 DEF Change, IInv, Caches, Shapes
  <2>3. Caches'
    BY <2>1, <2>2, ServerFrame DEF IInv, Caches, Shapes
  <2>4. DueOrPurged'
    BY <2>1, <2>2 DEF IInv, DueOrPurged, PurgeDue
  <2> QED BY <2>3, <2>4 DEF IInv
<1> QED BY <1>1, <1>2

-----------------------------------------------------------------------------
(* The steps of a call                                                     *)

\* DueOrPurged is about nothing a call touches
LEMMA CallLeavesDue ==
    ASSUME DueOrPurged, UNCHANGED <<server, link, memo, purgedAt, lost>>
    PROVE  DueOrPurged'
BY DEF DueOrPurged, PurgeDue, server, link

\* tx_list_caches::get shares an object of that subaccount only
LEMMA GetCacheInv ==
    ASSUME IInv, NEW t \in Callers, NEW sa \in Subaccounts, NEW req \in Requests,
           GetCache(t, sa, req)
    PROVE  IInv'
<1>1. PICK c : /\ thr' = [thr EXCEPT ![t] = c]
               /\ CallShape(c) /\ c.pc = "lock" /\ c.sa = sa /\ c.floor = purgedAt[sa] /\ c.used = {}
               /\ c.obj \in Obj
               /\ c.obj \in IF m_caches[sa] # NoObj THEN {m_caches[sa]}
                            ELSE Obj \ Referenced(m_caches, thr)
               /\ m_caches' = [m_caches EXCEPT ![sa] = c.obj]
               /\ UNCHANGED <<server, link, memo, objs, purgedAt, lost>>
  <2>1. PICK o \in IF m_caches[sa] # NoObj THEN {m_caches[sa]} ELSE Obj \ Referenced(m_caches, thr) :
          /\ m_caches' = [m_caches EXCEPT ![sa] = o]
          /\ SetCall(t, NewCall("lock", o, sa, req[1], Last(req[1], req[2]), purgedAt[sa]))
    BY DEF GetCache
  <2>2. o \in Obj /\ o # NoObj
    BY <2>1, NoObjAssumption DEF IInv, Caches, Shapes
  <2> DEFINE c == NewCall("lock", o, sa, req[1], Last(req[1], req[2]), purgedAt[sa])
  <2>3. CallShape(c) /\ c.pc = "lock" /\ c.obj = o /\ c.sa = sa /\ c.floor = purgedAt[sa] /\ c.used = {}
    <3>2. purgedAt[sa] \in Nat
      BY DEF IInv, Caches, Shapes
    <3> QED BY <2>2, <3>2 DEF CallShape, NewCall, CallFields, CacheFields
  <2>4. UNCHANGED <<server, link, memo, objs, purgedAt, lost>>
    BY DEF GetCache
  <2> QED BY <2>1, <2>2, <2>3, <2>4 DEF SetCall
<1>2. /\ \A u \in Callers : thr'[u] = IF u = t THEN c ELSE thr[u]
      /\ \A sb \in Subaccounts : m_caches'[sb] = IF sb = sa THEN c.obj ELSE m_caches[sb]
      /\ UNCHANGED <<edition, purgedAt, objs, notes>>
  BY <1>1 DEF IInv, Caches, Shapes, server, link
<1>3. Shapes'
  <2>1. thr' = [u \in Callers |-> thr'[u]] /\ \A u \in Callers : CallShape(thr'[u])
    BY <1>1, <1>2 DEF IInv, Caches, Shapes
  <2>2. m_caches' \in [Subaccounts -> Obj \cup {NoObj}]
    BY <1>1 DEF IInv, Caches, Shapes
  <2> QED BY <1>2, <2>1, <2>2 DEF IInv, Caches, Shapes, CacheShape, CallShape
<1>4. \* the object was the one in the map, or is a new one
      \/ m_caches[sa] = c.obj
      \/ /\ \A sb \in Subaccounts : m_caches[sb] # c.obj
         /\ \A u \in Callers : thr[u].obj # c.obj
         /\ objs[c.obj].eds = {}
  BY <1>1 DEF Referenced, IInv, Caches, OneSubaccount
<1>5. OneSubaccount'
  <2>1. \A sb, sc \in Subaccounts : m_caches'[sb] = m_caches'[sc] /\ m_caches'[sb] # NoObj => sb = sc
    BY <1>2, <1>4 DEF IInv, Caches, OneSubaccount
  <2>2. \A sb \in Subaccounts, u \in Callers :
          m_caches'[sb] = thr'[u].obj /\ m_caches'[sb] # NoObj => thr'[u].sa = sb
    BY <1>1, <1>2, <1>4 DEF IInv, Caches, OneSubaccount
  <2>3. \A u, v \in Callers : thr'[u].obj = thr'[v].obj /\ thr'[u].obj # NoObj => thr'[u].sa = thr'[v].sa
    BY <1>1, <1>2, <1>4 DEF IInv, Caches, OneSubaccount
  <2>4. \A o \in Obj : o \notin Referenced(m_caches', thr') => objs'[o].eds = {}
    <3> SUFFICES ASSUME NEW o \in Obj, o \notin Referenced(m_caches', thr') PROVE objs[o].eds = {}
      BY <1>2
    <3>1. o # c.obj /\ \A sb \in Subaccounts : sb # sa => m_caches[sb] # o
      BY <1>2 DEF Referenced
    <3>2. m_caches[sa] # o
      BY <1>1, <3>1, NoObjAssumption
    <3>3. \A u \in Callers : u # t => thr[u].obj # o
      BY <1>2 DEF Referenced
    <3>4. thr[t].obj # o
      <4>1. thr[t].obj = NoObj
        BY DEF GetCache, IInv, Caches, Shapes, CallShape
      <4> QED BY <4>1, NoObjAssumption
    <3> QED BY <3>1, <3>2, <3>3, <3>4 DEF IInv, Caches, OneSubaccount, Referenced
  <2> QED BY <2>1, <2>2, <2>3, <2>4 DEF OneSubaccount, Referenced
<1>6. \* what is in the cache, and on its way there, was read since the purge
      /\ \A ed \in objs[c.obj].eds : purgedAt[sa] <= ed /\ ed <= edition[sa]
      /\ \A u \in Callers : thr[u].obj = c.obj /\ Reading(thr[u])
           => purgedAt[sa] <= thr[u].replyEd /\ thr[u].replyEd <= edition[sa]
  BY <1>1, <1>4, NoObjAssumption DEF IInv, Caches, SincePurge
<1>7. ~Reading(c) /\ c.obj # NoObj
  BY <1>1, NoObjAssumption DEF Reading
<1>8. SincePurge'
  <2> SUFFICES ASSUME NEW sb \in Subaccounts, m_caches'[sb] # NoObj
               PROVE  /\ \A ed \in objs[m_caches'[sb]].eds : purgedAt[sb] <= ed /\ ed <= edition[sb]
                      /\ \A u \in Callers : thr'[u].obj = m_caches'[sb] /\ Reading(thr'[u])
                           => purgedAt[sb] <= thr'[u].replyEd /\ thr'[u].replyEd <= edition[sb]
    BY <1>2 DEF IInv, Caches, SincePurge, Reading
  <2>1. CASE sb = sa
    BY <2>1, <1>2, <1>6, <1>7
  <2>2. CASE sb # sa
    BY <2>2, <1>2, <1>7 DEF IInv, Caches, SincePurge
  <2> QED BY <2>1, <2>2
<1>9. SinceCall'
  <2> SUFFICES ASSUME NEW u \in Callers
               PROVE  /\ \A ed \in thr'[u].used : ed >= thr'[u].floor
                      /\ thr'[u].obj # NoObj =>
                         /\ thr'[u].floor <= edition[thr'[u].sa]
                         /\ \A ed \in objs[thr'[u].obj].eds : ed >= thr'[u].floor
                         /\ \A v \in Callers : thr'[v].obj = thr'[u].obj /\ Reading(thr'[v])
                              => thr'[v].replyEd >= thr'[u].floor
    BY <1>2 DEF SinceCall, Reading
  <2>1. CASE u = t
    <3>1. purgedAt[sa] \in Nat /\ edition[sa] \in Nat /\ purgedAt[sa] <= edition[sa]
      BY DEF IInv, Caches, Shapes, SincePurge
    <3>2. objs[c.obj].eds \in SUBSET Nat /\ \A v \in Callers : thr[v].replyEd \in Nat
      BY <1>1 DEF IInv, Caches, Shapes, CacheShape, CallShape
    <3> QED BY <2>1, <3>1, <3>2, <1>1, <1>2, <1>6, <1>7
  <2>2. CASE u # t
    BY <2>2, <1>2, <1>7 DEF IInv, Caches, SinceCall
  <2> QED BY <2>1, <2>2
<1>10. DueOrPurged'
  BY <1>1, CallLeavesDue DEF IInv
<1> QED BY <1>3, <1>5, <1>8, <1>9, <1>10 DEF IInv, Caches

\* What a call that has its cache knows about it
LEMMA CallFacts ==
    ASSUME IInv, NEW t \in Callers, thr[t].obj # NoObj
    PROVE  /\ CallShape(thr[t]) /\ thr[t].obj \in Obj /\ thr[t].sa \in Subaccounts
           /\ CacheShape(objs[thr[t].obj])
           /\ \A ed \in objs[thr[t].obj].eds : ed >= thr[t].floor
           /\ \A ed \in thr[t].used : ed >= thr[t].floor
           /\ Reading(thr[t]) => thr[t].replyEd >= thr[t].floor
           /\ edition[thr[t].sa] \in Nat
           /\ \A o \in Obj : o \notin Referenced(m_caches, thr) => objs[o].eds = {}
BY DEF IInv, Caches, Shapes, CallShape, SinceCall, OneSubaccount

\* The steps that keep the cache: same object, same objects referred to
LEMMA KeepFrame ==
    ASSUME IInv, NEW t \in Callers, thr[t].obj # NoObj,
           NEW c, CallShape(c), c.obj = thr[t].obj, c.sa = thr[t].sa, c.floor = thr[t].floor,
           thr' = [thr EXCEPT ![t] = c],
           NEW r, CacheShape(r), objs' = [objs EXCEPT ![thr[t].obj] = r],
           \A ed \in r.eds : ed \in objs[thr[t].obj].eds \/ (Reading(thr[t]) /\ ed = thr[t].replyEd),
           Reading(c) => c.replyEd = edition[c.sa],
           \A ed \in c.used : ed >= c.floor,
           UNCHANGED <<server, link, memo, m_caches, purgedAt, lost>>
    PROVE  IInv'
<1>1. /\ \A u \in Callers : thr'[u].obj = thr[u].obj
      /\ \A o \in Obj : objs'[o] = IF o = thr[t].obj THEN r ELSE objs[o]
      /\ objs' = [o \in Obj |-> objs'[o]]
  BY DEF IInv, Caches, Shapes
<1>2. \A o \in Obj : o \notin Referenced(m_caches, thr') => objs'[o].eds = {}
  <2>1. \A o \in Obj : o \notin Referenced(m_caches, thr') => o \notin Referenced(m_caches, thr) /\ o # thr[t].obj
    BY <1>1 DEF Referenced
  <2> QED BY <1>1, <2>1, CallFacts
<1>3. \A o \in Obj : CacheShape(objs'[o])
  BY <1>1 DEF IInv, Caches, Shapes
<1>4. \A o \in Obj : \A ed \in objs'[o].eds :
        ed \in objs[o].eds \/ (o = thr[t].obj /\ Reading(thr[t]) /\ ed = thr[t].replyEd)
  BY <1>1
<1>5. Caches'
  BY <1>1, <1>2, <1>3, <1>4, CallFrame DEF IInv, server, link
<1> QED BY <1>5, CallLeavesDue DEF IInv

\* Taking the cache's mutex
LEMMA LockCacheInv ==
    ASSUME IInv, NEW t \in Callers, LockCache(t)
    PROVE  IInv'
<1> DEFINE o == objs[thr[t].obj]
<1>c. PICK c : c = [thr[t] EXCEPT !.pc = "fill", !.page = o.next, !.fetched = Len(o.txs),
                    !.used = o.eds, !.torn = o.torn]
  OBVIOUS
<1>r. PICK r : r = [o EXCEPT !.locked = TRUE]
  OBVIOUS
<1>1. /\ thr[t].obj # NoObj /\ thr' = [thr EXCEPT ![t] = c] /\ objs' = [objs EXCEPT ![thr[t].obj] = r]
      /\ UNCHANGED <<server, link, memo, m_caches, purgedAt, lost>>
  BY <1>c, <1>r DEF LockCache, SetCall, IInv, Caches, Shapes, CallShape
<1>2. CallShape(c) /\ c.pc = "fill" /\ c.obj = thr[t].obj /\ c.sa = thr[t].sa
        /\ c.floor = thr[t].floor /\ c.used = o.eds
  <2>1. /\ CallShape(thr[t]) /\ CacheShape(o) /\ edition[thr[t].sa] \in Nat
    BY <1>1, CallFacts
  <2>2. c = [f \in CallFields |-> c[f]]
    BY <1>c, <2>1 DEF CallShape
  <2>3. c.pc = "fill" /\ c.obj = thr[t].obj /\ c.sa = thr[t].sa /\ c.floor = thr[t].floor /\ c.used = o.eds /\ c.replyEd = thr[t].replyEd
    BY <1>c, <2>1 DEF CallShape, CallFields
  <2>4. c.used \in SUBSET Nat /\ c.replyEd \in Nat /\ thr[t].obj # NoObj
    BY <2>1, <2>3, <1>1 DEF CallShape, CacheShape
  <2> QED BY <2>1, <2>2, <2>3, <2>4 DEF CallShape
<1>3. CacheShape(r) /\ r.eds = o.eds
  BY <1>r, <1>1, CallFacts DEF CacheShape, CallFields, CacheFields
<1> QED BY <1>1, <1>2, <1>3, CallFacts, KeepFrame DEF Reading

\* The server reads a page
LEMMA ReadPageInv ==
    ASSUME IInv, NEW t \in Callers, ReadPage(t)
    PROVE  IInv'
<1> DEFINE o == objs[thr[t].obj]
<1>c. PICK c : c = [thr[t] EXCEPT !.pc = IF @ = "fill" THEN "fill_reply" ELSE "spill_reply",
                    !.reply = server_get(thr[t].sa, thr[t].page),
                    !.replyEd = edition[thr[t].sa]]
  OBVIOUS
<1>1. /\ thr[t].obj # NoObj /\ thr' = [thr EXCEPT ![t] = c]
      /\ UNCHANGED <<server, link, memo, m_caches, objs, purgedAt, lost>>
  BY <1>c DEF ReadPage, Fetches, SetCall, IInv, Caches, Shapes, CallShape
<1>2. CallShape(c) /\ c.obj = thr[t].obj /\ c.sa = thr[t].sa /\ c.floor = thr[t].floor
        /\ c.used = thr[t].used /\ c.replyEd = edition[c.sa]
  <2>1. /\ CallShape(thr[t]) /\ CacheShape(o) /\ edition[thr[t].sa] \in Nat
    BY <1>1, CallFacts
  <2>2. c = [f \in CallFields |-> c[f]]
    BY <1>c, <2>1 DEF CallShape
  <2>3. c.obj = thr[t].obj /\ c.sa = thr[t].sa /\ c.floor = thr[t].floor /\ c.used = thr[t].used /\ c.replyEd = edition[thr[t].sa] /\ c.pc \in {"fill_reply", "spill_reply"}
    BY <1>c, <2>1 DEF CallShape, CallFields
  <2>4. c.used \in SUBSET Nat /\ c.replyEd \in Nat /\ thr[t].obj # NoObj
    BY <2>1, <2>3, <1>1 DEF CallShape, CacheShape
  <2> QED BY <2>1, <2>2, <2>3, <2>4 DEF CallShape
<1>3. CacheShape(o) /\ objs' = [objs EXCEPT ![thr[t].obj] = o]
  BY <1>1, CallFacts DEF IInv, Caches, Shapes
<1> QED BY <1>1, <1>2, <1>3, CallFacts, KeepFrame

\* A page goes into the cache
LEMMA ApplyFillInv ==
    ASSUME IInv, NEW t \in Callers, ApplyFill(t)
    PROVE  IInv'
<1> DEFINE o == objs[thr[t].obj]
<1>c. PICK c : c = [thr[t] EXCEPT !.pc = "fill", !.page = @ + 1, !.reply = <<>>, !.replyEd = 0,
                    !.fetched = @ + Len(thr[t].reply),
                    !.used = @ \cup {thr[t].replyEd}]
  OBVIOUS
<1>r. PICK r : r = [o EXCEPT !.eds = @ \cup {thr[t].replyEd},
               !.firstEmpty = IF thr[t].reply = <<>> THEN thr[t].page ELSE @,
               !.txs = @ \o thr[t].reply]
  OBVIOUS
<1>1. /\ thr[t].obj # NoObj /\ Reading(thr[t])
      /\ thr' = [thr EXCEPT ![t] = c] /\ objs' = [objs EXCEPT ![thr[t].obj] = r]
      /\ UNCHANGED <<server, link, memo, m_caches, purgedAt, lost>>
  BY <1>c, <1>r DEF ApplyFill, SetCall, Reading, IInv, Caches, Shapes, CallShape
<1>2. CallShape(c) /\ c.pc = "fill" /\ c.obj = thr[t].obj /\ c.sa = thr[t].sa
        /\ c.floor = thr[t].floor /\ c.used = thr[t].used \cup {thr[t].replyEd}
  <2>1. /\ CallShape(thr[t]) /\ CacheShape(o) /\ edition[thr[t].sa] \in Nat
    BY <1>1, CallFacts
  <2>2. c = [f \in CallFields |-> c[f]]
    BY <1>c, <2>1 DEF CallShape
  <2>3. c.pc = "fill" /\ c.obj = thr[t].obj /\ c.sa = thr[t].sa /\ c.floor = thr[t].floor
        /\ c.used = thr[t].used \cup {thr[t].replyEd} /\ c.replyEd = 0
    BY <1>c, <2>1 DEF CallShape, CallFields
  <2>4. c.used \in SUBSET Nat /\ c.replyEd \in Nat /\ thr[t].obj # NoObj
    <3>1. thr[t].used \in SUBSET Nat /\ thr[t].replyEd \in Nat
      BY <2>1 DEF CallShape
    <3>2. thr[t].obj # NoObj
      BY <1>1
    <3> QED BY <2>3, <3>1, <3>2
  <2> QED BY <2>1, <2>2, <2>3, <2>4 DEF CallShape
<1>3. CacheShape(r) /\ r.eds = o.eds \cup {thr[t].replyEd}
  <2>1. CallShape(thr[t]) /\ CacheShape(o)
    BY <1>1, CallFacts
  <2>2. r = [f \in CacheFields |-> r[f]]
    BY <1>r, <2>1 DEF CacheShape
  <2>3. r.eds = o.eds \/ r.eds = o.eds \cup {thr[t].replyEd}
    BY <1>r, <2>1 DEF CacheShape, CacheFields
  <2> QED BY <1>r, <2>1, <2>2, <2>3 DEF CallShape, CacheShape, CacheFields
<1>4. \A ed \in c.used : ed >= c.floor
  BY <1>1, <1>2, CallFacts
<1>5. ~Reading(c)
  BY <1>2 DEF Reading
<1> QED BY <1>1, <1>2, <1>3, <1>4, <1>5, KeepFrame

\* A page goes into the result
LEMMA ApplySpillInv ==
    ASSUME IInv, NEW t \in Callers, ApplySpill(t)
    PROVE  IInv'
<1> DEFINE o == objs[thr[t].obj]
           fetched == thr[t].fetched + Len(thr[t].reply)
<1>c. PICK c : c = [thr[t] EXCEPT !.pc = "spill", !.page = @ + 1, !.reply = <<>>, !.replyEd = 0,
                    !.fetched = fetched, !.used = @ \cup {thr[t].replyEd},
                    !.result = @ \o Wanted(thr[t].reply, fetched, thr[t].first, thr[t].last)]
  OBVIOUS
<1>r. PICK r : r = [o EXCEPT !.eds = IF thr[t].reply = <<>> THEN @ \cup {thr[t].replyEd} ELSE @,
               !.firstEmpty = IF thr[t].reply = <<>> THEN thr[t].page ELSE @]
  OBVIOUS
<1>1. /\ thr[t].obj # NoObj /\ Reading(thr[t])
      /\ thr' = [thr EXCEPT ![t] = c] /\ objs' = [objs EXCEPT ![thr[t].obj] = r]
      /\ UNCHANGED <<server, link, memo, m_caches, purgedAt, lost>>
  BY <1>c, <1>r DEF ApplySpill, SetCall, Reading, IInv, Caches, Shapes, CallShape
<1>2. CallShape(c) /\ c.pc = "spill" /\ c.obj = thr[t].obj /\ c.sa = thr[t].sa
        /\ c.floor = thr[t].floor /\ c.used = thr[t].used \cup {thr[t].replyEd}
  <2>1. /\ CallShape(thr[t]) /\ CacheShape(o) /\ edition[thr[t].sa] \in Nat
    BY <1>1, CallFacts
  <2>2. c = [f \in CallFields |-> c[f]]
    BY <1>c, <2>1 DEF CallShape
  <2>3. c.pc = "spill" /\ c.obj = thr[t].obj /\ c.sa = thr[t].sa /\ c.floor = thr[t].floor
        /\ c.used = thr[t].used \cup {thr[t].replyEd} /\ c.replyEd = 0
    BY <1>c, <2>1 DEF CallShape, CallFields
  <2>4. c.used \in SUBSET Nat /\ c.replyEd \in Nat /\ thr[t].obj # NoObj
    <3>1. thr[t].used \in SUBSET Nat /\ thr[t].replyEd \in Nat
      BY <2>1 DEF CallShape
    <3>2. thr[t].obj # NoObj
      BY <1>1
    <3> QED BY <2>3, <3>1, <3>2
  <2> QED BY <2>1, <2>2, <2>3, <2>4 DEF CallShape
<1>3. CacheShape(r) /\ \A ed \in r.eds : ed \in o.eds \/ ed = thr[t].replyEd
  <2>1. CallShape(thr[t]) /\ CacheShape(o)
    BY <1>1, CallFacts
  <2>2. r = [f \in CacheFields |-> r[f]]
    BY <1>r, <2>1 DEF CacheShape
  <2>3. r.eds = o.eds \/ r.eds = o.eds \cup {thr[t].replyEd}
    BY <1>r, <2>1 DEF CacheShape, CacheFields
  <2> QED BY <1>r, <2>1, <2>2, <2>3 DEF CallShape, CacheShape, CacheFields
<1>4. \A ed \in c.used : ed >= c.floor
  BY <1>1, <1>2, CallFacts
<1>5. ~Reading(c)
  BY <1>2 DEF Reading
<1> QED BY <1>1, <1>2, <1>3, <1>4, <1>5, KeepFrame

\* The cached part starts the result
LEMMA StartResultInv ==
    ASSUME IInv, NEW t \in Callers, StartResult(t)
    PROVE  IInv'
<1> DEFINE o == objs[thr[t].obj]
<1>c. PICK c : c = [thr[t] EXCEPT !.pc = "spill", !.result = Slice(o.txs, thr[t].first, thr[t].last)]
  OBVIOUS
<1>r. PICK r : r = [o EXCEPT !.next = thr[t].page]
  OBVIOUS
<1>1. /\ thr[t].obj # NoObj /\ thr' = [thr EXCEPT ![t] = c] /\ objs' = [objs EXCEPT ![thr[t].obj] = r]
      /\ UNCHANGED <<server, link, memo, m_caches, purgedAt, lost>>
  BY <1>c, <1>r DEF StartResult, SetCall, IInv, Caches, Shapes, CallShape
<1>2. CallShape(c) /\ c.pc = "spill" /\ c.obj = thr[t].obj /\ c.sa = thr[t].sa
        /\ c.floor = thr[t].floor /\ c.used = thr[t].used
  <2>1. /\ CallShape(thr[t]) /\ CacheShape(o) /\ edition[thr[t].sa] \in Nat
    BY <1>1, CallFacts
  <2>2. c = [f \in CallFields |-> c[f]]
    BY <1>c, <2>1 DEF CallShape
  <2>3. c.pc = "spill" /\ c.obj = thr[t].obj /\ c.sa = thr[t].sa /\ c.floor = thr[t].floor /\ c.used = thr[t].used /\ c.replyEd = thr[t].replyEd
    BY <1>c, <2>1 DEF CallShape, CallFields
  <2>4. c.used \in SUBSET Nat /\ c.replyEd \in Nat /\ thr[t].obj # NoObj
    BY <2>1, <2>3, <1>1 DEF CallShape, CacheShape
  <2> QED BY <2>1, <2>2, <2>3, <2>4 DEF CallShape
<1>3. CacheShape(r) /\ r.eds = o.eds
  BY <1>r, <1>1, CallFacts DEF CacheShape, CallFields, CacheFields
<1> QED BY <1>1, <1>2, <1>3, CallFacts, KeepFrame DEF Reading

\* The ways out of a call: the object stays as it is if anyone else has it
LEMMA LeaveSteps ==
    ASSUME IInv, NEW t \in Callers, Return(t) \/ FetchFails(t) \/ ReversedRangeThrows(t)
    PROVE  IInv'
<1> DEFINE held == thr[t].obj
           back == [thr[t] EXCEPT !.pc = "done", !.obj = NoObj, !.page = 0, !.fetched = 0]
           thrown == NewCall("failed", NoObj, 0, 0, 0, 0)
<1>1. /\ held # NoObj
      /\ UNCHANGED <<server, link, memo, m_caches, purgedAt, lost>>
  BY DEF Return, FetchFails, ReversedRangeThrows, Fetches, IInv, Caches, Shapes, CallShape
<1>2. PICK c, r : /\ c = back \/ c = thrown
                  /\ thr' = [thr EXCEPT ![t] = c]
                  /\ CacheShape(r) /\ r.eds = objs[held].eds
                  /\ objs' = Reclaim([objs EXCEPT ![held] = r], m_caches, thr')
  <2>1. CASE Return(t)
    <3> DEFINE r == [objs[held] EXCEPT !.locked = FALSE]
    <3>1. CacheShape(r) /\ r.eds = objs[held].eds
      BY <1>1, CallFacts DEF CacheShape, CallFields, CacheFields
    <3>2. thr' = [thr EXCEPT ![t] = back] /\ objs' = Reclaim([objs EXCEPT ![held] = r], m_caches, thr')
      BY <2>1, <1>1, CallFacts DEF Return, Leave, SetCall
    <3> QED BY <3>1, <3>2
  <2>2. CASE FetchFails(t)
    <3> DEFINE torn == objs[held].torn \/ (thr[t].pc \in {"fill", "fill_reply"} /\ thr[t].page # objs[held].next)
               q == [objs[held] EXCEPT !.torn = torn]
               r == [q EXCEPT !.locked = FALSE]
    <3>1. CacheShape(r) /\ r.eds = objs[held].eds
      BY <1>1, CallFacts DEF CacheShape, CallFields, CacheFields
    <3>2. /\ thr' = [thr EXCEPT ![t] = thrown]
          /\ objs' = Reclaim([[objs EXCEPT ![held].torn = torn] EXCEPT ![held].locked = FALSE], m_caches, thr')
      BY <2>2, <1>1, CallFacts DEF FetchFails, Leave, SetCall
    <3>3. [[objs EXCEPT ![held].torn = torn] EXCEPT ![held].locked = FALSE] = [objs EXCEPT ![held] = r]
      BY <1>1, CallFacts DEF IInv, Caches, Shapes
    <3> QED BY <3>1, <3>2, <3>3
  <2>3. CASE ReversedRangeThrows(t)
    <3> DEFINE q == [objs[held] EXCEPT !.next = thr[t].page]
               r == [q EXCEPT !.locked = FALSE]
    <3>1. CacheShape(r) /\ r.eds = objs[held].eds
      BY <1>1, CallFacts DEF CacheShape, CallFields, CacheFields
    <3>2. /\ thr' = [thr EXCEPT ![t] = thrown]
          /\ objs' = Reclaim([[objs EXCEPT ![held].next = thr[t].page] EXCEPT ![held].locked = FALSE], m_caches, thr')
      BY <2>3, <1>1, CallFacts DEF ReversedRangeThrows, Leave, SetCall
    <3>3. [[objs EXCEPT ![held].next = thr[t].page] EXCEPT ![held].locked = FALSE] = [objs EXCEPT ![held] = r]
      BY <1>1, CallFacts DEF IInv, Caches, Shapes
    <3> QED BY <3>1, <3>2, <3>3
  <2> QED BY <2>1, <2>2, <2>3
<1>3. CallShape(c) /\ c.obj = NoObj /\ ~Reading(c) /\ \A ed \in c.used : ed >= c.floor
  <2>1. CASE c = back
    <3>1. CallShape(thr[t])
      BY <1>1, CallFacts
    <3>2. c = [f \in CallFields |-> c[f]]
      BY <2>1, <3>1 DEF CallShape
    <3>3. c.obj = NoObj /\ c.pc = "done" /\ c.used = thr[t].used /\ c.floor = thr[t].floor
            /\ c.replyEd = thr[t].replyEd
      BY <2>1, <3>1 DEF CallShape, CallFields
    <3>4. CallShape(c)
      BY <3>1, <3>2, <3>3 DEF CallShape
    <3> QED BY <3>3, <3>4, <1>1, CallFacts DEF Reading
  <2>2. CASE c = thrown
    BY <2>2 DEF CallShape, NewCall, CallFields, Reading
  <2> QED BY <1>2, <2>1, <2>2
<1>4. /\ objs' = [o \in Obj |-> objs'[o]]
      /\ \A o \in Obj : objs'[o] = IF o \notin Referenced(m_caches, thr') THEN EmptyCache
                                   ELSE IF o = held THEN r ELSE objs[o]
  BY <1>2 DEF Reclaim, IInv, Caches, Shapes
<1>5. CacheShape(EmptyCache) /\ EmptyCache.eds = {}
  BY DEF CacheShape, EmptyCache, CacheFields
<1>6. \A o \in Obj : CacheShape(objs'[o])
  BY <1>2, <1>4, <1>5 DEF IInv, Caches, Shapes
<1>7. \A o \in Obj : \A ed \in objs'[o].eds : ed \in objs[o].eds
  BY <1>2, <1>4, <1>5
<1>8. \A o \in Obj : o \notin Referenced(m_caches, thr') => objs'[o].eds = {}
  BY <1>4, <1>5
<1> HIDE DEF back, thrown
<1>9. Caches'
  BY <1>1, <1>2, <1>3, <1>4, <1>6, <1>7, <1>8, CallFrame DEF IInv, server, link
<1> QED BY <1>1, <1>9, CallLeavesDue DEF IInv

-----------------------------------------------------------------------------
(* The theorems                                                            *)

\* The invariant holds after the first login
LEMMA IInvInit == Init => IInv
<1> SUFFICES ASSUME Init PROVE IInv
  OBVIOUS
<1>1. CallShape(IdleCall) /\ IdleCall.obj = NoObj /\ IdleCall.used = {} /\ ~Reading(IdleCall)
  BY DEF CallShape, IdleCall, NewCall, CallFields, Reading
<1>2. CacheShape(EmptyCache) /\ EmptyCache.eds = {}
  BY DEF CacheShape, EmptyCache, CacheFields
<1>3. Shapes
  BY <1>1, <1>2 DEF Init, Shapes
<1>4. OneSubaccount /\ SincePurge /\ SinceCall
  BY <1>1, <1>2 DEF Init, OneSubaccount, SincePurge, SinceCall
<1>5. DueOrPurged
  BY DEF Init, DueOrPurged
<1> QED BY <1>3, <1>4, <1>5 DEF IInv, Caches

\* Every step keeps the invariant
LEMMA IInvNext == IInv /\ [Next]_vars => IInv'
<1> SUFFICES ASSUME IInv, [Next]_vars PROVE IInv'
  OBVIOUS
<1>1. CASE UNCHANGED vars
  <2>1. UNCHANGED <<server, link, memo, m_caches, objs, thr, purgedAt, lost>>
    BY <1>1 DEF vars
  <2>2. Caches'
    BY <2>1, ServerFrame DEF IInv, Caches, Shapes, server, link
  <2> QED BY <2>1, <2>2, CallLeavesDue DEF IInv
<1>2. CASE \/ \E sas \in SUBSET Subaccounts, rbf \in Bumps : ServerNewTx(sas, rbf)
           \/ ServerNewBlock
  BY <1>2, ServerSteps
<1>3. CASE \/ ConnectionLost \/ Subscribe \/ Deliver \/ DeliverTwice
           \/ on_new_transaction_elides \/ on_new_transaction_throws
  BY <1>3, LinkSteps
<1>4. CASE Relogin \/ on_new_transaction \/ on_new_block \/ MemoPurge
  BY <1>4, PurgeSteps
<1>5. CASE MemoFails \/ \E sa \in Subaccounts : ChangeMemo(sa)
  BY <1>5, MemoSteps
<1>6. CASE \E t \in Callers, sa \in Subaccounts, req \in Requests : GetCache(t, sa, req)
  BY <1>6, GetCacheInv
<1>7. CASE \E t \in Callers : CallerStep(t)
  BY <1>7, LockCacheInv, ReadPageInv, ApplyFillInv, ApplySpillInv, StartResultInv, LeaveSteps
     DEF CallerStep
<1> QED BY <1>1, <1>2, <1>3, <1>4, <1>5, <1>6, <1>7 DEF Next

\* For any number of subaccounts, concurrent calls and cache objects, once the
\* notifications and memo changes of a subaccount have been applied its cache
\* in tx_list_caches::m_caches holds only pages of the server's present list.
THEOREM CacheFreshness == Spec => []CacheFresh
<1>1. IInv => CacheFresh
  <2> SUFFICES ASSUME IInv, NEW sa \in Subaccounts, m_caches[sa] # NoObj,
                      ~PurgeDue(sa), sa \notin lost,
                      NEW ed \in objs[m_caches[sa]].eds
               PROVE  ed = edition[sa]
    BY DEF CacheFresh
  <2>1. purgedAt[sa] = edition[sa]
    BY DEF IInv, DueOrPurged
  <2>2. purgedAt[sa] <= ed /\ ed <= edition[sa]
    BY DEF IInv, Caches, SincePurge
  <2>3. ed \in Nat /\ edition[sa] \in Nat
    BY DEF IInv, Caches, Shapes, CacheShape
  <2> QED BY <2>1, <2>2, <2>3
<1> QED BY <1>1, IInvInit, IInvNext, PTL DEF Spec

\* A get_raw_transactions that starts after a purge of its subaccount uses no
\* page the server read before that purge, whatever other calls and purges do
\* meanwhile and whichever cache object the call ends up holding.
THEOREM NoStaleServing == Spec => []NoStaleServe
<1>1. IInv => NoStaleServe
  BY DEF IInv, Caches, SinceCall, NoStaleServe
<1> QED BY <1>1, IInvInit, IInvNext, PTL DEF Spec

-----------------------------------------------------------------------------
(* What is kept of a list: the recursion of Kept, and how it splits        *)

\* What the recursion of Kept computes, step by step
LEMMA KeptDef ==
    ASSUME NEW L \in Seq(Tx)
    PROVE  /\ \A n \in 0 .. Len(L) : Kept(L)[n] \in Seq(Tx)
           /\ Kept(L)[0] = <<>>
           /\ \A n \in 1 .. Len(L) : Kept(L)[n] =
                IF L[n].replaced THEN Kept(L)[n - 1] ELSE Append(Kept(L)[n - 1], L[n])
<1> DEFINE N == Len(L)
           gone(n) == L[n].replaced
           next(n, x) == IF gone(n) THEN x ELSE Append(x, L[n])
           step == [n \in 1 .. N |-> [x \in Seq(Tx) |-> next(n, x)]]
           Body(f) == [n \in 0 .. N |-> IF n = 0 THEN <<>> ELSE next(n, f[n - 1])]
<1>0. N \in Nat /\ \A n \in 1 .. N : L[n] \in Tx
  OBVIOUS
<1>s. Kept(L) = CHOOSE h : h = Body(h)
  BY DEF Kept
<1>a. ASSUME NEW n \in 1 .. N, NEW x \in Seq(Tx) PROVE next(n, x) \in Seq(Tx)
  BY <1>0
<1> HIDE DEF N, next
<1>1. step \in [1 .. N -> [Seq(Tx) -> Seq(Tx)]]
  BY <1>0, <1>a
<1>2. PICK f \in [0 .. N -> Seq(Tx)] : f[0] = <<>> /\ \A n \in 1 .. N : f[n] = step[n][f[n - 1]]
  <2> HIDE DEF step
  <2>1. PICK S, z, w : S = Seq(Tx) /\ z = <<>> /\ w = step
    OBVIOUS
  <2>2. z \in S /\ w \in Steps(N, S)
    BY <1>1, <2>1 DEF Steps
  <2>3. \E f \in Runs(N, S) : Unrolls(f, N, z, w)
    BY <1>0, <2>2, Recursion
  <2> QED BY <2>1, <2>3 DEF Runs, Unrolls
<1>3. f = Body(f)
  <2>1. ASSUME NEW n \in 1 .. N PROVE step[n][f[n - 1]] = next(n, f[n - 1])
    <3>1. n - 1 \in 0 .. N
      BY <1>0
    <3>2. f[n - 1] \in Seq(Tx)
      BY <3>1, <1>2
    <3> QED BY <3>2
  <2>2. ASSUME NEW n \in 0 .. N PROVE f[n] = Body(f)[n]
    <3>1. CASE n = 0
      BY <3>1, <1>2
    <3>2. CASE n \in 1 .. N
      BY <3>2, <1>0, <1>2, <2>1
    <3> QED BY <1>0, <3>1, <3>2
  <2>3. f = [n \in 0 .. N |-> f[n]]
    OBVIOUS
  <2> QED BY <2>2, <2>3
<1>4. PICK g : g = Kept(L)
  OBVIOUS
<1>5. g = Body(g)
  <2> HIDE DEF Body
  <2> QED BY <1>s, <1>4, <1>3
<1>6. g[0] = <<>> /\ \A n \in 1 .. N : g[n] = next(n, g[n - 1])
  BY <1>0, <1>5
<1>7. \A n \in 0 .. N : g[n] \in Seq(Tx)
  <2> DEFINE T == {n \in 0 .. N : g[n] \in Seq(Tx)}
  <2>1. 0 \in T
    <3>1. <<>> \in Seq(Tx) /\ 0 \in 0 .. N
      BY <1>0
    <3> QED BY <3>1, <1>6
  <2>2. ASSUME NEW n \in 0 .. N, n < N, n \in T PROVE n + 1 \in T
    <3>1. n + 1 \in 1 .. N /\ (n + 1) - 1 = n
      BY <1>0, <2>2
    <3>2. g[n + 1] = next(n + 1, g[n])
      BY <1>6, <3>1
    <3>3. next(n + 1, g[n]) \in Seq(Tx)
      BY <3>1, <2>2, <1>a
    <3> QED BY <3>1, <3>2, <3>3
  <2> HIDE DEF T
  <2>3. \A n \in 0 .. N : n \in T
    BY <1>0, <2>1, <2>2, BoundedInduction
  <2> QED BY <2>3 DEF T
<1> QED BY <1>4, <1>6, <1>7 DEF N, next

\* The part of a list after its first k entries, up to the m-th
LEMMA PartFacts ==
    ASSUME NEW L \in Seq(Tx), NEW m \in 0 .. Len(L), NEW k \in 0 .. m
    PROVE  /\ SubSeq(L, k + 1, m) \in Seq(Tx) /\ Len(SubSeq(L, k + 1, m)) = m - k
           /\ \A i \in 1 .. m - k : SubSeq(L, k + 1, m)[i] = L[k + i]
<1>1. k + 1 \in Int /\ m \in Int /\ \A i \in k + 1 .. m : L[i] \in Tx
  OBVIOUS
<1>2. /\ SubSeq(L, k + 1, m) \in Seq(Tx)
      /\ Len(SubSeq(L, k + 1, m)) = IF k + 1 <= m THEN m - (k + 1) + 1 ELSE 0
      /\ \A i \in 1 .. m - (k + 1) + 1 : SubSeq(L, k + 1, m)[i] = L[(k + 1) + i - 1]
  BY <1>1, SubSeqProperties
<1>3. m - (k + 1) + 1 = m - k /\ \A i \in 1 .. m - k : (k + 1) + i - 1 = k + i
  OBVIOUS
<1> QED BY <1>2, <1>3

\* What is kept of a list is what is kept of its first k entries followed by
\* what is kept of the rest
LEMMA KeptSplit ==
    ASSUME NEW L \in Seq(Tx), NEW m \in 0 .. Len(L), NEW k \in 0 .. m
    PROVE  \A n \in 0 .. m - k : Kept(L)[k + n] = Kept(L)[k] \o Kept(SubSeq(L, k + 1, m))[n]
<1> DEFINE P == SubSeq(L, k + 1, m)
           T == {n \in 0 .. m - k : Kept(L)[k + n] = Kept(L)[k] \o Kept(P)[n]}
           N == m - k
<1>1. P \in Seq(Tx) /\ Len(P) = N /\ \A i \in 1 .. N : P[i] = L[k + i]
  BY PartFacts
<1> HIDE DEF P
<1>2. N \in Nat /\ k \in 0 .. Len(L) /\ \A n \in 0 .. N : k + n \in 0 .. Len(L)
  OBVIOUS
<1>3. 0 \in T
  <2>1. Kept(L)[k] \in Seq(Tx) /\ Kept(P)[0] = <<>>
    BY <1>1, <1>2, KeptDef
  <2>2. Kept(L)[k] \o <<>> = Kept(L)[k]
    BY <2>1, ConcatEmptySeq
  <2>3. 0 \in 0 .. m - k /\ k + 0 = k
    BY <1>2
  <2>4. Kept(L)[k + 0] = Kept(L)[k] \o Kept(P)[0]
    BY <2>1, <2>2, <2>3, Zenon
  <2> QED BY <2>3, <2>4
<1>4. ASSUME NEW n \in 0 .. N, n < N, n \in T PROVE n + 1 \in T
  <2>1. n + 1 \in 1 .. N /\ (n + 1) - 1 = n /\ k + (n + 1) \in 1 .. Len(L) /\ (k + (n + 1)) - 1 = k + n
    BY <1>2, <1>4
  <2> DEFINE A == Kept(L)[k]
             B == Kept(P)[n]
             e == L[k + (n + 1)]
  <2>2. Kept(P)[n + 1] = IF P[n + 1].replaced THEN B ELSE Append(B, P[n + 1])
    BY <2>1, <1>1, KeptDef
  <2>3. Kept(L)[k + (n + 1)] = IF e.replaced THEN Kept(L)[k + n] ELSE Append(Kept(L)[k + n], e)
    <3>1. Kept(L)[k + (n + 1)] = IF e.replaced THEN Kept(L)[(k + (n + 1)) - 1]
                                 ELSE Append(Kept(L)[(k + (n + 1)) - 1], e)
      BY <2>1, KeptDef
    <3> QED BY <3>1, <2>1, Zenon
  <2>4. P[n + 1] = e /\ e \in Tx
    BY <2>1, <1>1
  <2>5. A \in Seq(Tx) /\ B \in Seq(Tx) /\ Kept(L)[k + n] = A \o B
    BY <1>1, <1>2, <1>4, KeptDef
  <2> HIDE DEF A, B, e
  <2>6. Append(A \o B, e) = A \o Append(B, e)
    <3>1. <<e>> \in Seq(Tx)
      BY <2>4
    <3>2. A \o B \in Seq(Tx) /\ Append(A \o B, e) = (A \o B) \o <<e>> /\ Append(B, e) = B \o <<e>>
      BY <2>4, <2>5, AppendIsConcat, ConcatProperties
    <3>3. (A \o B) \o <<e>> = A \o (B \o <<e>>)
      BY <3>1, <2>5, ConcatAssociative
    <3> QED BY <3>2, <3>3, Zenon
  <2>7. Kept(L)[k + (n + 1)] = A \o Kept(P)[n + 1]
    BY <2>2, <2>3, <2>4, <2>5, <2>6
  <2>8. n + 1 \in 0 .. m - k
    BY <2>1
  <2> QED BY <2>7, <2>8 DEF A
<1> HIDE DEF T, N
<1>5. \A n \in 0 .. N : n \in T
  BY <1>2, <1>3, <1>4, BoundedInduction
<1> QED BY <1>5 DEF T, P, N

-----------------------------------------------------------------------------
(* Pages and ranges: what the pages before page p leave, and the asked for *)
(* range of it                                                             *)

\* Where page p starts, and what is kept of the pages before it
Cut(L, p) == IF p * PAGE < Len(L) THEN p * PAGE ELSE Len(L)
Upto(L, p) == Kept(L)[Cut(L, p)]

\* Pages start in order, the first one at the start of the list
LEMMA CutFacts ==
    ASSUME NEW L \in Seq(Tx), NEW p \in Nat
    PROVE  /\ Cut(L, p) \in 0 .. Len(L) /\ Cut(L, p) <= Cut(L, p + 1)
           /\ Cut(L, p + 1) \in 0 .. Len(L) /\ Cut(L, 0) = 0
           /\ p * PAGE \in Nat /\ (p + 1) * PAGE = p * PAGE + PAGE
<1>1. PAGE \in Nat /\ Len(L) \in Nat
  BY SizesAssumption
<1>2. p * PAGE \in Nat /\ (p + 1) * PAGE = p * PAGE + PAGE /\ 0 * PAGE = 0
  BY <1>1
<1>3. PICK k \in Nat, j \in Nat : k = p * PAGE /\ j = (p + 1) * PAGE /\ j = k + PAGE
  BY <1>1, <1>2
<1>4. Cut(L, p) = IF k < Len(L) THEN k ELSE Len(L)
  BY <1>3 DEF Cut
<1>5. Cut(L, p + 1) = IF j < Len(L) THEN j ELSE Len(L)
  BY <1>3 DEF Cut
<1>6. Cut(L, 0) = 0
  BY <1>1, <1>2 DEF Cut
<1> QED BY <1>1, <1>2, <1>3, <1>4, <1>5, <1>6

\* The next page adds what is kept of it
LEMMA UptoNext ==
    ASSUME NEW L \in Seq(Tx), NEW p \in Nat
    PROVE  /\ Page(L, p) \in Seq(Tx)
           /\ Page(L, p) = <<>> => p * PAGE >= Len(L)
           /\ Visible(Page(L, p)) \in Seq(Tx)
           /\ Upto(L, p) \in Seq(Tx)
           /\ Upto(L, p + 1) = Upto(L, p) \o Visible(Page(L, p))
<1> DEFINE m == Cut(L, p + 1)
           k == Cut(L, p)
           q == SubSeq(L, k + 1, m)
<1>1. /\ m \in 0 .. Len(L) /\ k \in 0 .. m /\ k \in 0 .. Len(L) /\ Len(L) \in Nat
      /\ p * PAGE \in Nat /\ (p + 1) * PAGE = p * PAGE + PAGE /\ PAGE \in Nat \ {0}
  <2>1. Len(L) \in Nat /\ PAGE \in Nat \ {0}
    BY SizesAssumption
  <2>2. /\ Cut(L, p) \in 0 .. Len(L) /\ Cut(L, p) <= Cut(L, p + 1)
        /\ Cut(L, p + 1) \in 0 .. Len(L)
        /\ p * PAGE \in Nat /\ (p + 1) * PAGE = p * PAGE + PAGE
    BY CutFacts
  <2> QED BY <2>1, <2>2
<1>2. Page(L, p) = SubSeq(L, p * PAGE + 1, m)
  BY DEF Page, Cut
<1>3. p * PAGE < Len(L) => k = p * PAGE /\ m - k > 0
  <2>1. PICK i \in Nat, j \in Nat : i = p * PAGE /\ j = (p + 1) * PAGE /\ j = i + PAGE
    BY <1>1
  <2>2. k = (IF i < Len(L) THEN i ELSE Len(L)) /\ m = (IF j < Len(L) THEN j ELSE Len(L))
    BY <2>1 DEF Cut
  <2> HIDE DEF k, m
  <2>3. j = i + PAGE /\ PAGE \in Nat \ {0} /\ Len(L) \in Nat
    BY <2>1, <1>1
  <2>4. i < Len(L) => k = i /\ m - k > 0
    BY <2>2, <2>3
  <2> QED BY <2>1, <2>4
<1>4. p * PAGE >= Len(L) => k = Len(L) /\ m = Len(L)
  BY <1>1 DEF Cut
<1> HIDE DEF m, k
<1>5. q \in Seq(Tx) /\ Len(q) = m - k
  BY <1>1, PartFacts
<1>6. Page(L, p) = q
  <2>1. CASE p * PAGE < Len(L)
    BY <2>1, <1>2, <1>3
  <2>2. CASE p * PAGE >= Len(L)
    <3>1. m < p * PAGE + 1 /\ m < k + 1 /\ m \in Int /\ k + 1 \in Int /\ p * PAGE + 1 \in Int
      BY <2>2, <1>1, <1>4
    <3>2. SubSeq(L, p * PAGE + 1, m) = <<>> /\ q = <<>>
      BY <3>1, SubSeqEmpty
    <3> QED BY <3>2, <1>2
  <2> QED BY <2>1, <2>2, <1>1
<1>7. Upto(L, p) \in Seq(Tx)
  BY <1>1, KeptDef DEF Upto, k
<1>8. Visible(q) \in Seq(Tx)
  <2>1. Len(q) \in 0 .. Len(q)
    BY <1>1, <1>5
  <2> HIDE DEF q
  <2> QED BY <1>5, <2>1, KeptDef DEF Visible
<1>9. Kept(L)[k + (m - k)] = Kept(L)[k] \o Kept(q)[m - k]
  <2>1. m - k \in 0 .. m - k
    BY <1>1
  <2> QED BY <2>1, <1>1, KeptSplit
<1>10. k + (m - k) = m
  BY <1>1
<1>11. Upto(L, p + 1) = Upto(L, p) \o Visible(q)
  BY <1>5, <1>9, <1>10, Zenon DEF Upto, Visible, m, k
<1>12. q = <<>> => p * PAGE >= Len(L)
  <2>1. q = <<>> => Len(q) = 0
    <3> HIDE DEF q
    <3> QED OBVIOUS
  <2> QED BY <2>1, <1>1, <1>3, <1>5
<1> QED BY <1>5, <1>6, <1>7, <1>8, <1>11, <1>12

\* Nothing before the first page; everything when the pages reach the end
LEMMA UptoEnds ==
    ASSUME NEW L \in Seq(Tx)
    PROVE  /\ Upto(L, 0) = <<>>
           /\ \A p \in Nat : p * PAGE >= Len(L) => Upto(L, p) = Visible(L)
<1>1. Upto(L, 0) = <<>>
  BY CutFacts, KeptDef DEF Upto
<1>2. ASSUME NEW p \in Nat, p * PAGE >= Len(L) PROVE Upto(L, p) = Visible(L)
  <2>1. Cut(L, p) = Len(L)
    BY <1>2, CutFacts DEF Cut
  <2> QED BY <2>1 DEF Upto, Visible
<1> QED BY <1>1, <1>2

\* What is kept of the first pages is how the whole begins
LEMMA UptoPrefix ==
    ASSUME NEW L \in Seq(Tx), NEW p \in Nat
    PROVE  \E rest \in Seq(Tx) : Visible(L) = Upto(L, p) \o rest
<1> DEFINE k == Cut(L, p)
           m == Len(L)
           q == SubSeq(L, k + 1, m)
<1>1. m \in 0 .. Len(L) /\ k \in 0 .. m
  <2>1. Len(L) \in Nat
    OBVIOUS
  <2>2. Cut(L, p) \in 0 .. Len(L)
    BY CutFacts
  <2> QED BY <2>1, <2>2
<1> HIDE DEF k
<1>2. q \in Seq(Tx) /\ Len(q) = m - k
  BY <1>1, PartFacts
<1>3. Kept(q)[m - k] \in Seq(Tx)
  <2>1. m - k \in 0 .. Len(q)
    BY <1>1, <1>2
  <2> HIDE DEF q
  <2> QED BY <2>1, <1>2, KeptDef
<1>4. Kept(L)[k + (m - k)] = Kept(L)[k] \o Kept(q)[m - k]
  <2>1. m - k \in 0 .. m - k
    BY <1>1
  <2> QED BY <2>1, <1>1, KeptSplit
<1>5. k + (m - k) = m
  BY <1>1
<1>6. Visible(L) = Upto(L, p) \o Kept(q)[m - k]
  BY <1>4, <1>5, Zenon DEF Upto, Visible, k, m
<1> QED BY <1>3, <1>6

\* The asked for range of a longer list: what it is of the shorter one and
\* what the fetch lambda appends of the new part
LEMMA SliceConcat ==
    ASSUME NEW A \in Seq(Tx), NEW B \in Seq(Tx), NEW f \in Nat, NEW l \in Nat
    PROVE  /\ Slice(A, f, l) \in Seq(Tx)
           /\ Slice(A \o B, f, l) = Slice(A, f, l) \o Wanted(B, Len(A) + Len(B), f, l)
           /\ Len(A) >= l => Slice(A \o B, f, l) = Slice(A, f, l)
<1> DEFINE a == Len(A)
           b == Len(B)
           C == A \o B
           drop(n) == IF n >= a + b THEN 0 ELSE IF (a + b) - n < b THEN (a + b) - n ELSE b
           la == IF l < a THEN l ELSE a
           lc == IF l < a + b THEN l ELSE a + b
           u == b - drop(f) + 1
           v == b - drop(l)
           X == SubSeq(A, f + 1, la)
           Y == SubSeq(B, u, v)
           Z == SubSeq(C, f + 1, lc)
<1>1. a \in Nat /\ b \in Nat
  OBVIOUS
<1>2. /\ C \in Seq(Tx) /\ Len(C) = a + b
      /\ \A i \in 1 .. a + b : C[i] = IF i <= a THEN A[i] ELSE B[i - a]
  BY ConcatProperties
<1>3. Slice(A, f, l) = X /\ Wanted(B, Len(A) + Len(B), f, l) = Y /\ Slice(C, f, l) = Z
  <2>1. Slice(A, f, l) = X
    BY DEF Slice
  <2>2. Slice(C, f, l) = Z
    <3>1. Slice(C, f, l) = SubSeq(C, f + 1, IF l < Len(C) THEN l ELSE Len(C))
      BY DEF Slice
    <3> QED BY <3>1, <1>2
  <2>3. Wanted(B, Len(A) + Len(B), f, l) = Y
    BY Zenon DEF Wanted
  <2> QED BY <2>1, <2>2, <2>3
<1>i. f + 1 \in Int /\ la \in Int /\ lc \in Int /\ u \in Int /\ v \in Int /\ u >= 1 /\ v <= b /\ la <= a /\ lc <= a + b
  BY <1>1
<1>l. /\ la = IF l < a THEN l ELSE a
      /\ lc = IF l < a + b THEN l ELSE a + b
      /\ u = IF f >= a + b THEN b + 1 ELSE IF f > a THEN f - a + 1 ELSE 1
      /\ v = IF l >= a + b THEN b ELSE IF l > a THEN l - a ELSE 0
  <2> DEFINE d(n) == IF n >= a + b THEN 0 ELSE IF n > a THEN a + b - n ELSE b
  <2>1. drop(f) = d(f) /\ drop(l) = d(l)
    <3> HIDE DEF a, b
    <3> QED BY <1>1
  <2>2. u = b - drop(f) + 1 /\ v = b - drop(l)
    OBVIOUS
  <2> HIDE DEF a, b, u, v, drop
  <2> QED BY <1>1, <2>1, <2>2
<1>n. \A i \in 1 .. a : A[i] \in Tx
  OBVIOUS
<1>m. \A i \in 1 .. b : B[i] \in Tx
  OBVIOUS
<1>o. \A i \in 1 .. a + b : C[i] \in Tx
  BY <1>2
<1> HIDE DEF a, b, C, la, lc, u, v
<1>4. /\ X \in Seq(Tx) /\ Len(X) = (IF f + 1 <= la THEN la - f ELSE 0)
      /\ \A i \in 1 .. la - f : X[i] = A[f + i]
  <2>1. \A i \in f + 1 .. la : A[i] \in Tx
    BY <1>i, <1>n, <1>1
  <2>2. /\ X \in Seq(Tx) /\ Len(X) = (IF f + 1 <= la THEN la - (f + 1) + 1 ELSE 0)
        /\ \A i \in 1 .. la - (f + 1) + 1 : X[i] = A[(f + 1) + i - 1]
    BY <1>i, <2>1, SubSeqProperties
  <2>3. la - (f + 1) + 1 = la - f /\ \A i \in 1 .. la - f : (f + 1) + i - 1 = f + i
    BY <1>i
  <2> HIDE DEF X
  <2> QED BY <2>2, <2>3
<1>5. /\ Z \in Seq(Tx) /\ Len(Z) = (IF f + 1 <= lc THEN lc - f ELSE 0)
      /\ \A i \in 1 .. lc - f : Z[i] = C[f + i]
  <2>1. \A i \in f + 1 .. lc : C[i] \in Tx
    BY <1>i, <1>o, <1>1
  <2>2. /\ Z \in Seq(Tx) /\ Len(Z) = (IF f + 1 <= lc THEN lc - (f + 1) + 1 ELSE 0)
        /\ \A i \in 1 .. lc - (f + 1) + 1 : Z[i] = C[(f + 1) + i - 1]
    BY <1>i, <2>1, SubSeqProperties
  <2>3. lc - (f + 1) + 1 = lc - f /\ \A i \in 1 .. lc - f : (f + 1) + i - 1 = f + i
    BY <1>i
  <2> HIDE DEF Z
  <2> QED BY <2>2, <2>3
<1>6. /\ Y \in Seq(Tx) /\ Len(Y) = (IF u <= v THEN v - u + 1 ELSE 0)
      /\ \A i \in 1 .. v - u + 1 : Y[i] = B[u + i - 1]
  <2>1. \A i \in u .. v : B[i] \in Tx
    BY <1>i, <1>m, <1>1
  <2> QED BY <1>i, <2>1, SubSeqProperties
<1> HIDE DEF X, Y, Z
<1>7. /\ X \o Y \in Seq(Tx) /\ Len(X \o Y) = Len(X) + Len(Y)
      /\ \A i \in 1 .. Len(X) + Len(Y) : (X \o Y)[i] = IF i <= Len(X) THEN X[i] ELSE Y[i - Len(X)]
  BY <1>4, <1>6, ConcatProperties
<1>8. Len(Z) = Len(X) + Len(Y)
  <2>1. PICK x, y, z : x = Len(X) /\ y = Len(Y) /\ z = Len(Z)
    OBVIOUS
  <2>2. /\ x = (IF f + 1 <= la THEN la - f ELSE 0)
        /\ y = (IF u <= v THEN v - u + 1 ELSE 0)
        /\ z = (IF f + 1 <= lc THEN lc - f ELSE 0)
    BY <2>1, <1>4, <1>5, <1>6
  <2>3. CASE l <= a
    <3>1. la = l /\ lc = l /\ v < u
      BY <2>3, <1>1, <1>l
    <3> QED BY <2>1, <2>2, <3>1, <1>1, <1>i
  <2>4. CASE l > a
    <3>1. la = a /\ lc = a + v
      BY <2>4, <1>1, <1>l
    <3>2. CASE f <= a
      <4>1. u = 1
        BY <3>2, <1>1, <1>l
      <4>2. v >= 0
        BY <2>4, <1>1, <1>l
      <4> QED BY <2>1, <2>2, <3>1, <3>2, <4>1, <4>2, <1>1, <1>i
    <3>3. CASE f > a
      <4>1. u = IF f >= a + b THEN b + 1 ELSE f - a + 1
        BY <3>3, <1>1, <1>l
      <4> QED BY <2>1, <2>2, <3>1, <3>3, <4>1, <1>1, <1>i
    <3> QED BY <3>2, <3>3, <1>1
  <2> QED BY <2>3, <2>4, <1>1
<1>9. ASSUME NEW i \in 1 .. Len(Z) PROVE Z[i] = (X \o Y)[i]
  <2>0. Len(X) \in Nat /\ Len(Y) \in Nat
    BY <1>4, <1>6
  <2>1. f + 1 <= lc /\ i \in 1 .. lc - f /\ f + i \in 1 .. a + b
    BY <1>9, <1>5, <1>i, <1>1
  <2>2. Z[i] = IF f + i <= a THEN A[f + i] ELSE B[f + i - a]
    BY <2>1, <1>2, <1>5, <1>1
  <2>3. CASE i <= Len(X)
    <3>1. i \in 1 .. la - f /\ f + i <= a
      BY <2>0, <2>3, <1>4, <1>i, <1>1
    <3>2. (X \o Y)[i] = X[i] /\ X[i] = A[f + i]
      BY <3>1, <2>3, <2>0, <1>4, <1>7, <1>8
    <3> QED BY <3>1, <3>2, <2>2
  <2>4. CASE i > Len(X)
    <3>1. i - Len(X) \in 1 .. v - u + 1 /\ f + i > a /\ u + (i - Len(X)) - 1 = f + i - a
      BY <2>0, <2>1, <2>4, <1>4, <1>6, <1>8, <1>i, <1>l, <1>1
    <3>2. (X \o Y)[i] = Y[i - Len(X)]
      BY <2>4, <2>0, <1>7, <1>8
    <3>3. Y[i - Len(X)] = B[u + (i - Len(X)) - 1]
      BY <3>1, <1>6
    <3>4. Y[i - Len(X)] = B[f + i - a]
      BY <3>1, <3>3, Zenon
    <3> QED BY <3>1, <3>2, <3>4, <2>1, <2>2, <1>1
  <2>5. i <= Len(X) \/ i > Len(X)
    BY <2>0, <2>1, <1>1, <1>i
  <2> QED BY <2>3, <2>4, <2>5, Zenon
<1>10. Z = X \o Y
  BY <1>5, <1>7, <1>8, <1>9, SeqEqual
<1>11. a >= l => Z = X
  <2> SUFFICES ASSUME a >= l PROVE Z = X
    OBVIOUS
  <2>1. Len(Y) = 0
    BY <1>1, <1>i, <1>l, <1>6
  <2>2. Len(Z) = Len(X) /\ \A i \in 1 .. Len(Z) : Z[i] = X[i]
    <3>1. Len(X) \in Nat /\ Len(Z) = Len(X)
      BY <2>1, <1>4, <1>8
    <3>2. ASSUME NEW i \in 1 .. Len(Z) PROVE Z[i] = X[i]
      <4>1. i \in 1 .. Len(X) + Len(Y) /\ i <= Len(X)
        BY <3>1, <3>2, <2>1
      <4> QED BY <4>1, <3>2, <1>7, <1>9
    <3> QED BY <3>1, <3>2
  <2> QED BY <2>2, <1>4, <1>5, SeqEqual
<1> QED BY <1>3, <1>4, <1>10, <1>11 DEF C, a

-----------------------------------------------------------------------------
(* What a cache and a call know of the list, as predicates on values, and the*)
(* steps of tx_list_cache::get on them                                     *)

Filling(c) == c.pc \in {"fill", "fill_reply"}
Spilling(c) == c.pc \in {"spill", "spill_reply"}
NoneHidden(L) == \A p \in 0 .. Len(L) : Page(L, p) # <<>> => Visible(Page(L, p)) # <<>>

\* The cache object r of a subaccount whose list is L, in its e-th edition
CacheGood(r, L, e, filling) ==
    /\ \A ed \in r.eds : ed <= e
    /\ r.eds = {} => r.txs = <<>> /\ r.next = 0 /\ r.firstEmpty = NoPage
    /\ r.eds \subseteq {e} =>
         /\ r.firstEmpty # NoPage => Visible(Page(L, r.firstEmpty)) = <<>>
         /\ r.torn \/ filling \/ r.txs = Upto(L, r.next)
\* A call that fills it
FillGood(c, r, L, e) ==
    /\ c.used = r.eds /\ c.torn = r.torn /\ c.fetched = Len(r.txs)
    /\ c.used = {} => c.page = 0
    /\ c.used \subseteq {e} /\ ~c.torn => r.txs = Upto(L, c.page)
\* A call that has left the first loop
SpillGood(c, r, L, e) ==
    /\ r.eds \subseteq c.used /\ c.torn = r.torn
    /\ c.used = {} => c.page = 0 /\ c.fetched = 0 /\ c.result = <<>>
    /\ c.used \subseteq {e} /\ ~c.torn =>
         /\ c.fetched = Len(Upto(L, c.page))
         /\ c.result = Slice(Upto(L, c.page), c.first, c.last)
ReplyGood(c, L, e) ==
    /\ c.replyEd <= e
    /\ c.replyEd = e => c.reply = Visible(Page(L, c.page))
DoneGood(c, L, e) ==
    c.used \subseteq {e} /\ c.used # {} /\ ~c.torn /\ NoneHidden(L)
        => c.result = Slice(Visible(L), c.first, c.last)
CallGood(c, r, L, e) ==
    /\ \A ed \in c.used : ed <= e
    /\ Filling(c) => FillGood(c, r, L, e)
    /\ Spilling(c) => SpillGood(c, r, L, e)
    /\ Reading(c) => ReplyGood(c, L, e)
    /\ c.pc = "done" => DoneGood(c, L, e)

\* The list changed: nothing held is of the new edition
LEMMA CacheChanged ==
    ASSUME NEW r \in CacheRecord, NEW L, NEW e \in Nat, NEW filling \in BOOLEAN, CacheGood(r, L, e, filling),
           NEW M \in Seq(Tx), NEW d \in Nat, e < d
    PROVE  CacheGood(r, M, d, filling)
<1>1. r.eds \in SUBSET Nat
  BY DEF CacheRecord
<1>2. \A ed \in r.eds : ed <= e /\ ed < d
  BY <1>1 DEF CacheGood
<1>3. r.eds \subseteq {d} => r.eds = {}
  BY <1>1, <1>2
<1>4. r.eds = {} => r.txs = Upto(M, r.next) /\ r.firstEmpty = NoPage
  BY UptoEnds DEF CacheGood
<1>5. \A ed \in r.eds : ed <= d
  BY <1>1, <1>2
<1> QED BY <1>3, <1>4, <1>5 DEF CacheGood

\* What a call has read is not of the new edition either
LEMMA CallChanged ==
    ASSUME NEW c \in CallRecord, NEW r, NEW L, NEW e \in Nat, CallGood(c, r, L, e),
           Filling(c) => CacheGood(r, L, e, TRUE),
           NEW M \in Seq(Tx), NEW d \in Nat, e < d
    PROVE  CallGood(c, r, M, d)
<1>1. c.used \in SUBSET Nat /\ c.replyEd \in Nat /\ c.first \in Nat /\ c.last \in Nat
  BY SizesAssumption DEF CallRecord
<1>2. \A ed \in c.used : ed <= d /\ ed < d
  BY <1>1 DEF CallGood
<1>3. c.used \subseteq {d} => c.used = {}
  BY <1>1, <1>2
<1>4. Upto(M, 0) = <<>> /\ Slice(<<>>, c.first, c.last) = <<>> /\ Len(<<>>) = 0
  <2>1. Upto(M, 0) = <<>>
    BY UptoEnds
  <2>2. Slice(<<>>, c.first, c.last) = <<>>
    <3>1. Slice(<<>>, c.first, c.last) = SubSeq(<<>>, c.first + 1, 0)
      BY <1>1 DEF Slice
    <3> QED BY <3>1, <1>1, SubSeqEmpty
  <2> QED BY <2>1, <2>2
<1>5. Filling(c) => FillGood(c, r, M, d)
  BY <1>3, <1>4 DEF CallGood, FillGood, CacheGood
<1>6. Spilling(c) => SpillGood(c, r, M, d)
  BY <1>3, <1>4 DEF CallGood, SpillGood
<1>7. Reading(c) => ReplyGood(c, M, d)
  BY <1>1 DEF CallGood, ReplyGood
<1>8. DoneGood(c, M, d)
  BY <1>3 DEF DoneGood
<1> QED BY <1>2, <1>5, <1>6, <1>7, <1>8 DEF CallGood

\* A new object is good for any list
LEMMA EmptyGood ==
    ASSUME NEW L \in Seq(Tx), NEW e \in Nat
    PROVE  CacheGood(EmptyCache, L, e, FALSE)
BY UptoEnds DEF CacheGood, EmptyCache

\* The step that takes the mutex
LEMMA LockGood ==
    ASSUME NEW r, NEW L, NEW e, CacheGood(r, L, e, FALSE),
           NEW c, NEW s,
           c.pc = "fill", c.page = r.next, c.fetched = Len(r.txs), c.used = r.eds, c.torn = r.torn,
           s.txs = r.txs, s.next = r.next, s.firstEmpty = r.firstEmpty, s.eds = r.eds, s.torn = r.torn
    PROVE  CacheGood(s, L, e, TRUE) /\ CallGood(c, s, L, e)
<1>1. CacheGood(s, L, e, TRUE)
  BY DEF CacheGood
<1>2. FillGood(c, s, L, e)
  BY DEF CacheGood, FillGood
<1>3. \A ed \in c.used : ed <= e
  BY DEF CacheGood
<1> QED BY <1>1, <1>2, <1>3 DEF CallGood, Filling, Spilling, Reading

\* A page goes into the cache
LEMMA FillStepGood ==
    ASSUME NEW L \in Seq(Tx), NEW e \in Nat, NEW r \in CacheRecord, CacheGood(r, L, e, TRUE),
           NEW b \in CallRecord, b.pc = "fill_reply", CallGood(b, r, L, e),
           NEW c, NEW s,
           c.pc = "fill", c.page = b.page + 1, c.fetched = b.fetched + Len(b.reply),
           c.used = b.used \cup {b.replyEd}, c.torn = b.torn,
           s.txs = r.txs \o b.reply, s.eds = r.eds \cup {b.replyEd}, s.torn = r.torn,
           s.firstEmpty = IF b.reply = <<>> THEN b.page ELSE r.firstEmpty
    PROVE  CacheGood(s, L, e, TRUE) /\ CallGood(c, s, L, e)
<1>1. /\ b.replyEd \in Nat /\ b.reply \in Seq(Tx) /\ b.page \in Nat /\ b.torn \in BOOLEAN
      /\ r.txs \in Seq(Tx) /\ r.eds \in SUBSET Nat
  BY DEF CallRecord, CacheRecord
<1>2. FillGood(b, r, L, e) /\ ReplyGood(b, L, e)
  BY DEF CallGood, Filling, Reading
<1>3. \A ed \in s.eds : ed <= e
  BY <1>2 DEF CacheGood, ReplyGood
<1>4. s.eds \subseteq {e} => r.eds \subseteq {e} /\ b.replyEd = e
  OBVIOUS
<1>5. CacheGood(s, L, e, TRUE)
  BY <1>2, <1>3, <1>4 DEF CacheGood, ReplyGood
<1>6. c.used = s.eds /\ c.torn = s.torn /\ c.used # {}
  BY <1>2 DEF FillGood
<1>7. c.fetched = Len(s.txs)
  BY <1>1, <1>2, ConcatProperties DEF FillGood
<1>8. c.used \subseteq {e} /\ ~c.torn => s.txs = Upto(L, c.page)
  <2> SUFFICES ASSUME c.used \subseteq {e}, ~c.torn PROVE s.txs = Upto(L, c.page)
    OBVIOUS
  <2>1. r.txs = Upto(L, b.page)
    BY <1>2 DEF FillGood
  <2>2. b.reply = Visible(Page(L, b.page))
    BY <1>2 DEF ReplyGood
  <2>3. Upto(L, b.page + 1) = Upto(L, b.page) \o Visible(Page(L, b.page))
    BY <1>1, UptoNext
  <2> QED BY <2>1, <2>2, <2>3
<1>9. FillGood(c, s, L, e)
  BY <1>6, <1>7, <1>8 DEF FillGood
<1> QED BY <1>3, <1>5, <1>6, <1>9 DEF CallGood, Filling, Spilling, Reading

\* The page number is recorded and the cached part starts the result
LEMMA StartGood ==
    ASSUME NEW L \in Seq(Tx), NEW e \in Nat, NEW r \in CacheRecord, CacheGood(r, L, e, TRUE),
           NEW b \in CallRecord, b.pc = "fill", CallGood(b, r, L, e),
           NEW s,
           s.txs = r.txs, s.next = b.page, s.firstEmpty = r.firstEmpty, s.eds = r.eds, s.torn = r.torn
    PROVE  /\ CacheGood(s, L, e, FALSE)
           /\ \A c : /\ c.pc = "spill" /\ c.page = b.page /\ c.fetched = b.fetched
                     /\ c.used = b.used /\ c.torn = b.torn /\ c.first = b.first /\ c.last = b.last
                     /\ c.result = Slice(r.txs, b.first, b.last)
                     => CallGood(c, s, L, e)
<1>1. /\ b.first \in Nat /\ b.last \in Nat /\ b.torn \in BOOLEAN
      /\ r.txs \in Seq(Tx) /\ r.eds \in SUBSET Nat
  BY SizesAssumption DEF CallRecord, CacheRecord
<1>2. FillGood(b, r, L, e) /\ \A ed \in b.used : ed <= e
  BY DEF CallGood, Filling
<1>3. CacheGood(s, L, e, FALSE)
  BY <1>2 DEF CacheGood, FillGood
<1>4. ASSUME NEW c, c.pc = "spill", c.page = b.page, c.fetched = b.fetched,
             c.used = b.used, c.torn = b.torn, c.first = b.first, c.last = b.last,
             c.result = Slice(r.txs, b.first, b.last)
      PROVE  CallGood(c, s, L, e)
  <2>1. r.eds = {} => c.page = 0 /\ c.fetched = 0 /\ c.result = <<>>
    <3> SUFFICES ASSUME r.eds = {} PROVE c.page = 0 /\ c.fetched = 0 /\ c.result = <<>>
      OBVIOUS
    <3>1. r.txs = <<>> /\ Len(<<>>) = 0
      BY DEF CacheGood
    <3>2. Slice(<<>>, b.first, b.last) = SubSeq(<<>>, b.first + 1, 0)
      BY <1>1 DEF Slice
    <3>3. SubSeq(<<>>, b.first + 1, 0) = <<>>
      BY <1>1, SubSeqEmpty
    <3> QED BY <1>2, <1>4, <3>1, <3>2, <3>3 DEF FillGood
  <2>2. SpillGood(c, s, L, e)
    BY <1>2, <1>4, <2>1 DEF FillGood, SpillGood
  <2> QED BY <1>2, <1>4, <2>2 DEF CallGood, Filling, Spilling, Reading
<1> QED BY <1>3, <1>4

\* What the fetch lambda appends is a list of transactions
LEMMA WantedType ==
    ASSUME NEW B \in Seq(Tx), NEW n \in Nat, NEW f \in Nat, NEW l \in Nat
    PROVE  Wanted(B, n, f, l) \in Seq(Tx)
<1> DEFINE drop(i) == IF i >= n THEN 0 ELSE IF n - i < Len(B) THEN n - i ELSE Len(B)
           u == Len(B) - drop(f) + 1
           v == Len(B) - drop(l)
<1>1. u \in Int /\ v \in Int /\ \A i \in u .. v : i \in 1 .. Len(B)
  <2>1. PICK b \in Nat : b = Len(B)
    OBVIOUS
  <2> QED BY <2>1
<1>2. \A i \in u .. v : B[i] \in Tx
  BY <1>1
<1>3. Wanted(B, n, f, l) = SubSeq(B, u, v)
  BY Zenon DEF Wanted
<1> HIDE DEF u, v
<1> QED BY <1>1, <1>2, <1>3, SubSeqProperties

\* SliceConcat for any lists and ranges
LEMMA SliceGrows ==
    \A A, B \in Seq(Tx), f, l \in Nat :
        Slice(A \o B, f, l) = Slice(A, f, l) \o Wanted(B, Len(A) + Len(B), f, l)
BY SliceConcat

\* A page goes into the result
LEMMA SpillStepGood ==
    ASSUME NEW L \in Seq(Tx), NEW e \in Nat, NEW r \in CacheRecord, CacheGood(r, L, e, FALSE),
           NEW b \in CallRecord, b.pc = "spill_reply", CallGood(b, r, L, e),
           NEW c, NEW s,
           c.pc = "spill", c.page = b.page + 1, c.fetched = b.fetched + Len(b.reply),
           c.used = b.used \cup {b.replyEd}, c.torn = b.torn, c.first = b.first, c.last = b.last,
           c.result = b.result \o Wanted(b.reply, b.fetched + Len(b.reply), b.first, b.last),
           s.txs = r.txs, s.next = r.next, s.torn = r.torn,
           s.eds = IF b.reply = <<>> THEN r.eds \cup {b.replyEd} ELSE r.eds,
           s.firstEmpty = IF b.reply = <<>> THEN b.page ELSE r.firstEmpty
    PROVE  CacheGood(s, L, e, FALSE) /\ CallGood(c, s, L, e)
<1>1. /\ b.replyEd \in Nat /\ b.reply \in Seq(Tx) /\ b.page \in Nat /\ b.torn \in BOOLEAN
      /\ r.txs \in Seq(Tx) /\ r.eds \in SUBSET Nat /\ b.first \in Nat /\ b.last \in Nat
  BY SizesAssumption DEF CallRecord, CacheRecord
<1>2. SpillGood(b, r, L, e) /\ ReplyGood(b, L, e) /\ \A ed \in b.used : ed <= e
  BY DEF CallGood, Spilling, Reading
<1>3. \A ed \in c.used : ed <= e
  BY <1>2 DEF ReplyGood
<1>4. CacheGood(s, L, e, FALSE)
  <2>1. CASE b.reply = <<>>
    <3>1. s.eds = r.eds \cup {b.replyEd} /\ s.firstEmpty = b.page
      BY <2>1
    <3>2. s.eds \subseteq {e} => r.eds \subseteq {e} /\ b.replyEd = e
      BY <3>1
    <3>3. \A ed \in s.eds : ed <= e
      BY <3>1, <1>2 DEF CacheGood, ReplyGood
    <3> QED BY <2>1, <3>1, <3>2, <3>3, <1>2 DEF CacheGood, ReplyGood
  <2>2. CASE b.reply # <<>>
    BY <2>2 DEF CacheGood
  <2> QED BY <2>1, <2>2
<1>5. s.eds \subseteq c.used /\ c.torn = s.torn /\ c.used # {}
  BY <1>2 DEF SpillGood
<1>6. c.used \subseteq {e} /\ ~c.torn =>
         /\ c.fetched = Len(Upto(L, c.page))
         /\ c.result = Slice(Upto(L, c.page), c.first, c.last)
  <2> SUFFICES ASSUME c.used \subseteq {e}, ~c.torn
               PROVE  /\ c.fetched = Len(Upto(L, c.page))
                      /\ c.result = Slice(Upto(L, c.page), c.first, c.last)
    OBVIOUS
  <2>1. PICK A, B : A = Upto(L, b.page) /\ B = Visible(Page(L, b.page))
    OBVIOUS
  <2>2. b.fetched = Len(A) /\ b.result = Slice(A, b.first, b.last)
    BY <1>2, <2>1 DEF SpillGood
  <2>3. b.reply = B
    BY <1>2, <2>1 DEF ReplyGood
  <2>4. A \in Seq(Tx) /\ B \in Seq(Tx) /\ Upto(L, b.page + 1) = A \o B
    BY <1>1, <2>1, UptoNext
  <2>5. Slice(A \o B, b.first, b.last)
           = Slice(A, b.first, b.last) \o Wanted(B, Len(A) + Len(B), b.first, b.last)
    <3>1. PICK f \in Nat, l \in Nat : f = b.first /\ l = b.last
      BY <1>1
    <3>2. Slice(A \o B, f, l) = Slice(A, f, l) \o Wanted(B, Len(A) + Len(B), f, l)
      <4>1. A \in Seq(Tx) /\ B \in Seq(Tx)
        BY <2>4
      <4> QED BY <4>1, SliceGrows, Zenon
    <3> QED BY <3>1, <3>2
  <2>6. Len(A \o B) = Len(A) + Len(B)
    BY <2>4, ConcatProperties
  <2> QED BY <2>2, <2>3, <2>4, <2>5, <2>6
<1>7. SpillGood(c, s, L, e)
  BY <1>5, <1>6 DEF SpillGood
<1> QED BY <1>3, <1>4, <1>7 DEF CallGood, Filling, Spilling, Reading

\* Neither loop has more to do: the result is the range that was asked for
LEMMA DoneStepGood ==
    ASSUME NEW L \in Seq(Tx), Len(L) <= NoPage * PAGE, NEW e \in Nat,
           NEW r \in CacheRecord, CacheGood(r, L, e, FALSE),
           NEW b \in CallRecord, b.pc = "spill", CallGood(b, r, L, e), ~More(b, r),
           NEW c, c.pc = "done", c.used = b.used, c.torn = b.torn, c.first = b.first,
           c.last = b.last, c.result = b.result
    PROVE  CallGood(c, EmptyCache, L, e)
<1>1. /\ b.page \in Nat /\ b.torn \in BOOLEAN /\ b.fetched \in Nat
      /\ b.first \in Nat /\ b.last \in Nat /\ r.firstEmpty \in Nat /\ PAGE \in Nat /\ NoPage \in Nat
  <2>1. U32 \in Nat \ {0} /\ PAGE \in Nat
    BY SizesAssumption
  <2>2. NoPage \in Nat
    BY <2>1 DEF NoPage
  <2>3. b.page \in Nat /\ b.torn \in BOOLEAN /\ b.fetched \in Nat /\ b.first \in Nat
    BY DEF CallRecord
  <2>4. b.last \in 0 .. U32 - 1
    BY DEF CallRecord
  <2>5. b.last \in Nat
    BY <2>1, <2>4
  <2>6. r.firstEmpty \in Nat
    BY DEF CacheRecord
  <2> QED BY <2>1, <2>2, <2>3, <2>5, <2>6
<1>2. SpillGood(b, r, L, e) /\ \A ed \in b.used : ed <= e
  BY DEF CallGood, Spilling
<1>3. ASSUME b.used \subseteq {e}, ~b.torn, NoneHidden(L)
      PROVE  b.result = Slice(Visible(L), b.first, b.last)
  <2>0. b.fetched = Len(Upto(L, b.page)) /\ b.result = Slice(Upto(L, b.page), b.first, b.last)
    BY <1>2, <1>3 DEF SpillGood
  <2>1. CASE b.fetched >= b.last
    <3>1. PICK A \in Seq(Tx), B \in Seq(Tx) : A = Upto(L, b.page) /\ Visible(L) = A \o B
      BY <1>1, UptoPrefix, UptoNext
    <3>2. Slice(A \o B, b.first, b.last) = Slice(A, b.first, b.last)
      BY <1>1, <2>0, <2>1, <3>1, SliceConcat
    <3> QED BY <2>0, <3>1, <3>2
  <2>2. CASE b.page >= r.firstEmpty
    <3>1. r.firstEmpty * PAGE >= Len(L)
      <4>1. CASE r.firstEmpty = NoPage
        BY <4>1
      <4>2. CASE r.firstEmpty # NoPage
        <5>1. Visible(Page(L, r.firstEmpty)) = <<>>
          BY <1>2, <1>3, <4>2 DEF CacheGood, SpillGood
        <5>2. CASE r.firstEmpty \in 0 .. Len(L)
          BY <5>1, <5>2, <1>1, <1>3, UptoNext DEF NoneHidden
        <5>3. CASE r.firstEmpty > Len(L)
          <6>1. PICK k \in Nat : k = r.firstEmpty
            BY <1>1
          <6>2. k * PAGE >= k
            BY SizesAssumption, <6>1
          <6>3. k * PAGE \in Nat /\ Len(L) \in Nat
            BY <1>1, <6>1
          <6> QED BY <5>3, <6>1, <6>2, <6>3
        <5>4. Len(L) \in Nat
          OBVIOUS
        <5> QED BY <5>2, <5>3, <5>4, <1>1
      <4> QED BY <4>1, <4>2
    <3>2. b.page * PAGE >= Len(L)
      <4>1. PICK i \in Nat, j \in Nat, k \in Nat : i = r.firstEmpty /\ j = b.page /\ k = j - i
        BY <2>2, <1>1
      <4>2. j * PAGE = i * PAGE + k * PAGE
        <5>1. PICK P \in Nat : P = PAGE
          BY <1>1
        <5>2. (i + k) * P = i * P + k * P
          OBVIOUS
        <5>3. i + k = j
          BY <4>1
        <5> QED BY <5>1, <5>2, <5>3
      <4>3. i * PAGE \in Nat /\ k * PAGE \in Nat /\ j * PAGE \in Nat /\ Len(L) \in Nat
        <5>1. i * PAGE \in Nat
          BY CutFacts
        <5>2. k * PAGE \in Nat
          BY CutFacts
        <5>3. j * PAGE \in Nat
          BY CutFacts
        <5> QED BY <5>1, <5>2, <5>3
      <4>4. PICK x, y, z : x = i * PAGE /\ y = k * PAGE /\ z = j * PAGE
        OBVIOUS
      <4>5. x \in Nat /\ y \in Nat /\ z \in Nat /\ z = x + y /\ x >= Len(L)
        BY <3>1, <4>1, <4>2, <4>3, <4>4
      <4>6. z >= Len(L)
        BY <4>3, <4>5
      <4> QED BY <4>1, <4>4, <4>6
    <3> QED BY <3>2, <2>0, <1>1, UptoEnds
  <2> QED BY <2>1, <2>2, <1>1 DEF More
<1>4. DoneGood(c, L, e)
  BY <1>3 DEF DoneGood
<1> QED BY <1>2, <1>4 DEF CallGood, Filling, Spilling, Reading

-----------------------------------------------------------------------------
(* The steps of a call, as changes of its record and of its cache          *)

\* The call of t becomes c and its cache r; nothing else moves
Moves(t, c, r) ==
    /\ thr' = [thr EXCEPT ![t] = c] /\ objs' = [objs EXCEPT ![thr[t].obj] = r]
    /\ thr[t].obj \in Obj /\ c.obj = thr[t].obj /\ c.sa = thr[t].sa
    /\ UNCHANGED <<server, link, memo, m_caches, purgedAt, lost>>

\* What is known of a call that has its cache
LEMMA CallTypes ==
    ASSUME IInv, TypeOK, NEW t \in Callers,
           thr[t].pc \in {"lock", "fill", "fill_reply", "spill", "spill_reply"}
    PROVE  /\ thr[t] \in CallRecord /\ thr[t].obj \in Obj /\ thr[t].obj # NoObj
           /\ objs[thr[t].obj] \in CacheRecord
           /\ thr[t].sa \in Subaccounts
           /\ txlist[thr[t].sa] \in Seq(Tx) /\ edition[thr[t].sa] \in Nat
<1>1. thr[t] \in CallRecord
  BY DEF TypeOK
<1>2. thr[t].obj \in Obj /\ thr[t].obj # NoObj /\ thr[t].sa \in Subaccounts
  BY NoObjAssumption DEF IInv, Caches, Shapes, CallShape
<1> QED BY <1>1, <1>2 DEF TypeOK

\* tx_list_cache::get takes the mutex and reads the state of the cache
LEMMA LockMoves ==
    ASSUME IInv, TypeOK, NEW t \in Callers, LockCache(t)
    PROVE  \E c \in CallRecord, r \in CacheRecord :
        /\ Moves(t, c, r)
        /\ thr[t].pc = "lock" /\ ~objs[thr[t].obj].locked /\ r.locked
        /\ c.pc = "fill" /\ c.page = objs[thr[t].obj].next /\ c.fetched = Len(objs[thr[t].obj].txs)
        /\ c.used = objs[thr[t].obj].eds /\ c.torn = objs[thr[t].obj].torn
        /\ r.txs = objs[thr[t].obj].txs /\ r.next = objs[thr[t].obj].next
        /\ r.firstEmpty = objs[thr[t].obj].firstEmpty
        /\ r.eds = objs[thr[t].obj].eds /\ r.torn = objs[thr[t].obj].torn
<1>1. PICK b, o : b = thr[t] /\ o = objs[b.obj]
  OBVIOUS
<1>2. b.pc = "lock" /\ ~o.locked /\ b \in CallRecord /\ b.obj \in Obj /\ o \in CacheRecord
  BY <1>1, CallTypes DEF LockCache
<1>3. PICK c : c = [b EXCEPT !.pc = "fill", !.page = o.next, !.fetched = Len(o.txs),
                             !.used = o.eds, !.torn = o.torn]
  OBVIOUS
<1>4. PICK r : r = [o EXCEPT !.locked = TRUE]
  OBVIOUS
<1>5. c \in CallRecord /\ c.pc = "fill" /\ c.page = o.next /\ c.fetched = Len(o.txs)
        /\ c.used = o.eds /\ c.torn = o.torn /\ c.obj = b.obj /\ c.sa = b.sa
  <2>1. o.next \in Nat /\ Len(o.txs) \in Nat /\ o.eds \in SUBSET Nat /\ o.torn \in BOOLEAN
    BY <1>2 DEF CacheRecord
  <2> QED BY <1>2, <1>3, <2>1 DEF CallRecord
<1>6. r \in CacheRecord /\ r.locked /\ r.txs = o.txs /\ r.next = o.next
        /\ r.firstEmpty = o.firstEmpty /\ r.eds = o.eds /\ r.torn = o.torn
  BY <1>2, <1>4 DEF CacheRecord
<1>7. Moves(t, c, r)
  BY <1>1, <1>2, <1>3, <1>4, <1>5 DEF LockCache, SetCall, Moves
<1> QED BY <1>1, <1>2, <1>5, <1>6, <1>7

\* A fetch gets the page as the list is at that moment
LEMMA ReadMoves ==
    ASSUME IInv, TypeOK, NEW t \in Callers, ReadPage(t)
    PROVE  \E c \in CallRecord :
        /\ Moves(t, c, objs[thr[t].obj])
        /\ \/ thr[t].pc = "fill" /\ c.pc = "fill_reply"
           \/ thr[t].pc = "spill" /\ c.pc = "spill_reply"
        /\ c.reply = Visible(Page(txlist[thr[t].sa], thr[t].page)) /\ c.replyEd = edition[thr[t].sa]
        /\ c.page = thr[t].page /\ c.fetched = thr[t].fetched /\ c.used = thr[t].used
        /\ c.torn = thr[t].torn /\ c.first = thr[t].first /\ c.last = thr[t].last
        /\ c.result = thr[t].result
<1>1. PICK b, L, e : b = thr[t] /\ L = txlist[thr[t].sa] /\ e = edition[thr[t].sa]
  OBVIOUS
<1>2. b.pc \in {"fill", "spill"} /\ b \in CallRecord /\ b.obj \in Obj /\ L \in Seq(Tx) /\ e \in Nat
  <2>1. b.pc \in {"fill", "spill"}
    BY <1>1 DEF ReadPage, Fetches
  <2> QED BY <1>1, <2>1, CallTypes
<1>3. PICK v : v = Visible(Page(L, b.page))
  OBVIOUS
<1>4. v \in Seq(Tx)
  <2>1. b.page \in Nat
    BY <1>2 DEF CallRecord
  <2> QED BY <1>2, <1>3, <2>1, UptoNext
<1>5. PICK c : c = [b EXCEPT !.pc = IF @ = "fill" THEN "fill_reply" ELSE "spill_reply",
                            !.reply = v, !.replyEd = e]
  OBVIOUS
<1>6. c \in CallRecord /\ c.reply = v /\ c.replyEd = e /\ c.obj = b.obj /\ c.sa = b.sa
        /\ c.page = b.page /\ c.fetched = b.fetched /\ c.used = b.used
        /\ c.torn = b.torn /\ c.first = b.first /\ c.last = b.last /\ c.result = b.result
        /\ c.pc = IF b.pc = "fill" THEN "fill_reply" ELSE "spill_reply"
  BY <1>2, <1>4, <1>5 DEF CallRecord
<1>7. Moves(t, c, objs[thr[t].obj])
  <2>1. thr' = [thr EXCEPT ![t] = c] /\ UNCHANGED <<server, link, memo, m_caches, objs, purgedAt, lost>>
    BY <1>1, <1>3, <1>5 DEF ReadPage, SetCall, server_get
  <2>2. objs = [objs EXCEPT ![thr[t].obj] = objs[thr[t].obj]]
    BY <1>1, <1>2 DEF TypeOK
  <2> QED BY <1>1, <1>2, <1>6, <2>1, <2>2 DEF Moves
<1> QED BY <1>1, <1>2, <1>3, <1>6, <1>7

\* A reply of the first loop goes into the cache
LEMMA FillMoves ==
    ASSUME IInv, TypeOK, NEW t \in Callers, ApplyFill(t)
    PROVE  \E c \in CallRecord, r \in CacheRecord :
        /\ Moves(t, c, r)
        /\ thr[t].pc = "fill_reply" /\ r.locked = objs[thr[t].obj].locked
        /\ c.pc = "fill" /\ c.page = thr[t].page + 1
        /\ c.fetched = thr[t].fetched + Len(thr[t].reply)
        /\ c.used = thr[t].used \cup {thr[t].replyEd} /\ c.torn = thr[t].torn
        /\ r.txs = objs[thr[t].obj].txs \o thr[t].reply
        /\ r.eds = objs[thr[t].obj].eds \cup {thr[t].replyEd} /\ r.torn = objs[thr[t].obj].torn
        /\ r.firstEmpty = IF thr[t].reply = <<>> THEN thr[t].page ELSE objs[thr[t].obj].firstEmpty
<1>1. PICK b, o : b = thr[t] /\ o = objs[b.obj]
  OBVIOUS
<1>2. b.pc = "fill_reply" /\ b \in CallRecord /\ b.obj \in Obj /\ o \in CacheRecord
  BY <1>1, CallTypes DEF ApplyFill
<1>3. PICK c : c = [b EXCEPT !.pc = "fill", !.page = @ + 1, !.reply = <<>>, !.replyEd = 0,
                            !.fetched = @ + Len(b.reply), !.used = @ \cup {b.replyEd}]
  OBVIOUS
<1>4. PICK r : r = [o EXCEPT !.eds = @ \cup {b.replyEd},
                             !.firstEmpty = IF b.reply = <<>> THEN b.page ELSE @,
                             !.txs = @ \o b.reply]
  OBVIOUS
<1>a. /\ b.used \cup {b.replyEd} \in SUBSET Nat /\ <<>> \in Seq(Tx) /\ b.fetched + Len(b.reply) \in Nat
      /\ b.page + 1 \in Nat
  BY <1>2 DEF CallRecord
<1>b. o.txs \o b.reply \in Seq(Tx) /\ o.eds \cup {b.replyEd} \in SUBSET Nat
  BY <1>2 DEF CallRecord, CacheRecord
<1>5. c \in CallRecord /\ c.pc = "fill" /\ c.page = b.page + 1 /\ c.fetched = b.fetched + Len(b.reply)
        /\ c.used = b.used \cup {b.replyEd} /\ c.torn = b.torn /\ c.obj = b.obj /\ c.sa = b.sa
  BY <1>2, <1>3, <1>a DEF CallRecord
<1>6. r \in CacheRecord /\ r.locked = o.locked /\ r.txs = o.txs \o b.reply
        /\ r.firstEmpty = (IF b.reply = <<>> THEN b.page ELSE o.firstEmpty)
        /\ r.eds = o.eds \cup {b.replyEd} /\ r.torn = o.torn
  <2>1. b.page \in Nat
    BY <1>2 DEF CallRecord
  <2> QED BY <1>2, <1>4, <1>b, <2>1 DEF CacheRecord
<1>7. Moves(t, c, r)
  BY <1>1, <1>2, <1>3, <1>4, <1>5 DEF ApplyFill, SetCall, Moves
<1> QED BY <1>1, <1>2, <1>5, <1>6, <1>7

\* A reply of the second loop goes into the result
LEMMA SpillMoves ==
    ASSUME IInv, TypeOK, NEW t \in Callers, ApplySpill(t)
    PROVE  \E c \in CallRecord, r \in CacheRecord :
        /\ Moves(t, c, r)
        /\ thr[t].pc = "spill_reply" /\ r.locked = objs[thr[t].obj].locked
        /\ c.pc = "spill" /\ c.page = thr[t].page + 1
        /\ c.fetched = thr[t].fetched + Len(thr[t].reply)
        /\ c.used = thr[t].used \cup {thr[t].replyEd} /\ c.torn = thr[t].torn
        /\ c.first = thr[t].first /\ c.last = thr[t].last
        /\ c.result = thr[t].result \o
             Wanted(thr[t].reply, thr[t].fetched + Len(thr[t].reply), thr[t].first, thr[t].last)
        /\ r.txs = objs[thr[t].obj].txs /\ r.next = objs[thr[t].obj].next
        /\ r.torn = objs[thr[t].obj].torn
        /\ r.eds = IF thr[t].reply = <<>> THEN objs[thr[t].obj].eds \cup {thr[t].replyEd}
                   ELSE objs[thr[t].obj].eds
        /\ r.firstEmpty = IF thr[t].reply = <<>> THEN thr[t].page ELSE objs[thr[t].obj].firstEmpty
<1>1. PICK b, o : b = thr[t] /\ o = objs[b.obj]
  OBVIOUS
<1>2. b.pc = "spill_reply" /\ b \in CallRecord /\ b.obj \in Obj /\ o \in CacheRecord
  BY <1>1, CallTypes DEF ApplySpill
<1>w. PICK w : w = Wanted(b.reply, b.fetched + Len(b.reply), b.first, b.last)
  OBVIOUS
<1>3. PICK c : c = [b EXCEPT !.pc = "spill", !.page = @ + 1, !.reply = <<>>, !.replyEd = 0,
                            !.fetched = b.fetched + Len(b.reply), !.used = @ \cup {b.replyEd},
                            !.result = @ \o w]
  OBVIOUS
<1>4. PICK r : r = [o EXCEPT !.eds = IF b.reply = <<>> THEN @ \cup {b.replyEd} ELSE @,
                             !.firstEmpty = IF b.reply = <<>> THEN b.page ELSE @]
  OBVIOUS
<1>x. w \in Seq(Tx)
  <2>1. PICK q \in Seq(Tx), n \in Nat, f \in Nat, l \in Nat :
           q = b.reply /\ n = b.fetched + Len(b.reply) /\ f = b.first /\ l = b.last
    BY <1>2, SizesAssumption DEF CallRecord
  <2> QED BY <1>w, <2>1, WantedType
<1>a. /\ b.used \cup {b.replyEd} \in SUBSET Nat /\ <<>> \in Seq(Tx) /\ b.fetched + Len(b.reply) \in Nat
      /\ b.page + 1 \in Nat /\ b.page \in Nat
  BY <1>2 DEF CallRecord
<1>b. b.result \o w \in Seq(Tx)
  BY <1>2, <1>x DEF CallRecord
<1>c. o.eds \cup {b.replyEd} \in SUBSET Nat
  BY <1>2 DEF CallRecord, CacheRecord
<1>5. c \in CallRecord /\ c.pc = "spill" /\ c.page = b.page + 1 /\ c.fetched = b.fetched + Len(b.reply)
        /\ c.used = b.used \cup {b.replyEd} /\ c.torn = b.torn /\ c.obj = b.obj /\ c.sa = b.sa
        /\ c.first = b.first /\ c.last = b.last /\ c.result = b.result \o w
  BY <1>2, <1>3, <1>a, <1>b DEF CallRecord
<1>6. r \in CacheRecord /\ r.locked = o.locked /\ r.txs = o.txs /\ r.next = o.next
        /\ r.firstEmpty = (IF b.reply = <<>> THEN b.page ELSE o.firstEmpty)
        /\ r.eds = (IF b.reply = <<>> THEN o.eds \cup {b.replyEd} ELSE o.eds) /\ r.torn = o.torn
  BY <1>2, <1>4, <1>a, <1>c DEF CacheRecord
<1>7. Moves(t, c, r)
  BY <1>1, <1>2, <1>3, <1>4, <1>5, <1>w DEF ApplySpill, SetCall, Moves
<1> QED BY <1>1, <1>2, <1>5, <1>6, <1>7, <1>w

\* Between the loops
LEMMA StartMoves ==
    ASSUME IInv, TypeOK, NEW t \in Callers, StartResult(t)
    PROVE  \E c \in CallRecord, r \in CacheRecord :
        /\ Moves(t, c, r)
        /\ thr[t].pc = "fill" /\ r.locked = objs[thr[t].obj].locked
        /\ c.pc = "spill" /\ c.page = thr[t].page /\ c.fetched = thr[t].fetched
        /\ c.used = thr[t].used /\ c.torn = thr[t].torn
        /\ c.first = thr[t].first /\ c.last = thr[t].last
        /\ c.result = Slice(objs[thr[t].obj].txs, thr[t].first, thr[t].last)
        /\ r.txs = objs[thr[t].obj].txs /\ r.next = thr[t].page
        /\ r.firstEmpty = objs[thr[t].obj].firstEmpty
        /\ r.eds = objs[thr[t].obj].eds /\ r.torn = objs[thr[t].obj].torn
<1>1. PICK b, o : b = thr[t] /\ o = objs[b.obj]
  OBVIOUS
<1>2. b.pc = "fill" /\ b \in CallRecord /\ b.obj \in Obj /\ o \in CacheRecord
  BY <1>1, CallTypes DEF StartResult
<1>w. PICK w : w = Slice(o.txs, b.first, b.last)
  OBVIOUS
<1>x. w \in Seq(Tx)
  <2>1. PICK q \in Seq(Tx), f \in Nat, l \in Nat : q = o.txs /\ f = b.first /\ l = b.last
    BY <1>2, SizesAssumption DEF CallRecord, CacheRecord
  <2> QED BY <1>w, <2>1, SliceConcat
<1>3. PICK c : c = [b EXCEPT !.pc = "spill", !.result = w]
  OBVIOUS
<1>4. PICK r : r = [o EXCEPT !.next = b.page]
  OBVIOUS
<1>5. c \in CallRecord /\ c.pc = "spill" /\ c.page = b.page /\ c.fetched = b.fetched
        /\ c.used = b.used /\ c.torn = b.torn /\ c.obj = b.obj /\ c.sa = b.sa
        /\ c.first = b.first /\ c.last = b.last /\ c.result = w
  BY <1>2, <1>3, <1>x DEF CallRecord
<1>6. r \in CacheRecord /\ r.locked = o.locked /\ r.txs = o.txs /\ r.next = b.page
        /\ r.firstEmpty = o.firstEmpty /\ r.eds = o.eds /\ r.torn = o.torn
  <2>1. b.page \in Nat
    BY <1>2 DEF CallRecord
  <2> QED BY <1>2, <1>4, <2>1 DEF CacheRecord
<1>7. Moves(t, c, r)
  BY <1>1, <1>2, <1>3, <1>4, <1>5, <1>w DEF StartResult, SetCall, Moves
<1> QED BY <1>1, <1>2, <1>5, <1>6, <1>7, <1>w

\* The call of t lets go of its cache, left as r: whoever has it keeps it
Leaves(t, c, r) ==
    /\ thr' = [thr EXCEPT ![t] = c] /\ c.obj = NoObj /\ ~InGet(c)
    /\ thr[t].obj \in Obj /\ InGet(thr[t]) /\ ~r.locked
    /\ objs' = [o \in Obj |-> IF o \notin Referenced(m_caches, thr') THEN EmptyCache
                              ELSE IF o = thr[t].obj THEN r ELSE objs[o]]
    /\ UNCHANGED <<server, link, memo, m_caches, purgedAt, lost>>

\* What is left of a call that threw
LEMMA ThrownCall ==
           /\ NewCall("failed", NoObj, 0, 0, 0, 0) \in CallRecord
           /\ NewCall("failed", NoObj, 0, 0, 0, 0).pc = "failed"
           /\ NewCall("failed", NoObj, 0, 0, 0, 0).obj = NoObj
           /\ NewCall("failed", NoObj, 0, 0, 0, 0).used = {}
<1>1. 0 \in 0 .. U32 - 1 /\ <<>> \in Seq(Tx)
  BY SizesAssumption
<1> QED BY <1>1 DEF CallRecord, NewCall

\* tx_list_cache::get returns
LEMMA ReturnLeaves ==
    ASSUME IInv, TypeOK, NEW t \in Callers, Return(t)
    PROVE  \E c \in CallRecord, r \in CacheRecord :
        /\ Leaves(t, c, r)
        /\ thr[t].pc = "spill" /\ ~More(thr[t], objs[thr[t].obj])
        /\ c.pc = "done" /\ c.sa = thr[t].sa /\ c.used = thr[t].used /\ c.torn = thr[t].torn
        /\ c.first = thr[t].first /\ c.last = thr[t].last /\ c.result = thr[t].result
        /\ r.txs = objs[thr[t].obj].txs /\ r.next = objs[thr[t].obj].next
        /\ r.firstEmpty = objs[thr[t].obj].firstEmpty
        /\ r.eds = objs[thr[t].obj].eds /\ r.torn = objs[thr[t].obj].torn
<1>1. PICK b, o : b = thr[t] /\ o = objs[b.obj]
  OBVIOUS
<1>2. b.pc = "spill" /\ ~More(b, o) /\ b \in CallRecord /\ b.obj \in Obj /\ o \in CacheRecord
  BY <1>1, CallTypes DEF Return
<1>3. PICK c : c = [b EXCEPT !.pc = "done", !.obj = NoObj, !.page = 0, !.fetched = 0]
  OBVIOUS
<1>4. PICK r : r = [o EXCEPT !.locked = FALSE]
  OBVIOUS
<1>5. c \in CallRecord /\ c.pc = "done" /\ c.obj = NoObj /\ c.sa = b.sa /\ c.used = b.used /\ c.torn = b.torn
        /\ c.first = b.first /\ c.last = b.last /\ c.result = b.result
  BY <1>2, <1>3 DEF CallRecord
<1>6. r \in CacheRecord /\ ~r.locked /\ r.txs = o.txs /\ r.next = o.next
        /\ r.firstEmpty = o.firstEmpty /\ r.eds = o.eds /\ r.torn = o.torn
  BY <1>2, <1>4 DEF CacheRecord
<1>7. Leaves(t, c, r)
  <2>1. thr' = [thr EXCEPT ![t] = c] /\ UNCHANGED <<server, link, memo, m_caches, purgedAt, lost>>
    BY <1>1, <1>3 DEF Return, Leave, SetCall
  <2>2. objs' = Reclaim([objs EXCEPT ![b.obj] = r], m_caches, thr')
    BY <1>1, <1>4 DEF Return, Leave
  <2>3. objs' = [q \in Obj |-> IF q \notin Referenced(m_caches, thr') THEN EmptyCache
                              ELSE IF q = b.obj THEN r ELSE objs[q]]
    BY <2>2 DEF Reclaim, TypeOK
  <2> QED BY <1>1, <1>2, <1>5, <1>6, <2>1, <2>3 DEF Leaves, InGet
<1> QED BY <1>1, <1>2, <1>5, <1>6, <1>7

\* A fetch throws: the cache keeps what was appended, and may be torn
LEMMA FailLeaves ==
    ASSUME IInv, TypeOK, NEW t \in Callers, FetchFails(t)
    PROVE  \E c \in CallRecord, r \in CacheRecord :
        /\ Leaves(t, c, r)
        /\ c.pc = "failed" /\ c.used = {}
        /\ r.txs = objs[thr[t].obj].txs /\ r.next = objs[thr[t].obj].next
        /\ r.firstEmpty = objs[thr[t].obj].firstEmpty /\ r.eds = objs[thr[t].obj].eds
        /\ r.torn = (objs[thr[t].obj].torn \/ (Filling(thr[t]) /\ thr[t].page # objs[thr[t].obj].next))
<1>1. PICK b, o : b = thr[t] /\ o = objs[b.obj]
  OBVIOUS
<1>2. InGet(b) /\ b \in CallRecord /\ b.obj \in Obj /\ o \in CacheRecord
  <2>1. InGet(b)
    BY <1>1 DEF FetchFails, Fetches, InGet
  <2> QED BY <1>1, <2>1, CallTypes DEF InGet
<1>3. PICK c : c = NewCall("failed", NoObj, 0, 0, 0, 0)
  OBVIOUS
<1>t. PICK torn : torn = (o.torn \/ (Filling(b) /\ b.page # o.next))
  OBVIOUS
<1>4. PICK q, r : q = [o EXCEPT !.torn = torn] /\ r = [q EXCEPT !.locked = FALSE]
  OBVIOUS
<1>5. c \in CallRecord /\ c.pc = "failed" /\ c.used = {} /\ c.obj = NoObj
  BY <1>3, ThrownCall
<1>6. r \in CacheRecord /\ ~r.locked /\ r.txs = o.txs /\ r.next = o.next
        /\ r.firstEmpty = o.firstEmpty /\ r.eds = o.eds /\ r.torn = torn
  <2>1. torn \in BOOLEAN
    BY <1>2, <1>t DEF CacheRecord
  <2>2. q \in CacheRecord /\ q.torn = torn /\ q.txs = o.txs /\ q.next = o.next
          /\ q.firstEmpty = o.firstEmpty /\ q.eds = o.eds
    BY <1>2, <1>4, <2>1 DEF CacheRecord
  <2> QED BY <1>4, <2>2 DEF CacheRecord
<1>7. Leaves(t, c, r)
  <2>0. Leave(t, "failed", [objs EXCEPT ![b.obj].torn =
                  @ \/ (b.pc \in {"fill", "fill_reply"} /\ b.page # o.next)])
    BY <1>1 DEF FetchFails
  <2>1. thr' = [thr EXCEPT ![t] = c] /\ UNCHANGED <<server, link, memo, m_caches, purgedAt, lost>>
    BY <1>3, <2>0 DEF FetchFails, Leave, SetCall
  <2>2. [objs EXCEPT ![b.obj].torn = @ \/ (b.pc \in {"fill", "fill_reply"} /\ b.page # o.next)]
          = [objs EXCEPT ![b.obj] = q]
    BY <1>1, <1>4, <1>t DEF Filling
  <2>3. [[objs EXCEPT ![b.obj] = q] EXCEPT ![b.obj].locked = FALSE] = [objs EXCEPT ![b.obj] = r]
    BY <1>2, <1>4 DEF TypeOK
  <2>4. objs' = Reclaim([objs EXCEPT ![b.obj] = r], m_caches, thr')
    BY <1>1, <2>0, <2>2, <2>3 DEF Leave
  <2>5. objs' = [x \in Obj |-> IF x \notin Referenced(m_caches, thr') THEN EmptyCache
                              ELSE IF x = b.obj THEN r ELSE objs[x]]
    BY <2>4 DEF Reclaim, TypeOK
  <2> QED BY <1>1, <1>2, <1>5, <1>6, <2>1, <2>5 DEF Leaves, InGet
<1> QED BY <1>1, <1>2, <1>5, <1>6, <1>7, <1>t

\* The reversed range throws: the page number was recorded
LEMMA ReversedLeaves ==
    ASSUME IInv, TypeOK, NEW t \in Callers, ReversedRangeThrows(t)
    PROVE  \E c \in CallRecord, r \in CacheRecord :
        /\ Leaves(t, c, r)
        /\ thr[t].pc = "fill" /\ c.pc = "failed" /\ c.used = {}
        /\ r.txs = objs[thr[t].obj].txs /\ r.next = thr[t].page
        /\ r.firstEmpty = objs[thr[t].obj].firstEmpty
        /\ r.eds = objs[thr[t].obj].eds /\ r.torn = objs[thr[t].obj].torn
<1>1. PICK b, o : b = thr[t] /\ o = objs[b.obj]
  OBVIOUS
<1>2. b.pc = "fill" /\ b \in CallRecord /\ b.obj \in Obj /\ o \in CacheRecord
  BY <1>1, CallTypes DEF ReversedRangeThrows
<1>3. PICK c : c = NewCall("failed", NoObj, 0, 0, 0, 0)
  OBVIOUS
<1>4. PICK q, r : q = [o EXCEPT !.next = b.page] /\ r = [q EXCEPT !.locked = FALSE]
  OBVIOUS
<1>5. c \in CallRecord /\ c.pc = "failed" /\ c.used = {} /\ c.obj = NoObj
  BY <1>3, ThrownCall
<1>6. r \in CacheRecord /\ ~r.locked /\ r.txs = o.txs /\ r.next = b.page
        /\ r.firstEmpty = o.firstEmpty /\ r.eds = o.eds /\ r.torn = o.torn
  <2>1. b.page \in Nat
    BY <1>2 DEF CallRecord
  <2>2. q \in CacheRecord /\ q.torn = o.torn /\ q.txs = o.txs /\ q.next = b.page
          /\ q.firstEmpty = o.firstEmpty /\ q.eds = o.eds
    BY <1>2, <1>4, <2>1 DEF CacheRecord
  <2> QED BY <1>4, <2>2 DEF CacheRecord
<1>7. Leaves(t, c, r)
  <2>0. Leave(t, "failed", [objs EXCEPT ![b.obj].next = b.page])
    BY <1>1 DEF ReversedRangeThrows
  <2>1. thr' = [thr EXCEPT ![t] = c] /\ UNCHANGED <<server, link, memo, m_caches, purgedAt, lost>>
    BY <1>3, <2>0 DEF ReversedRangeThrows, Leave, SetCall
  <2>2. [objs EXCEPT ![b.obj].next = b.page] = [objs EXCEPT ![b.obj] = q]
    BY <1>1, <1>4
  <2>3. [[objs EXCEPT ![b.obj] = q] EXCEPT ![b.obj].locked = FALSE] = [objs EXCEPT ![b.obj] = r]
    BY <1>2, <1>4 DEF TypeOK
  <2>4. objs' = Reclaim([objs EXCEPT ![b.obj] = r], m_caches, thr')
    BY <1>1, <2>0, <2>2, <2>3 DEF Leave
  <2>5. objs' = [x \in Obj |-> IF x \notin Referenced(m_caches, thr') THEN EmptyCache
                              ELSE IF x = b.obj THEN r ELSE objs[x]]
    BY <2>4 DEF Reclaim, TypeOK
  <2> QED BY <1>1, <1>2, <1>5, <1>6, <2>1, <2>5 DEF Leaves, InGet
<1> QED BY <1>1, <1>2, <1>5, <1>6, <1>7

-----------------------------------------------------------------------------
(* The types                                                               *)

\* A new cache object
LEMMA EmptyCacheType == EmptyCache \in CacheRecord
<1>1. NoPage \in Nat /\ <<>> \in Seq(Tx)
  BY SizesAssumption DEF NoPage
<1> QED BY <1>1 DEF EmptyCache, CacheRecord

\* A step of a call that keeps its cache keeps the types
LEMMA MovesType ==
    ASSUME TypeOK, NEW t \in Callers, NEW c \in CallRecord, NEW r \in CacheRecord, Moves(t, c, r)
    PROVE  TypeOK'
<1>1. objs' \in [Obj -> CacheRecord] /\ thr' \in [Callers -> CallRecord]
  BY DEF TypeOK, Moves
<1> QED BY <1>1 DEF TypeOK, Moves, server, link

\* So does one that lets go of it
LEMMA LeavesType ==
    ASSUME TypeOK, NEW t \in Callers, NEW c \in CallRecord, NEW r \in CacheRecord, Leaves(t, c, r)
    PROVE  TypeOK'
<1>1. objs' \in [Obj -> CacheRecord] /\ thr' \in [Callers -> CallRecord]
  BY EmptyCacheType DEF TypeOK, Leaves
<1> QED BY <1>1 DEF TypeOK, Leaves, server, link

\* So does every step of a call
LEMMA CallerType ==
    ASSUME IInv, TypeOK, NEW t \in Callers, CallerStep(t)
    PROVE  TypeOK'
<1>1. CASE LockCache(t)
  BY <1>1, LockMoves, MovesType
<1>2. CASE ReadPage(t)
  <2>1. PICK c \in CallRecord : Moves(t, c, objs[thr[t].obj])
    BY <1>2, ReadMoves
  <2>2. PICK r \in CacheRecord : r = objs[thr[t].obj]
    BY <2>1 DEF TypeOK, Moves
  <2> QED BY <2>1, <2>2, MovesType
<1>3. CASE ApplyFill(t)
  BY <1>3, FillMoves, MovesType
<1>4. CASE ApplySpill(t)
  BY <1>4, SpillMoves, MovesType
<1>5. CASE StartResult(t)
  BY <1>5, StartMoves, MovesType
<1>6. CASE Return(t)
  BY <1>6, ReturnLeaves, LeavesType
<1>7. CASE FetchFails(t)
  BY <1>7, FailLeaves, LeavesType
<1>8. CASE ReversedRangeThrows(t)
  BY <1>8, ReversedLeaves, LeavesType
<1> QED BY <1>1, <1>2, <1>3, <1>4, <1>5, <1>6, <1>7, <1>8 DEF CallerStep

\* tx_list_caches::get: the new call of t, and the objects it can be given
LEMMA GetCall ==
    ASSUME IInv, TypeOK, NEW t \in Callers, NEW sa \in Subaccounts, NEW req \in Requests,
           GetCache(t, sa, req)
    PROVE  \E c \in CallRecord :
             /\ thr' = [thr EXCEPT ![t] = c] /\ m_caches' = [m_caches EXCEPT ![sa] = c.obj]
             /\ c.pc = "lock" /\ c.obj \in Obj /\ c.sa = sa /\ c.used = {}
             /\ m_caches[sa] = c.obj \/ (m_caches[sa] = NoObj /\ c.obj \notin Referenced(m_caches, thr))
             /\ thr[t].pc \in {"idle", "done", "failed"}
             /\ UNCHANGED <<server, link, memo, objs, purgedAt, lost>>
<1>1. PICK o \in IF m_caches[sa] # NoObj THEN {m_caches[sa]} ELSE Obj \ Referenced(m_caches, thr) :
        /\ m_caches' = [m_caches EXCEPT ![sa] = o]
        /\ SetCall(t, NewCall("lock", o, sa, req[1], Last(req[1], req[2]), purgedAt[sa]))
  BY DEF GetCache
<1>2. o \in Obj /\ (m_caches[sa] = o \/ (m_caches[sa] = NoObj /\ o \notin Referenced(m_caches, thr)))
  BY <1>1 DEF TypeOK
<1>3. PICK f \in Nat, n \in Nat : f = req[1] /\ n = req[2]
  BY RequestsAssumption
<1>4. PICK l, p : l = Last(f, n) /\ p = purgedAt[sa]
  OBVIOUS
<1>5. l \in 0 .. U32 - 1 /\ p \in Nat /\ sa \in Nat /\ <<>> \in Seq(Tx)
  <2>1. l \in 0 .. U32 - 1
    BY <1>4, SizesAssumption DEF Last
  <2> QED BY <1>4, <2>1, SubaccountsAssumption DEF TypeOK
<1>6. PICK c : c = NewCall("lock", o, sa, f, l, p)
  OBVIOUS
<1>7. c \in CallRecord /\ c.pc = "lock" /\ c.obj = o /\ c.sa = sa /\ c.used = {}
  BY <1>2, <1>5, <1>6 DEF NewCall, CallRecord
<1>8. thr' = [thr EXCEPT ![t] = c]
  BY <1>1, <1>3, <1>4, <1>6 DEF SetCall
<1>9. thr[t].pc \in {"idle", "done", "failed"} /\ UNCHANGED <<server, link, memo, objs, purgedAt, lost>>
  BY DEF GetCache
<1> QED BY <1>1, <1>2, <1>7, <1>8, <1>9

\* tx_list_caches::get keeps the types
LEMMA GetType ==
    ASSUME IInv, TypeOK, NEW t \in Callers, NEW sa \in Subaccounts, NEW req \in Requests,
           GetCache(t, sa, req)
    PROVE  TypeOK'
<1>1. PICK c \in CallRecord :
        /\ thr' = [thr EXCEPT ![t] = c] /\ m_caches' = [m_caches EXCEPT ![sa] = c.obj]
        /\ c.obj \in Obj
        /\ UNCHANGED <<server, link, memo, objs, purgedAt, lost>>
  BY GetCall
<1>2. thr' \in [Callers -> CallRecord] /\ m_caches' \in [Subaccounts -> Obj \cup {NoObj}]
  BY <1>1 DEF TypeOK
<1> QED BY <1>1, <1>2 DEF TypeOK, server, link

\* What a purge leaves: an object nobody refers to any more is gone
LEMMA PurgeType ==
    ASSUME TypeOK, NEW sas, Purge(sas)
    PROVE  /\ m_caches' \in [Subaccounts -> Obj \cup {NoObj}] /\ purgedAt' \in [Subaccounts -> Nat]
           /\ objs' \in [Obj -> CacheRecord]
BY EmptyCacheType DEF TypeOK, Purge, Reclaim

\* A list that gets a new first entry
LEMMA NewList ==
    ASSUME NEW L \in Seq(Tx), NEW rbf \in BOOLEAN
    PROVE  LET M == <<[id |-> Len(L) + 1, replaced |-> FALSE]>> \o
                    [i \in DOMAIN L |-> [L[i] EXCEPT !.replaced = @ \/ (rbf /\ i = 1)]]
           IN M \in Seq(Tx) /\ Len(M) = Len(L) + 1
<1> DEFINE e == [id |-> Len(L) + 1, replaced |-> FALSE]
           R == [i \in DOMAIN L |-> [L[i] EXCEPT !.replaced = @ \/ (rbf /\ i = 1)]]
<1>1. <<e>> \in Seq(Tx) /\ Len(<<e>>) = 1
  <2>1. e \in Tx
    BY DEF Tx
  <2> HIDE DEF e
  <2> QED BY <2>1
<1>2. R \in Seq(Tx) /\ Len(R) = Len(L)
  <2>1. DOMAIN L = 1 .. Len(L) /\ Len(L) \in Nat
    OBVIOUS
  <2>2. ASSUME NEW i \in 1 .. Len(L) PROVE [L[i] EXCEPT !.replaced = @ \/ (rbf /\ i = 1)] \in Tx
    <3>1. L[i] \in Tx
      OBVIOUS
    <3> QED BY <3>1 DEF Tx
  <2>3. R \in [1 .. Len(L) -> Tx]
    BY <2>1, <2>2
  <2> HIDE DEF R
  <2> QED BY <2>1, <2>3
<1> HIDE DEF R
<1>3. <<e>> \o R \in Seq(Tx) /\ Len(<<e>> \o R) = Len(<<e>>) + Len(R)
  <2>1. PICK q : q = <<e>>
    OBVIOUS
  <2>2. q \o R \in Seq(Tx) /\ Len(q \o R) = Len(q) + Len(R)
    BY <1>1, <1>2, <2>1, ConcatProperties
  <2> QED BY <2>1, <2>2
<1>4. Len(<<e>> \o R) = Len(L) + 1
  BY <1>1, <1>2, <1>3
<1> QED BY <1>3, <1>4 DEF R

\* What a change of the lists by the server does to each
LEMMA ListSteps ==
    ASSUME TypeOK, \/ \E sas \in SUBSET Subaccounts, rbf \in Bumps : ServerNewTx(sas, rbf)
                   \/ ServerNewBlock \/ \E sa \in Subaccounts : ChangeMemo(sa)
    PROVE  /\ txlist' \in [Subaccounts -> Seq(Tx)] /\ edition' \in [Subaccounts -> Nat]
           /\ \A sa \in Subaccounts :
                \/ edition'[sa] = edition[sa] /\ txlist'[sa] = txlist[sa]
                \/ /\ edition'[sa] = edition[sa] + 1 /\ edition[sa] < MaxEdition
                   /\ Len(txlist'[sa]) <= Len(txlist[sa]) + 1
           /\ UNCHANGED <<conn, known, io, m_caches, objs, thr, purgedAt>>
<1>0. txlist \in [Subaccounts -> Seq(Tx)] /\ edition \in [Subaccounts -> Nat]
      /\ \A sa \in Subaccounts : Len(txlist[sa]) \in Nat
  BY DEF TypeOK
<1>1. ASSUME NEW sas \in SUBSET Subaccounts, Change(sas), CanChange(sas)
      PROVE  /\ edition' \in [Subaccounts -> Nat]
             /\ \A sa \in Subaccounts :
                  \/ sa \notin sas /\ edition'[sa] = edition[sa]
                  \/ sa \in sas /\ edition'[sa] = edition[sa] + 1 /\ edition[sa] < MaxEdition
  BY <1>0, <1>1 DEF Change, CanChange
<1>2. ASSUME NEW sas \in SUBSET Subaccounts, NEW rbf \in Bumps, ServerNewTx(sas, rbf)
      PROVE  /\ txlist' \in [Subaccounts -> Seq(Tx)]
             /\ \A sa \in Subaccounts :
                  /\ sa \notin sas => txlist'[sa] = txlist[sa]
                  /\ Len(txlist'[sa]) <= Len(txlist[sa]) + 1
  <2> DEFINE New(L) == <<[id |-> Len(L) + 1, replaced |-> FALSE]>> \o
                       [i \in DOMAIN L |-> [L[i] EXCEPT !.replaced = @ \/ (rbf /\ i = 1)]]
  <2>1. rbf \in BOOLEAN
    BY RequestsAssumption
  <2>2. ASSUME NEW sa \in Subaccounts
        PROVE  New(txlist[sa]) \in Seq(Tx) /\ Len(New(txlist[sa])) = Len(txlist[sa]) + 1
    <3>1. PICK L \in Seq(Tx) : L = txlist[sa]
      BY <1>0
    <3>2. New(L) \in Seq(Tx) /\ Len(New(L)) = Len(L) + 1
      BY <2>1, NewList
    <3> HIDE DEF New
    <3> QED BY <3>1, <3>2
  <2>3. txlist' = [sa \in Subaccounts |-> IF sa \notin sas THEN txlist[sa] ELSE New(txlist[sa])]
    BY <1>2 DEF ServerNewTx
  <2> HIDE DEF New
  <2>4. ASSUME NEW sa \in Subaccounts
        PROVE  /\ txlist'[sa] \in Seq(Tx) /\ (sa \notin sas => txlist'[sa] = txlist[sa])
               /\ Len(txlist'[sa]) <= Len(txlist[sa]) + 1
    <3>1. CASE sa \in sas
      BY <3>1, <2>2, <2>3, <1>0
    <3>2. CASE sa \notin sas
      BY <3>2, <2>3, <1>0
    <3> QED BY <3>1, <3>2
  <2> QED BY <2>3, <2>4
<1>3. CASE \E sas \in SUBSET Subaccounts, rbf \in Bumps : ServerNewTx(sas, rbf)
  <2>1. PICK sas \in SUBSET Subaccounts, rbf \in Bumps : ServerNewTx(sas, rbf)
    BY <1>3
  <2>2. Change(sas) /\ CanChange(sas) /\ UNCHANGED <<conn, known, io, m_caches, objs, thr, purgedAt>>
    BY <2>1 DEF ServerNewTx
  <2> QED BY <2>1, <2>2, <1>1, <1>2
<1>4. CASE ServerNewBlock
  <2>1. /\ Change(Subaccounts) /\ CanChange(Subaccounts) /\ txlist' = txlist
        /\ UNCHANGED <<conn, known, io, m_caches, objs, thr, purgedAt>>
    BY <1>4 DEF ServerNewBlock
  <2> QED BY <2>1, <1>0, <1>1
<1>5. ASSUME NEW sb \in Subaccounts, ChangeMemo(sb)
      PROVE  /\ txlist' \in [Subaccounts -> Seq(Tx)] /\ edition' \in [Subaccounts -> Nat]
             /\ \A sa \in Subaccounts :
                \/ edition'[sa] = edition[sa] /\ txlist'[sa] = txlist[sa]
                \/ /\ edition'[sa] = edition[sa] + 1 /\ edition[sa] < MaxEdition
                   /\ Len(txlist'[sa]) <= Len(txlist[sa]) + 1
             /\ UNCHANGED <<conn, known, io, m_caches, objs, thr, purgedAt>>
  <2>1. /\ Change({sb}) /\ CanChange({sb}) /\ txlist' = txlist
        /\ UNCHANGED <<conn, known, io, m_caches, objs, thr, purgedAt>>
    BY <1>5 DEF ChangeMemo, link
  <2> QED BY <2>1, <1>0, <1>1
<1> QED BY <1>3, <1>4, <1>5

\* Every step keeps the types
LEMMA TypeNext == IInv /\ IInv' /\ TypeOK /\ [Next]_vars => TypeOK'
<1> SUFFICES ASSUME IInv, IInv', TypeOK, [Next]_vars PROVE TypeOK'
  OBVIOUS
<1>n. notes' \in Seq(Note)
  BY DEF IInv, Caches, Shapes
<1>1. CASE UNCHANGED vars
  BY <1>1 DEF vars, server, link, TypeOK
<1>2. CASE \/ \E sas \in SUBSET Subaccounts, rbf \in Bumps : ServerNewTx(sas, rbf)
           \/ ServerNewBlock \/ \E sa \in Subaccounts : ChangeMemo(sa)
  <2>1. memo' \in SUBSET Subaccounts /\ lost' \in SUBSET Subaccounts
    BY <1>2 DEF ServerNewTx, ServerNewBlock, ChangeMemo, Notify, TypeOK
  <2> QED BY <1>n, <1>2, <2>1, ListSteps DEF TypeOK
<1>3. CASE \/ ConnectionLost \/ Subscribe \/ on_new_transaction_elides \/ on_new_transaction_throws
           \/ Deliver \/ DeliverTwice
  <2>1. UNCHANGED <<txlist, edition, known, memo, m_caches, objs, thr, purgedAt>>
    BY <1>3 DEF ConnectionLost, Subscribe, on_new_transaction_elides, on_new_transaction_throws,
                Deliver, DeliverTwice, server
  <2>2. conn' \in {"up", "login", "down"}
    BY <1>3 DEF ConnectionLost, Subscribe, on_new_transaction_elides, on_new_transaction_throws,
                Deliver, DeliverTwice, TypeOK
  <2>3. lost' \in SUBSET Subaccounts
    <3>1. CASE ConnectionLost
      <4>1. \A i \in DOMAIN notes : notes[i].sas \in SUBSET Subaccounts
        <5>1. \A i \in DOMAIN notes : notes[i] \in Note
          BY DEF TypeOK
        <5> QED BY <5>1 DEF Note
      <4> QED BY <3>1, <4>1 DEF ConnectionLost, TypeOK
    <3>2. CASE on_new_transaction_throws
      BY <3>2 DEF on_new_transaction_throws, TypeOK
    <3>3. CASE Subscribe \/ on_new_transaction_elides \/ Deliver \/ DeliverTwice
      BY <3>3 DEF Subscribe, on_new_transaction_elides, Deliver, DeliverTwice, TypeOK
    <3> QED BY <1>3, <3>1, <3>2, <3>3
  <2>4. io' \in [kind : {"none", "tx", "block"}, sas : SUBSET Subaccounts, dup : BOOLEAN]
    <3>1. CASE Deliver \/ DeliverTwice
      <4>1. io' = Head(notes) /\ notes # <<>>
        BY <3>1 DEF Deliver, DeliverTwice
      <4>2. Head(notes) \in Note
        BY <4>1, HeadTailProperties DEF TypeOK
      <4> QED BY <4>1, <4>2 DEF Note
    <3>2. CASE on_new_transaction_throws
      BY <3>2 DEF on_new_transaction_throws, IdleIo
    <3>3. CASE ConnectionLost \/ Subscribe \/ on_new_transaction_elides
      BY <3>3 DEF ConnectionLost, Subscribe, on_new_transaction_elides, TypeOK
    <3> QED BY <1>3, <3>1, <3>2, <3>3
  <2> QED BY <1>n, <2>1, <2>2, <2>3, <2>4 DEF TypeOK
<1>4. CASE Relogin \/ on_new_transaction \/ on_new_block \/ MemoPurge
  <2>1. PICK sas : Purge(sas)
    BY <1>4 DEF Relogin, on_new_transaction, on_new_block, MemoPurge, purge_all, purge
  <2>2. UNCHANGED <<txlist, edition, thr>> /\ memo' \in SUBSET Subaccounts
    BY <1>4 DEF Relogin, on_new_transaction, on_new_block, MemoPurge, server, TypeOK
  <2>3. conn' \in {"up", "login", "down"} /\ known' \in SUBSET Subaccounts
    BY <1>4 DEF Relogin, on_new_transaction, on_new_block, MemoPurge, link, TypeOK
  <2>4. lost' \in SUBSET Subaccounts
    BY <1>4 DEF Relogin, on_new_transaction, on_new_block, MemoPurge, TypeOK
  <2>5. io' \in [kind : {"none", "tx", "block"}, sas : SUBSET Subaccounts, dup : BOOLEAN]
    <3>1. io \in [kind : {"none", "tx", "block"}, sas : SUBSET Subaccounts, dup : BOOLEAN]
      BY DEF TypeOK
    <3>2. IdleIo \in [kind : {"none", "tx", "block"}, sas : SUBSET Subaccounts, dup : BOOLEAN]
      BY DEF IdleIo
    <3>3. \A x : [io EXCEPT !.sas = @ \ {x}]
                  \in [kind : {"none", "tx", "block"}, sas : SUBSET Subaccounts, dup : BOOLEAN]
      BY <3>1
    <3>4. io' = io \/ io' = IdleIo \/ io' = [io EXCEPT !.sas = @ \ {NextAffected}]
      BY <1>4 DEF Relogin, on_new_transaction, on_new_block, MemoPurge, link
    <3> QED BY <3>1, <3>2, <3>3, <3>4
  <2> QED BY <1>n, <2>1, <2>2, <2>3, <2>4, <2>5, PurgeType DEF TypeOK
<1>5. CASE MemoFails
  BY <1>5, <1>n DEF MemoFails, server, link, TypeOK
<1>6. CASE \E t \in Callers, sa \in Subaccounts, req \in Requests : GetCache(t, sa, req)
  BY <1>6, GetType
<1>7. CASE \E t \in Callers : CallerStep(t)
  BY <1>7, CallerType
<1> QED BY <1>1, <1>2, <1>3, <1>4, <1>5, <1>6, <1>7 DEF Next

\* A caller that has not called yet
LEMMA IdleCallType == IdleCall \in CallRecord
<1>1. 0 \in 0 .. U32 - 1 /\ <<>> \in Seq(Tx)
  BY SizesAssumption
<1> QED BY <1>1 DEF CallRecord, NewCall, IdleCall

\* The types hold when the session starts
LEMMA TypeInit == Init => TypeOK
<1> SUFFICES ASSUME Init PROVE TypeOK
  OBVIOUS
<1>1. txlist \in [Subaccounts -> Seq(Tx)]
  BY HistoriesAssumption DEF Init
<1>2. objs \in [Obj -> CacheRecord] /\ thr \in [Callers -> CallRecord]
  BY EmptyCacheType, IdleCallType DEF Init
<1>3. io \in [kind : {"none", "tx", "block"}, sas : SUBSET Subaccounts, dup : BOOLEAN]
  BY DEF Init, IdleIo
<1>4. notes \in Seq(Note) /\ m_caches \in [Subaccounts -> Obj \cup {NoObj}]
  BY DEF Init
<1> QED BY <1>1, <1>2, <1>3, <1>4, SubaccountsAssumption DEF Init, TypeOK

\* Every variable keeps the type its C++ counterpart has: the page numbers,
\* the end of a range and the cached and returned lists of every call included.
THEOREM TypeCorrect == Spec => []TypeOK
BY TypeInit, TypeNext, IInvInit, IInvNext, PTL DEF Spec

-----------------------------------------------------------------------------
(* One get at a time                                                       *)

\* An object nobody refers to is as new; the mutex of the others is held by
\* the one call that works on them
Fresh == \A o \in Obj : o \notin Referenced(m_caches, thr) => objs[o] = EmptyCache
Mutex == Fresh /\ OneGetPerCache

\* A step of a call that keeps its cache keeps the mutex held
LEMMA MovesMutex ==
    ASSUME TypeOK, Mutex, NEW t \in Callers, NEW c, NEW r, Moves(t, c, r),
           InGet(c), r.locked = TRUE, InGet(thr[t]) \/ ~objs[thr[t].obj].locked
    PROVE  Mutex'
<1>1. /\ \A u \in Callers : thr'[u] = IF u = t THEN c ELSE thr[u]
      /\ \A o \in Obj : objs'[o] = IF o = thr[t].obj THEN r ELSE objs[o]
      /\ \A u \in Callers : thr'[u].obj = thr[u].obj
      /\ m_caches' = m_caches
  BY DEF TypeOK, Moves
<1>2. Referenced(m_caches', thr') = Referenced(m_caches, thr)
  BY <1>1 DEF Referenced
<1>3. thr[t].obj \in Referenced(m_caches, thr)
  BY DEF Referenced
<1>4. Fresh'
  BY <1>1, <1>2, <1>3 DEF Mutex, Fresh
<1>5. \A u \in Callers : u # t /\ InGet(thr[u]) => thr[u].obj # thr[t].obj
  BY DEF Mutex, OneGetPerCache, Moves
<1>6. ASSUME NEW o \in Obj
      PROVE  /\ objs'[o].locked <=> \E u \in Callers : InGet(thr'[u]) /\ thr'[u].obj = o
             /\ \A u, v \in Callers :
                  InGet(thr'[u]) /\ InGet(thr'[v]) /\ thr'[u].obj = o /\ thr'[v].obj = o => u = v
  <2>1. CASE o = thr[t].obj
    BY <2>1, <1>1, <1>5 DEF Moves
  <2>2. CASE o # thr[t].obj
    BY <2>2, <1>1 DEF Mutex, OneGetPerCache
  <2> QED BY <2>1, <2>2
<1>7. OneGetPerCache'
  BY <1>6 DEF OneGetPerCache, InGet
<1> QED BY <1>4, <1>7 DEF Mutex

\* A call that leaves releases it
LEMMA LeavesMutex ==
    ASSUME TypeOK, Mutex, NEW t \in Callers, NEW c, NEW r, Leaves(t, c, r)
    PROVE  Mutex'
<1>1. /\ \A u \in Callers : thr'[u] = IF u = t THEN c ELSE thr[u]
      /\ \A o \in Obj : objs'[o] = IF o \notin Referenced(m_caches', thr') THEN EmptyCache
                                   ELSE IF o = thr[t].obj THEN r ELSE objs[o]
      /\ m_caches' = m_caches
  BY DEF TypeOK, Leaves
<1>2. Fresh'
  BY <1>1 DEF Fresh
<1>3. ~InGet(c) /\ InGet(thr[t]) /\ thr[t].obj \in Obj /\ ~r.locked /\ ~EmptyCache.locked
  BY DEF Leaves, EmptyCache
<1>4. \A u \in Callers : u # t /\ InGet(thr[u]) => thr[u].obj # thr[t].obj
  BY <1>3 DEF Mutex, OneGetPerCache
<1>5. \A u \in Callers : thr'[u].obj \in Referenced(m_caches', thr')
  BY DEF Referenced
<1>6. ASSUME NEW o \in Obj
      PROVE  /\ objs'[o].locked <=> \E u \in Callers : InGet(thr'[u]) /\ thr'[u].obj = o
             /\ \A u, v \in Callers :
                  InGet(thr'[u]) /\ InGet(thr'[v]) /\ thr'[u].obj = o /\ thr'[v].obj = o => u = v
  <2>1. \A u, v \in Callers :
           InGet(thr'[u]) /\ InGet(thr'[v]) /\ thr'[u].obj = o /\ thr'[v].obj = o => u = v
    BY <1>1, <1>3 DEF Mutex, OneGetPerCache
  <2>2. CASE o = thr[t].obj
    BY <2>1, <2>2, <1>1, <1>3, <1>4
  <2>3. CASE o # thr[t].obj /\ o \in Referenced(m_caches', thr')
    BY <2>1, <2>3, <1>1, <1>3 DEF Mutex, OneGetPerCache
  <2>4. CASE o # thr[t].obj /\ o \notin Referenced(m_caches', thr')
    BY <2>1, <2>4, <1>1, <1>3, <1>5
  <2> QED BY <2>2, <2>3, <2>4
<1>7. OneGetPerCache'
  BY <1>6 DEF OneGetPerCache, InGet
<1> QED BY <1>2, <1>7 DEF Mutex

\* A purge takes the object out of the map, not out of the hands of a call
LEMMA PurgeMutex ==
    ASSUME TypeOK, Mutex, NEW sas, Purge(sas), UNCHANGED thr
    PROVE  Mutex'
<1>1. \A o \in Obj : objs'[o] = IF o \in Referenced(m_caches', thr') THEN objs[o] ELSE EmptyCache
  BY DEF Purge, Reclaim
<1>2. Fresh'
  BY <1>1 DEF Fresh
<1>3. \A u \in Callers : thr'[u].obj \in Referenced(m_caches', thr')
  BY DEF Referenced
<1>4. ~EmptyCache.locked
  BY DEF EmptyCache
<1>5. OneGetPerCache'
  BY <1>1, <1>3, <1>4 DEF Mutex, OneGetPerCache, InGet
<1> QED BY <1>2, <1>5 DEF Mutex

\* A call that has only got its reference holds no mutex
LEMMA GetMutex ==
    ASSUME IInv, TypeOK, Mutex, NEW t \in Callers, NEW sa \in Subaccounts, NEW req \in Requests,
           GetCache(t, sa, req)
    PROVE  Mutex'
<1>1. PICK c \in CallRecord :
             /\ thr' = [thr EXCEPT ![t] = c] /\ m_caches' = [m_caches EXCEPT ![sa] = c.obj]
             /\ c.pc = "lock" /\ c.obj \in Obj /\ c.sa = sa /\ c.used = {}
             /\ m_caches[sa] = c.obj \/ (m_caches[sa] = NoObj /\ c.obj \notin Referenced(m_caches, thr))
             /\ thr[t].pc \in {"idle", "done", "failed"}
             /\ UNCHANGED <<server, link, memo, objs, purgedAt, lost>>
  BY GetCall
<1>2. /\ \A u \in Callers : thr'[u] = IF u = t THEN c ELSE thr[u]
      /\ \A sb \in Subaccounts : m_caches'[sb] = IF sb = sa THEN c.obj ELSE m_caches[sb]
      /\ thr[t].obj = NoObj /\ objs' = objs
  BY <1>1 DEF TypeOK, IInv, Caches, Shapes, CallShape
<1>3. \A o \in Obj : o \in Referenced(m_caches, thr) => o \in Referenced(m_caches', thr')
  BY <1>1, <1>2, NoObjAssumption DEF Referenced
<1>4. Fresh'
  BY <1>2, <1>3 DEF Mutex, Fresh
<1>5. OneGetPerCache'
  BY <1>1, <1>2 DEF Mutex, OneGetPerCache, InGet
<1> QED BY <1>4, <1>5 DEF Mutex

\* Every step of a call keeps the mutual exclusion
LEMMA CallerMutex ==
    ASSUME IInv, TypeOK, Mutex, NEW t \in Callers, CallerStep(t)
    PROVE  Mutex'
<1>0. InGet(thr[t]) /\ thr[t].obj \in Obj => objs[thr[t].obj].locked = TRUE
  BY DEF Mutex, OneGetPerCache, TypeOK, CacheRecord
<1>1. CASE LockCache(t)
  <2>1. PICK c \in CallRecord, r \in CacheRecord :
          Moves(t, c, r) /\ c.pc = "fill" /\ r.locked /\ ~objs[thr[t].obj].locked
    BY <1>1, LockMoves
  <2>2. InGet(c) /\ r.locked = TRUE
    BY <2>1 DEF InGet, CacheRecord
  <2> QED BY <2>1, <2>2, MovesMutex
<1>2. CASE ReadPage(t)
  <2>1. PICK c \in CallRecord : Moves(t, c, objs[thr[t].obj]) /\ InGet(c) /\ InGet(thr[t])
    BY <1>2, ReadMoves DEF InGet
  <2>2. PICK r : r = objs[thr[t].obj]
    OBVIOUS
  <2>3. r.locked = TRUE
    BY <2>1, <2>2, <1>0 DEF Moves
  <2> QED BY <2>1, <2>2, <2>3, MovesMutex
<1>3. CASE ApplyFill(t)
  <2>1. PICK c \in CallRecord, r \in CacheRecord :
          Moves(t, c, r) /\ InGet(c) /\ InGet(thr[t]) /\ r.locked = objs[thr[t].obj].locked
    BY <1>3, FillMoves DEF InGet
  <2>3. r.locked = TRUE
    BY <2>1, <1>0 DEF Moves
  <2> QED BY <2>1, <2>3, MovesMutex
<1>4. CASE ApplySpill(t)
  <2>1. PICK c \in CallRecord, r \in CacheRecord :
          Moves(t, c, r) /\ InGet(c) /\ InGet(thr[t]) /\ r.locked = objs[thr[t].obj].locked
    <3>1. PICK c \in CallRecord, r \in CacheRecord :
            /\ Moves(t, c, r) /\ thr[t].pc = "spill_reply" /\ c.pc = "spill"
            /\ r.locked = objs[thr[t].obj].locked
      BY <1>4, SpillMoves, Zenon
    <3>2. InGet(c) /\ InGet(thr[t])
      BY <3>1 DEF InGet
    <3> QED BY <3>1, <3>2
  <2>3. r.locked = TRUE
    BY <2>1, <1>0 DEF Moves
  <2> QED BY <2>1, <2>3, MovesMutex
<1>5. CASE StartResult(t)
  <2>1. PICK c \in CallRecord, r \in CacheRecord :
          Moves(t, c, r) /\ InGet(c) /\ InGet(thr[t]) /\ r.locked = objs[thr[t].obj].locked
    BY <1>5, StartMoves DEF InGet
  <2>3. r.locked = TRUE
    BY <2>1, <1>0 DEF Moves
  <2> QED BY <2>1, <2>3, MovesMutex
<1>6. CASE Return(t)
  BY <1>6, ReturnLeaves, LeavesMutex
<1>7. CASE FetchFails(t)
  BY <1>7, FailLeaves, LeavesMutex
<1>8. CASE ReversedRangeThrows(t)
  BY <1>8, ReversedLeaves, LeavesMutex
<1> QED BY <1>1, <1>2, <1>3, <1>4, <1>5, <1>6, <1>7, <1>8 DEF CallerStep

\* The steps that touch neither the calls nor the caches
OtherStep ==
    \/ UNCHANGED vars
    \/ ConnectionLost \/ Subscribe \/ Deliver \/ DeliverTwice
    \/ on_new_transaction_elides \/ on_new_transaction_throws \/ MemoFails
ListStep ==
    \/ \E sas \in SUBSET Subaccounts, rbf \in Bumps : ServerNewTx(sas, rbf)
    \/ ServerNewBlock \/ \E sa \in Subaccounts : ChangeMemo(sa)
PurgeStep == Relogin \/ on_new_transaction \/ on_new_block \/ MemoPurge

\* Every step is of one of five kinds
LEMMA StepKinds ==
    ASSUME [Next]_vars
    PROVE  \/ OtherStep \/ ListStep \/ PurgeStep
           \/ \E t \in Callers, sa \in Subaccounts, req \in Requests : GetCache(t, sa, req)
           \/ \E t \in Callers : CallerStep(t)
BY DEF Next, OtherStep, ListStep, PurgeStep

\* What the first kind leaves alone
LEMMA OtherFrame ==
    ASSUME OtherStep PROVE UNCHANGED <<txlist, edition, m_caches, objs, thr>>
BY DEF OtherStep, ConnectionLost, Subscribe, Deliver, DeliverTwice, on_new_transaction_elides,
       on_new_transaction_throws, MemoFails, vars, server

\* What a step that purges leaves alone
LEMMA PurgeFrames ==
    ASSUME PurgeStep PROVE (\E sas : Purge(sas)) /\ UNCHANGED <<txlist, edition, thr>>
BY DEF PurgeStep, Relogin, on_new_transaction, on_new_block, MemoPurge, purge_all, purge, server

\* Every step keeps the mutual exclusion
LEMMA MutexNext == IInv /\ TypeOK /\ Mutex /\ [Next]_vars => Mutex'
<1> SUFFICES ASSUME IInv, TypeOK, Mutex, [Next]_vars PROVE Mutex'
  OBVIOUS
<1>1. CASE OtherStep \/ ListStep
  <2>1. UNCHANGED <<m_caches, objs, thr>>
    BY <1>1, OtherFrame, ListSteps DEF ListStep
  <2> QED BY <2>1 DEF Mutex, Fresh, OneGetPerCache, Referenced
<1>2. CASE PurgeStep
  BY <1>2, PurgeFrames, PurgeMutex
<1>3. CASE \E t \in Callers, sa \in Subaccounts, req \in Requests : GetCache(t, sa, req)
  BY <1>3, GetMutex
<1>4. CASE \E t \in Callers : CallerStep(t)
  BY <1>4, CallerMutex
<1> QED BY <1>1, <1>2, <1>3, <1>4, StepKinds

\* It holds when the session starts
LEMMA MutexInit == Init => Mutex
<1> SUFFICES ASSUME Init PROVE Mutex
  OBVIOUS
<1>1. IdleCall.pc = "idle" /\ ~EmptyCache.locked
  BY DEF IdleCall, NewCall, EmptyCache
<1> QED BY <1>1 DEF Init, Mutex, Fresh, OneGetPerCache, InGet

\* However many calls there are: tx_list_cache::get runs for one of them at a
\* time on a cache, and every return and every exception releases the mutex.
THEOREM OneGetAtATime == Spec => []OneGetPerCache
<1>1. Mutex => OneGetPerCache
  BY DEF Mutex
<1> QED BY <1>1, MutexInit, MutexNext, TypeInit, TypeNext, IInvInit, IInvNext, PTL DEF Spec

-----------------------------------------------------------------------------
(* Caches and calls stay good                                              *)

\* The lists stay short enough for the page numbers
ListsShort ==
    \A sa \in Subaccounts :
        /\ edition[sa] <= MaxEdition
        /\ Len(txlist[sa]) + (MaxEdition - edition[sa]) <= NoPage * PAGE

OwnedBy(o, sa) == m_caches[sa] = o \/ \E t \in Callers : thr[t].obj = o /\ thr[t].sa = sa
BeingFilled(o) == \E t \in Callers : Filling(thr[t]) /\ thr[t].obj = o
CachesGood ==
    \A o \in Obj, sa \in Subaccounts :
        OwnedBy(o, sa) => CacheGood(objs[o], txlist[sa], edition[sa], BeingFilled(o))
CallsGood ==
    \A t \in Callers :
        /\ thr[t].used # {} => thr[t].sa \in Subaccounts
        /\ thr[t].sa \in Subaccounts =>
             CallGood(thr[t], objs[thr[t].obj], txlist[thr[t].sa], edition[thr[t].sa])
Good == CachesGood /\ CallsGood

\* A call outside of tx_list_cache::get knows nothing about an object
LEMMA OutsideGood ==
    ASSUME NEW c, NEW r, NEW s, NEW L, NEW e, ~InGet(c), CallGood(c, r, L, e)
    PROVE  CallGood(c, s, L, e)
BY DEF CallGood, InGet, Filling, Spilling, Reading

\* The lists stay short enough
LEMMA ListsShortNext ==
    ASSUME TypeOK, ListsShort, [Next]_vars PROVE ListsShort'
<1>1. CASE ListStep
  <2> SUFFICES ASSUME NEW sa \in Subaccounts
               PROVE  /\ edition'[sa] <= MaxEdition
                      /\ Len(txlist'[sa]) + (MaxEdition - edition'[sa]) <= NoPage * PAGE
    BY DEF ListsShort
  <2>1. \/ edition'[sa] = edition[sa] /\ txlist'[sa] = txlist[sa]
        \/ /\ edition'[sa] = edition[sa] + 1 /\ edition[sa] < MaxEdition
           /\ Len(txlist'[sa]) <= Len(txlist[sa]) + 1
    BY <1>1, ListSteps DEF ListStep
  <2>2. /\ edition[sa] \in Nat /\ MaxEdition \in Nat
        /\ Len(txlist[sa]) \in Nat /\ Len(txlist'[sa]) \in Nat
    <3>1. txlist' \in [Subaccounts -> Seq(Tx)]
      BY <1>1, ListSteps DEF ListStep
    <3> QED BY <3>1, SizesAssumption DEF TypeOK
  <2>3. PICK k \in Int : k = NoPage * PAGE
    BY SizesAssumption DEF NoPage
  <2>4. edition[sa] <= MaxEdition /\ Len(txlist[sa]) + (MaxEdition - edition[sa]) <= k
    BY <2>3 DEF ListsShort
  <2>5. edition'[sa] <= MaxEdition /\ Len(txlist'[sa]) + (MaxEdition - edition'[sa]) <= k
    <3>1. PICK x, y, a, b : x = Len(txlist[sa]) /\ y = Len(txlist'[sa]) /\ a = edition[sa] /\ b = edition'[sa]
      OBVIOUS
    <3>2. x \in Nat /\ y \in Nat /\ a \in Nat /\ MaxEdition \in Nat /\ k \in Int
      BY <2>2, <2>3, <3>1
    <3>3. x + (MaxEdition - a) <= k /\ a <= MaxEdition
      BY <2>4, <3>1
    <3>4. (b = a /\ y = x) \/ (b = a + 1 /\ a < MaxEdition /\ y <= x + 1)
      BY <2>1, <3>1
    <3>5. b <= MaxEdition /\ y + (MaxEdition - b) <= k
      BY <3>2, <3>3, <3>4
    <3> QED BY <3>1, <3>5
  <2> QED BY <2>3, <2>5
<1>2. CASE UNCHANGED <<txlist, edition>>
  BY <1>2 DEF ListsShort
<1>3. ASSUME NEW t \in Callers, CallerStep(t) PROVE UNCHANGED <<txlist, edition>>
  BY <1>3 DEF CallerStep, LockCache, ReadPage, ApplyFill, ApplySpill, StartResult, Return,
     FetchFails, ReversedRangeThrows, server
<1>4. ASSUME NEW t \in Callers, NEW sa \in Subaccounts, NEW req \in Requests, GetCache(t, sa, req)
      PROVE  UNCHANGED <<txlist, edition>>
  BY <1>4 DEF GetCache, server
<1> QED BY <1>1, <1>2, <1>3, <1>4, StepKinds, OtherFrame, PurgeFrames

\* A step of a call that keeps its cache
LEMMA MovesGood ==
    ASSUME IInv, TypeOK, Mutex, Good, NEW t \in Callers, NEW c, NEW r, Moves(t, c, r),
           thr[t].sa \in Subaccounts,
           InGet(thr[t]) \/ ~objs[thr[t].obj].locked,
           CacheGood(r, txlist[thr[t].sa], edition[thr[t].sa], Filling(c)),
           CallGood(c, r, txlist[thr[t].sa], edition[thr[t].sa])
    PROVE  Good'
<1>1. /\ \A u \in Callers : thr'[u] = IF u = t THEN c ELSE thr[u]
      /\ \A o \in Obj : objs'[o] = IF o = thr[t].obj THEN r ELSE objs[o]
      /\ m_caches' = m_caches /\ txlist' = txlist /\ edition' = edition
      /\ c.obj = thr[t].obj /\ c.sa = thr[t].sa /\ thr[t].obj \in Obj
  BY DEF TypeOK, Moves, server
<1>2. \A u \in Callers : u # t /\ InGet(thr[u]) => thr[u].obj # thr[t].obj
  BY <1>1 DEF Mutex, OneGetPerCache
<1>3. CallsGood'
  <2> SUFFICES ASSUME NEW u \in Callers
               PROVE  /\ thr'[u].used # {} => thr'[u].sa \in Subaccounts
                      /\ thr'[u].sa \in Subaccounts =>
                           CallGood(thr'[u], objs'[thr'[u].obj], txlist[thr'[u].sa], edition[thr'[u].sa])
    BY <1>1 DEF CallsGood
  <2>1. CASE u = t
    BY <2>1, <1>1
  <2>2. CASE u # t /\ thr[u].obj = thr[t].obj
    <3>1. ~InGet(thr[u]) /\ thr'[u] = thr[u]
      BY <2>2, <1>1, <1>2
    <3>2. thr[u].sa \in Subaccounts => CallGood(thr[u], objs'[thr[u].obj], txlist[thr[u].sa], edition[thr[u].sa])
      BY <3>1, OutsideGood DEF Good, CallsGood
    <3> QED BY <3>1, <3>2 DEF Good, CallsGood
  <2>3. CASE u # t /\ thr[u].obj # thr[t].obj /\ thr[u].obj \in Obj
    BY <2>3, <1>1 DEF Good, CallsGood
  <2>4. CASE u # t /\ thr[u].obj \notin Obj
    <3>1. ~InGet(thr[u]) /\ thr'[u] = thr[u]
      BY <2>4, <1>1, NoObjAssumption DEF IInv, Caches, Shapes, CallShape, InGet
    <3>2. thr[u].sa \in Subaccounts => CallGood(thr[u], objs'[thr[u].obj], txlist[thr[u].sa], edition[thr[u].sa])
      BY <3>1, OutsideGood DEF Good, CallsGood
    <3> QED BY <3>1, <3>2 DEF Good, CallsGood
  <2> QED BY <2>1, <2>2, <2>3, <2>4
<1>4. CachesGood'
  <2> SUFFICES ASSUME NEW o \in Obj, NEW sa \in Subaccounts, OwnedBy(o, sa)'
               PROVE  CacheGood(objs'[o], txlist[sa], edition[sa], BeingFilled(o)')
    BY <1>1 DEF CachesGood
  <2>1. OwnedBy(o, sa)
    BY <1>1 DEF OwnedBy
  <2>2. CASE o = thr[t].obj
    <3>1. sa = thr[t].sa
      BY <2>1, <2>2, <1>1, NoObjAssumption DEF OwnedBy, IInv, Caches, OneSubaccount
    <3>2. BeingFilled(o)' <=> Filling(c)
      BY <2>2, <1>1, <1>2 DEF BeingFilled, Filling, InGet
    <3> QED BY <2>2, <3>1, <3>2, <1>1 DEF CacheGood
  <2>3. CASE o # thr[t].obj
    <3>1. BeingFilled(o)' <=> BeingFilled(o)
      BY <2>3, <1>1 DEF BeingFilled, Filling
    <3>2. CacheGood(objs[o], txlist[sa], edition[sa], BeingFilled(o))
      BY <2>1 DEF Good, CachesGood
    <3> QED BY <2>3, <3>1, <3>2, <1>1 DEF CacheGood
  <2> QED BY <2>2, <2>3
<1> QED BY <1>3, <1>4 DEF Good

\* A call that lets go of its cache
LEMMA LeavesGood ==
    ASSUME IInv, TypeOK, Mutex, Good, NEW t \in Callers, NEW c, NEW r, Leaves(t, c, r),
           thr[t].sa \in Subaccounts,
           CacheGood(r, txlist[thr[t].sa], edition[thr[t].sa], FALSE),
           c.used # {} => c.sa \in Subaccounts,
           c.sa \in Subaccounts => CallGood(c, EmptyCache, txlist[c.sa], edition[c.sa])
    PROVE  Good'
<1>1. /\ \A u \in Callers : thr'[u] = IF u = t THEN c ELSE thr[u]
      /\ \A o \in Obj : objs'[o] = IF o \notin Referenced(m_caches', thr') THEN EmptyCache
                                   ELSE IF o = thr[t].obj THEN r ELSE objs[o]
      /\ m_caches' = m_caches /\ txlist' = txlist /\ edition' = edition
      /\ c.obj = NoObj /\ thr[t].obj \in Obj /\ ~InGet(c) /\ InGet(thr[t])
  BY DEF TypeOK, Leaves, server
<1>2. \A u \in Callers : u # t /\ InGet(thr[u]) => thr[u].obj # thr[t].obj
  BY <1>1 DEF Mutex, OneGetPerCache
<1>3. CallsGood'
  <2> SUFFICES ASSUME NEW u \in Callers
               PROVE  /\ thr'[u].used # {} => thr'[u].sa \in Subaccounts
                      /\ thr'[u].sa \in Subaccounts =>
                           CallGood(thr'[u], objs'[thr'[u].obj], txlist[thr'[u].sa], edition[thr'[u].sa])
    BY <1>1 DEF CallsGood
  <2>1. CASE ~InGet(thr'[u]) /\ u # t
    <3>1. thr'[u] = thr[u]
      BY <2>1, <1>1
    <3>2. thr[u].sa \in Subaccounts => CallGood(thr[u], objs'[thr[u].obj], txlist[thr[u].sa], edition[thr[u].sa])
      BY <2>1, <3>1, OutsideGood DEF Good, CallsGood
    <3> QED BY <3>1, <3>2 DEF Good, CallsGood
  <2>2. CASE u = t
    <3>1. thr'[u] = c
      BY <2>2, <1>1
    <3>2. c.sa \in Subaccounts => CallGood(c, objs'[c.obj], txlist[c.sa], edition[c.sa])
      BY <1>1, OutsideGood
    <3> QED BY <3>1, <3>2
  <2>3. CASE InGet(thr'[u]) /\ u # t
    <3>1. thr'[u] = thr[u] /\ thr[u].obj # thr[t].obj /\ thr[u].obj \in Obj
      BY <2>3, <1>1, <1>2, NoObjAssumption DEF IInv, Caches, Shapes, CallShape, InGet
    <3>2. thr'[u].obj \in Referenced(m_caches', thr')
      BY DEF Referenced
    <3>3. objs'[thr[u].obj] = objs[thr[u].obj]
      BY <3>1, <3>2, <1>1
    <3> QED BY <3>1, <3>3 DEF Good, CallsGood
  <2> QED BY <2>1, <2>2, <2>3
<1>4. CachesGood'
  <2> SUFFICES ASSUME NEW o \in Obj, NEW sa \in Subaccounts, OwnedBy(o, sa)'
               PROVE  CacheGood(objs'[o], txlist[sa], edition[sa], BeingFilled(o)')
    BY <1>1 DEF CachesGood
  <2>1. OwnedBy(o, sa) /\ o \in Referenced(m_caches', thr')
    BY <1>1, NoObjAssumption DEF OwnedBy, Referenced
  <2>2. CASE o = thr[t].obj
    <3>1. sa = thr[t].sa
      BY <2>1, <2>2, <1>1, NoObjAssumption DEF OwnedBy, IInv, Caches, OneSubaccount
    <3>2. BeingFilled(o)' <=> FALSE
      BY <2>2, <1>1, <1>2, NoObjAssumption DEF BeingFilled, Filling, InGet
    <3> QED BY <2>1, <2>2, <3>1, <3>2, <1>1 DEF CacheGood
  <2>3. CASE o # thr[t].obj
    <3>1. BeingFilled(o)' <=> BeingFilled(o)
      BY <2>3, <1>1, NoObjAssumption DEF BeingFilled, Filling
    <3>2. CacheGood(objs[o], txlist[sa], edition[sa], BeingFilled(o))
      BY <2>1 DEF Good, CachesGood
    <3> QED BY <2>1, <2>3, <3>1, <3>2, <1>1 DEF CacheGood
  <2> QED BY <2>2, <2>3
<1> QED BY <1>3, <1>4 DEF Good

\* What a call in tx_list_cache::get knows of its cache
LEMMA InGetGood ==
    ASSUME IInv, TypeOK, Mutex, Good, NEW t \in Callers, InGet(thr[t])
    PROVE  /\ CallGood(thr[t], objs[thr[t].obj], txlist[thr[t].sa], edition[thr[t].sa])
           /\ CacheGood(objs[thr[t].obj], txlist[thr[t].sa], edition[thr[t].sa], Filling(thr[t]))
           /\ thr[t].sa \in Subaccounts
<1>1. thr[t].sa \in Subaccounts /\ thr[t].obj \in Obj
  BY CallTypes DEF InGet
<1>2. OwnedBy(thr[t].obj, thr[t].sa)
  BY DEF OwnedBy
<1>3. BeingFilled(thr[t].obj) <=> Filling(thr[t])
  BY <1>1 DEF BeingFilled, Filling, InGet, Mutex, OneGetPerCache
<1>4. CacheGood(objs[thr[t].obj], txlist[thr[t].sa], edition[thr[t].sa], BeingFilled(thr[t].obj))
  BY <1>1, <1>2 DEF Good, CachesGood
<1>5. CacheGood(objs[thr[t].obj], txlist[thr[t].sa], edition[thr[t].sa], Filling(thr[t]))
  BY <1>3, <1>4 DEF CacheGood
<1> QED BY <1>1, <1>5 DEF Good, CallsGood

\* The server changes lists
LEMMA ListsGood ==
    ASSUME IInv, TypeOK, Mutex, Good, ListStep
    PROVE  Good'
<1>1. /\ txlist' \in [Subaccounts -> Seq(Tx)] /\ edition' \in [Subaccounts -> Nat]
      /\ \A sa \in Subaccounts :
            \/ edition'[sa] = edition[sa] /\ txlist'[sa] = txlist[sa]
            \/ edition'[sa] = edition[sa] + 1
      /\ UNCHANGED <<m_caches, objs, thr>>
  BY ListSteps DEF ListStep
<1>2. CachesGood'
  <2> SUFFICES ASSUME NEW o \in Obj, NEW sa \in Subaccounts, OwnedBy(o, sa)
               PROVE  CacheGood(objs[o], txlist'[sa], edition'[sa], BeingFilled(o))
    BY <1>1 DEF CachesGood, OwnedBy, BeingFilled, Filling
  <2>1. CacheGood(objs[o], txlist[sa], edition[sa], BeingFilled(o))
    BY DEF Good, CachesGood
  <2>2. CASE edition'[sa] = edition[sa] /\ txlist'[sa] = txlist[sa]
    BY <2>1, <2>2
  <2>3. CASE edition'[sa] = edition[sa] + 1
    <3>1. PICK r \in CacheRecord, L, M \in Seq(Tx), e \in Nat, d \in Nat, f \in BOOLEAN :
            /\ r = objs[o] /\ L = txlist[sa] /\ M = txlist'[sa] /\ e = edition[sa]
            /\ d = edition'[sa] /\ (f <=> BeingFilled(o))
      BY <1>1 DEF TypeOK
    <3>2. CacheGood(r, L, e, f) /\ e < d
      BY <2>1, <2>3, <3>1 DEF CacheGood
    <3>3. CacheGood(r, M, d, f)
      BY <3>2, CacheChanged
    <3> QED BY <3>1, <3>3 DEF CacheGood
  <2> QED BY <2>2, <2>3, <1>1
<1>3. CallsGood'
  <2> SUFFICES ASSUME NEW u \in Callers
               PROVE  /\ thr[u].used # {} => thr[u].sa \in Subaccounts
                      /\ thr[u].sa \in Subaccounts =>
                           CallGood(thr[u], objs[thr[u].obj], txlist'[thr[u].sa], edition'[thr[u].sa])
    BY <1>1 DEF CallsGood
  <2>0. thr[u].used # {} => thr[u].sa \in Subaccounts
    BY DEF Good, CallsGood
  <2> SUFFICES ASSUME thr[u].sa \in Subaccounts
               PROVE  CallGood(thr[u], objs[thr[u].obj], txlist'[thr[u].sa], edition'[thr[u].sa])
    BY <2>0
  <2>1. CallGood(thr[u], objs[thr[u].obj], txlist[thr[u].sa], edition[thr[u].sa])
    BY DEF Good, CallsGood
  <2>2. CASE edition'[thr[u].sa] = edition[thr[u].sa] /\ txlist'[thr[u].sa] = txlist[thr[u].sa]
    BY <2>1, <2>2
  <2>3. CASE edition'[thr[u].sa] = edition[thr[u].sa] + 1
    <3>0. /\ thr[u] \in CallRecord /\ txlist'[thr[u].sa] \in Seq(Tx)
          /\ edition[thr[u].sa] \in Nat /\ edition'[thr[u].sa] \in Nat
      BY <1>1 DEF TypeOK
    <3>1. PICK c, r, L, M, e, d :
            /\ c = thr[u] /\ r = objs[thr[u].obj] /\ L = txlist[thr[u].sa] /\ M = txlist'[thr[u].sa]
            /\ e = edition[thr[u].sa] /\ d = edition'[thr[u].sa]
      OBVIOUS
    <3>a. c \in CallRecord /\ M \in Seq(Tx) /\ e \in Nat /\ d \in Nat
      BY <3>0, <3>1
    <3>2. CallGood(c, r, L, e) /\ e < d
      BY <2>1, <2>3, <3>1, <3>a
    <3>3. Filling(c) => CacheGood(r, L, e, TRUE)
      <4> SUFFICES ASSUME Filling(c) PROVE CacheGood(r, L, e, TRUE)
        OBVIOUS
      <4>1. InGet(thr[u]) /\ Filling(thr[u])
        BY <3>1 DEF Filling, InGet
      <4>2. CacheGood(r, L, e, Filling(thr[u]))
        BY <3>1, <4>1, InGetGood
      <4> QED BY <4>1, <4>2 DEF CacheGood
    <3>4. CallGood(c, r, M, d)
      BY <3>a, <3>2, <3>3, CallChanged
    <3> QED BY <3>1, <3>4
  <2> QED BY <2>2, <2>3, <1>1
<1> QED BY <1>2, <1>3 DEF Good

\* A purge leaves what calls still hold as it is
LEMMA PurgeGood ==
    ASSUME IInv, TypeOK, Mutex, Good, PurgeStep
    PROVE  Good'
<1>1. PICK sas : Purge(sas) /\ UNCHANGED <<txlist, edition, thr>>
  BY PurgeFrames
<1>2. /\ \A o \in Obj : o \in Referenced(m_caches', thr) => objs'[o] = objs[o]
      /\ \A sa \in Subaccounts : m_caches'[sa] = m_caches[sa] \/ m_caches'[sa] = NoObj
  BY <1>1 DEF Purge, Reclaim
<1>3. CachesGood'
  <2> SUFFICES ASSUME NEW o \in Obj, NEW sa \in Subaccounts, OwnedBy(o, sa)'
               PROVE  CacheGood(objs'[o], txlist[sa], edition[sa], BeingFilled(o))
    BY <1>1 DEF CachesGood, BeingFilled, Filling
  <2>1. OwnedBy(o, sa) /\ o \in Referenced(m_caches', thr)
    BY <1>1, <1>2, NoObjAssumption DEF OwnedBy, Referenced
  <2> QED BY <2>1, <1>2 DEF Good, CachesGood
<1>4. CallsGood'
  <2> SUFFICES ASSUME NEW u \in Callers
               PROVE  /\ thr[u].used # {} => thr[u].sa \in Subaccounts
                      /\ thr[u].sa \in Subaccounts =>
                           CallGood(thr[u], objs'[thr[u].obj], txlist[thr[u].sa], edition[thr[u].sa])
    BY <1>1 DEF CallsGood
  <2>1. CASE InGet(thr[u])
    <3>1. thr[u].obj \in Obj /\ thr[u].obj \in Referenced(m_caches', thr)
      BY <2>1, CallTypes DEF InGet, Referenced
    <3> QED BY <3>1, <1>2 DEF Good, CallsGood
  <2>2. CASE ~InGet(thr[u])
    BY <2>2, OutsideGood DEF Good, CallsGood
  <2> QED BY <2>1, <2>2
<1> QED BY <1>3, <1>4 DEF Good

\* A call takes a reference to the cache of its subaccount, or to a new one
LEMMA GetGood ==
    ASSUME IInv, TypeOK, Mutex, Good, NEW t \in Callers, NEW sa \in Subaccounts, NEW req \in Requests,
           GetCache(t, sa, req)
    PROVE  Good'
<1>1. PICK c \in CallRecord :
             /\ thr' = [thr EXCEPT ![t] = c] /\ m_caches' = [m_caches EXCEPT ![sa] = c.obj]
             /\ c.pc = "lock" /\ c.obj \in Obj /\ c.sa = sa /\ c.used = {}
             /\ m_caches[sa] = c.obj \/ (m_caches[sa] = NoObj /\ c.obj \notin Referenced(m_caches, thr))
             /\ thr[t].pc \in {"idle", "done", "failed"}
             /\ UNCHANGED <<server, link, memo, objs, purgedAt, lost>>
  BY GetCall
<1>2. /\ \A u \in Callers : thr'[u] = IF u = t THEN c ELSE thr[u]
      /\ \A sb \in Subaccounts : m_caches'[sb] = IF sb = sa THEN c.obj ELSE m_caches[sb]
      /\ thr[t].obj = NoObj /\ objs' = objs /\ txlist' = txlist /\ edition' = edition
      /\ ~Filling(c) /\ ~Filling(thr[t])
  BY <1>1 DEF TypeOK, IInv, Caches, Shapes, CallShape, server, Filling
<1>3. CallsGood'
  <2> SUFFICES ASSUME NEW u \in Callers
               PROVE  /\ thr'[u].used # {} => thr'[u].sa \in Subaccounts
                      /\ thr'[u].sa \in Subaccounts =>
                           CallGood(thr'[u], objs[thr'[u].obj], txlist[thr'[u].sa], edition[thr'[u].sa])
    BY <1>2 DEF CallsGood
  <2>1. CASE u = t
    BY <2>1, <1>1, <1>2 DEF CallGood, Filling, Spilling, Reading
  <2>2. CASE u # t
    BY <2>2, <1>2 DEF Good, CallsGood
  <2> QED BY <2>1, <2>2
<1>4. CachesGood'
  <2> SUFFICES ASSUME NEW o \in Obj, NEW sb \in Subaccounts, OwnedBy(o, sb)'
               PROVE  CacheGood(objs[o], txlist[sb], edition[sb], BeingFilled(o)')
    BY <1>2 DEF CachesGood
  <2>1. BeingFilled(o)' <=> BeingFilled(o)
    BY <1>2 DEF BeingFilled, Filling
  <2>2. OwnedBy(o, sb) \/ (o = c.obj /\ sb = sa)
    BY <1>1, <1>2 DEF OwnedBy
  <2>3. CASE OwnedBy(o, sb)
    <3>1. CacheGood(objs[o], txlist[sb], edition[sb], BeingFilled(o))
      BY <2>3 DEF Good, CachesGood
    <3> QED BY <2>1, <3>1 DEF CacheGood
  <2>4. CASE ~OwnedBy(o, sb) /\ o = c.obj /\ sb = sa
    <3>1. o \notin Referenced(m_caches, thr)
      BY <2>4, <1>1 DEF OwnedBy
    <3>2. objs[o] = EmptyCache /\ ~BeingFilled(o)
      BY <3>1 DEF Mutex, Fresh, BeingFilled, Referenced
    <3>3. CacheGood(EmptyCache, txlist[sb], edition[sb], FALSE)
      BY EmptyGood DEF TypeOK
    <3> QED BY <2>1, <3>2, <3>3 DEF CacheGood
  <2> QED BY <2>2, <2>3, <2>4
<1> QED BY <1>3, <1>4 DEF Good

\* The call starts from what it finds in the cache
LEMMA LockCacheGood ==
    ASSUME IInv, TypeOK, Mutex, Good, NEW t \in Callers, LockCache(t)
    PROVE  Good'
<1>1. PICK c \in CallRecord, r \in CacheRecord :
        /\ Moves(t, c, r)
        /\ thr[t].pc = "lock" /\ ~objs[thr[t].obj].locked /\ r.locked
        /\ c.pc = "fill" /\ c.page = objs[thr[t].obj].next /\ c.fetched = Len(objs[thr[t].obj].txs)
        /\ c.used = objs[thr[t].obj].eds /\ c.torn = objs[thr[t].obj].torn
        /\ r.txs = objs[thr[t].obj].txs /\ r.next = objs[thr[t].obj].next
        /\ r.firstEmpty = objs[thr[t].obj].firstEmpty
        /\ r.eds = objs[thr[t].obj].eds /\ r.torn = objs[thr[t].obj].torn
  BY LockMoves
<1>2. PICK o, L, e : o = objs[thr[t].obj] /\ L = txlist[thr[t].sa] /\ e = edition[thr[t].sa]
  OBVIOUS
<1>3. thr[t].obj \in Obj /\ thr[t].sa \in Subaccounts
  BY <1>1, CallTypes
<1>4. CacheGood(o, L, e, FALSE)
  <2>1. OwnedBy(thr[t].obj, thr[t].sa)
    BY DEF OwnedBy
  <2>2. ~BeingFilled(thr[t].obj)
    BY <1>1, <1>3 DEF BeingFilled, Filling, InGet, Mutex, OneGetPerCache
  <2>3. CacheGood(objs[thr[t].obj], txlist[thr[t].sa], edition[thr[t].sa], BeingFilled(thr[t].obj))
    BY <1>3, <2>1 DEF Good, CachesGood
  <2> QED BY <1>2, <2>2, <2>3 DEF CacheGood
<1>5. CacheGood(r, L, e, TRUE) /\ CallGood(c, r, L, e)
  <2>1. /\ c.pc = "fill" /\ c.page = o.next /\ c.fetched = Len(o.txs)
        /\ c.used = o.eds /\ c.torn = o.torn
        /\ r.txs = o.txs /\ r.next = o.next
        /\ r.firstEmpty = o.firstEmpty
        /\ r.eds = o.eds /\ r.torn = o.torn
    BY <1>1, <1>2
  <2> QED BY <1>4, <2>1, LockGood
<1>6. CacheGood(r, L, e, Filling(c))
  BY <1>1, <1>5 DEF Filling, CacheGood
<1> QED BY <1>1, <1>2, <1>3, <1>5, <1>6, MovesGood

\* The reply is the page of the present list
LEMMA ReadPageGood ==
    ASSUME IInv, TypeOK, Mutex, Good, NEW t \in Callers, ReadPage(t)
    PROVE  Good'
<1>1. PICK c \in CallRecord :
        /\ Moves(t, c, objs[thr[t].obj])
        /\ \/ thr[t].pc = "fill" /\ c.pc = "fill_reply"
           \/ thr[t].pc = "spill" /\ c.pc = "spill_reply"
        /\ c.reply = Visible(Page(txlist[thr[t].sa], thr[t].page)) /\ c.replyEd = edition[thr[t].sa]
        /\ c.page = thr[t].page /\ c.fetched = thr[t].fetched /\ c.used = thr[t].used
        /\ c.torn = thr[t].torn /\ c.first = thr[t].first /\ c.last = thr[t].last
        /\ c.result = thr[t].result
  BY ReadMoves
<1>2. PICK b, r, L, e : b = thr[t] /\ r = objs[thr[t].obj] /\ L = txlist[thr[t].sa] /\ e = edition[thr[t].sa]
  OBVIOUS
<1>3. /\ CallGood(b, r, L, e) /\ CacheGood(r, L, e, Filling(b)) /\ thr[t].sa \in Subaccounts
      /\ InGet(thr[t]) /\ e \in Nat
  <2>1. InGet(thr[t])
    BY <1>1 DEF InGet
  <2>2. edition[thr[t].sa] \in Nat
    BY <2>1, CallTypes DEF InGet
  <2> QED BY <1>2, <2>1, <2>2, InGetGood
<1>4. /\ \/ b.pc = "fill" /\ c.pc = "fill_reply"
         \/ b.pc = "spill" /\ c.pc = "spill_reply"
      /\ c.reply = Visible(Page(L, b.page)) /\ c.replyEd = e
      /\ c.page = b.page /\ c.fetched = b.fetched /\ c.used = b.used
      /\ c.torn = b.torn /\ c.first = b.first /\ c.last = b.last
      /\ c.result = b.result
  BY <1>1, <1>2
<1>5. CallGood(c, r, L, e)
  <2>1. ReplyGood(c, L, e)
    BY <1>3, <1>4 DEF ReplyGood
  <2>2. Filling(c) => FillGood(c, r, L, e)
    BY <1>3, <1>4 DEF CallGood, Filling, FillGood
  <2>3. Spilling(c) => SpillGood(c, r, L, e)
    BY <1>3, <1>4 DEF CallGood, Spilling, SpillGood
  <2>4. c.pc # "done" /\ \A ed \in c.used : ed <= e
    BY <1>3, <1>4 DEF CallGood
  <2> QED BY <2>1, <2>2, <2>3, <2>4 DEF CallGood
<1>6. CacheGood(r, L, e, Filling(c))
  BY <1>3, <1>4 DEF Filling, CacheGood
<1>7. Moves(t, c, r)
  BY <1>1, <1>2
<1> QED BY <1>2, <1>3, <1>5, <1>6, <1>7, MovesGood

\* The first loop extends the cache by the page
LEMMA ApplyFillGood ==
    ASSUME IInv, TypeOK, Mutex, Good, NEW t \in Callers, ApplyFill(t)
    PROVE  Good'
<1>1. PICK c \in CallRecord, s \in CacheRecord :
        /\ Moves(t, c, s)
        /\ thr[t].pc = "fill_reply" /\ s.locked = objs[thr[t].obj].locked
        /\ c.pc = "fill" /\ c.page = thr[t].page + 1
        /\ c.fetched = thr[t].fetched + Len(thr[t].reply)
        /\ c.used = thr[t].used \cup {thr[t].replyEd} /\ c.torn = thr[t].torn
        /\ s.txs = objs[thr[t].obj].txs \o thr[t].reply
        /\ s.eds = objs[thr[t].obj].eds \cup {thr[t].replyEd} /\ s.torn = objs[thr[t].obj].torn
        /\ s.firstEmpty = IF thr[t].reply = <<>> THEN thr[t].page ELSE objs[thr[t].obj].firstEmpty
  BY FillMoves
<1>2. PICK b, r, L, e : b = thr[t] /\ r = objs[thr[t].obj] /\ L = txlist[thr[t].sa] /\ e = edition[thr[t].sa]
  OBVIOUS
<1>3. /\ CallGood(b, r, L, e) /\ CacheGood(r, L, e, TRUE) /\ thr[t].sa \in Subaccounts
      /\ InGet(thr[t]) /\ e \in Nat /\ L \in Seq(Tx) /\ b \in CallRecord /\ r \in CacheRecord
  <2>1. InGet(thr[t]) /\ Filling(b)
    BY <1>1, <1>2 DEF InGet, Filling
  <2>2. e \in Nat /\ L \in Seq(Tx) /\ b \in CallRecord /\ r \in CacheRecord
    BY <1>2, <2>1, CallTypes DEF InGet
  <2>3. CallGood(b, r, L, e) /\ CacheGood(r, L, e, Filling(b)) /\ thr[t].sa \in Subaccounts
    BY <1>2, <2>1, InGetGood
  <2> QED BY <2>1, <2>2, <2>3 DEF CacheGood
<1>4. /\ b.pc = "fill_reply" /\ c.pc = "fill" /\ c.page = b.page + 1
      /\ c.fetched = b.fetched + Len(b.reply)
      /\ c.used = b.used \cup {b.replyEd} /\ c.torn = b.torn
      /\ s.txs = r.txs \o b.reply
      /\ s.eds = r.eds \cup {b.replyEd} /\ s.torn = r.torn
      /\ s.firstEmpty = IF b.reply = <<>> THEN b.page ELSE r.firstEmpty
  BY <1>1, <1>2
<1>5. CacheGood(s, L, e, TRUE) /\ CallGood(c, s, L, e)
  BY <1>3, <1>4, FillStepGood
<1>6. CacheGood(s, L, e, Filling(c))
  BY <1>4, <1>5 DEF Filling, CacheGood
<1> QED BY <1>1, <1>2, <1>3, <1>5, <1>6, MovesGood

\* The second loop extends the result by the part of the page in range
LEMMA ApplySpillGood ==
    ASSUME IInv, TypeOK, Mutex, Good, NEW t \in Callers, ApplySpill(t)
    PROVE  Good'
<1>1. PICK c \in CallRecord, s \in CacheRecord :
        /\ Moves(t, c, s)
        /\ thr[t].pc = "spill_reply" /\ s.locked = objs[thr[t].obj].locked
        /\ c.pc = "spill" /\ c.page = thr[t].page + 1
        /\ c.fetched = thr[t].fetched + Len(thr[t].reply)
        /\ c.used = thr[t].used \cup {thr[t].replyEd} /\ c.torn = thr[t].torn
        /\ c.first = thr[t].first /\ c.last = thr[t].last
        /\ c.result = thr[t].result \o
             Wanted(thr[t].reply, thr[t].fetched + Len(thr[t].reply), thr[t].first, thr[t].last)
        /\ s.txs = objs[thr[t].obj].txs /\ s.next = objs[thr[t].obj].next
        /\ s.torn = objs[thr[t].obj].torn
        /\ s.eds = IF thr[t].reply = <<>> THEN objs[thr[t].obj].eds \cup {thr[t].replyEd}
                   ELSE objs[thr[t].obj].eds
        /\ s.firstEmpty = IF thr[t].reply = <<>> THEN thr[t].page ELSE objs[thr[t].obj].firstEmpty
  BY SpillMoves
<1>2. PICK b, r, L, e : b = thr[t] /\ r = objs[thr[t].obj] /\ L = txlist[thr[t].sa] /\ e = edition[thr[t].sa]
  OBVIOUS
<1>3. /\ CallGood(b, r, L, e) /\ CacheGood(r, L, e, FALSE) /\ thr[t].sa \in Subaccounts
      /\ InGet(thr[t]) /\ e \in Nat /\ L \in Seq(Tx) /\ b \in CallRecord /\ r \in CacheRecord
  <2>1. InGet(thr[t]) /\ ~Filling(b)
    BY <1>1, <1>2 DEF InGet, Filling
  <2>2. e \in Nat /\ L \in Seq(Tx) /\ b \in CallRecord /\ r \in CacheRecord
    BY <1>2, <2>1, CallTypes DEF InGet
  <2>3. CallGood(b, r, L, e) /\ CacheGood(r, L, e, Filling(b)) /\ thr[t].sa \in Subaccounts
    BY <1>2, <2>1, InGetGood
  <2> QED BY <2>1, <2>2, <2>3 DEF CacheGood
<1>4. /\ b.pc = "spill_reply" /\ c.pc = "spill" /\ c.page = b.page + 1
      /\ c.fetched = b.fetched + Len(b.reply)
      /\ c.used = b.used \cup {b.replyEd} /\ c.torn = b.torn /\ c.first = b.first /\ c.last = b.last
      /\ c.result = b.result \o Wanted(b.reply, b.fetched + Len(b.reply), b.first, b.last)
      /\ s.txs = r.txs /\ s.next = r.next /\ s.torn = r.torn
      /\ s.eds = IF b.reply = <<>> THEN r.eds \cup {b.replyEd} ELSE r.eds
      /\ s.firstEmpty = IF b.reply = <<>> THEN b.page ELSE r.firstEmpty
  BY <1>1, <1>2
<1>5. CacheGood(s, L, e, FALSE) /\ CallGood(c, s, L, e)
  BY <1>3, <1>4, SpillStepGood
<1>6. CacheGood(s, L, e, Filling(c))
  BY <1>4, <1>5 DEF Filling, CacheGood
<1> QED BY <1>1, <1>2, <1>3, <1>5, <1>6, MovesGood

\* The recorded page number tells what the cache holds
LEMMA StartResultGood ==
    ASSUME IInv, TypeOK, Mutex, Good, NEW t \in Callers, StartResult(t)
    PROVE  Good'
<1>1. PICK c \in CallRecord, s \in CacheRecord :
        /\ Moves(t, c, s)
        /\ thr[t].pc = "fill" /\ s.locked = objs[thr[t].obj].locked
        /\ c.pc = "spill" /\ c.page = thr[t].page /\ c.fetched = thr[t].fetched
        /\ c.used = thr[t].used /\ c.torn = thr[t].torn
        /\ c.first = thr[t].first /\ c.last = thr[t].last
        /\ c.result = Slice(objs[thr[t].obj].txs, thr[t].first, thr[t].last)
        /\ s.txs = objs[thr[t].obj].txs /\ s.next = thr[t].page
        /\ s.firstEmpty = objs[thr[t].obj].firstEmpty
        /\ s.eds = objs[thr[t].obj].eds /\ s.torn = objs[thr[t].obj].torn
  BY StartMoves
<1>2. PICK b, r, L, e : b = thr[t] /\ r = objs[thr[t].obj] /\ L = txlist[thr[t].sa] /\ e = edition[thr[t].sa]
  OBVIOUS
<1>3. /\ CallGood(b, r, L, e) /\ CacheGood(r, L, e, TRUE) /\ thr[t].sa \in Subaccounts
      /\ InGet(thr[t]) /\ e \in Nat /\ L \in Seq(Tx) /\ b \in CallRecord /\ r \in CacheRecord
  <2>1. InGet(thr[t]) /\ Filling(b)
    BY <1>1, <1>2 DEF InGet, Filling
  <2>2. e \in Nat /\ L \in Seq(Tx) /\ b \in CallRecord /\ r \in CacheRecord
    BY <1>2, <2>1, CallTypes DEF InGet
  <2>3. CallGood(b, r, L, e) /\ CacheGood(r, L, e, Filling(b)) /\ thr[t].sa \in Subaccounts
    BY <1>2, <2>1, InGetGood
  <2> QED BY <2>1, <2>2, <2>3 DEF CacheGood
<1>4. /\ b.pc = "fill" /\ c.pc = "spill" /\ c.page = b.page /\ c.fetched = b.fetched
      /\ c.used = b.used /\ c.torn = b.torn /\ c.first = b.first /\ c.last = b.last
      /\ c.result = Slice(r.txs, b.first, b.last)
      /\ s.txs = r.txs /\ s.next = b.page /\ s.firstEmpty = r.firstEmpty
      /\ s.eds = r.eds /\ s.torn = r.torn
  BY <1>1, <1>2
<1>5. CacheGood(s, L, e, FALSE) /\ CallGood(c, s, L, e)
  BY <1>3, <1>4, StartGood
<1>6. CacheGood(s, L, e, Filling(c))
  BY <1>4, <1>5 DEF Filling, CacheGood
<1> QED BY <1>1, <1>2, <1>3, <1>5, <1>6, MovesGood

\* No page is left that the range needs
LEMMA ReturnGood ==
    ASSUME IInv, TypeOK, Mutex, Good, ListsShort, NEW t \in Callers, Return(t)
    PROVE  Good'
<1>1. PICK c \in CallRecord, s \in CacheRecord :
        /\ Leaves(t, c, s)
        /\ thr[t].pc = "spill" /\ ~More(thr[t], objs[thr[t].obj])
        /\ c.pc = "done" /\ c.sa = thr[t].sa /\ c.used = thr[t].used /\ c.torn = thr[t].torn
        /\ c.first = thr[t].first /\ c.last = thr[t].last /\ c.result = thr[t].result
        /\ s.txs = objs[thr[t].obj].txs /\ s.next = objs[thr[t].obj].next
        /\ s.firstEmpty = objs[thr[t].obj].firstEmpty
        /\ s.eds = objs[thr[t].obj].eds /\ s.torn = objs[thr[t].obj].torn
  BY ReturnLeaves
<1>2. PICK b, r, L, e : b = thr[t] /\ r = objs[thr[t].obj] /\ L = txlist[thr[t].sa] /\ e = edition[thr[t].sa]
  OBVIOUS
<1>3. /\ CallGood(b, r, L, e) /\ CacheGood(r, L, e, FALSE) /\ thr[t].sa \in Subaccounts
      /\ e \in Nat /\ L \in Seq(Tx) /\ b \in CallRecord /\ r \in CacheRecord
  <2>1. InGet(thr[t]) /\ ~Filling(b)
    BY <1>1, <1>2 DEF InGet, Filling
  <2>2. e \in Nat /\ L \in Seq(Tx) /\ b \in CallRecord /\ r \in CacheRecord
    BY <1>2, <2>1, CallTypes DEF InGet
  <2>3. CallGood(b, r, L, e) /\ CacheGood(r, L, e, Filling(b)) /\ thr[t].sa \in Subaccounts
    BY <1>2, <2>1, InGetGood
  <2> QED BY <2>1, <2>2, <2>3 DEF CacheGood
<1>4. /\ b.pc = "spill" /\ ~More(b, r)
      /\ c.pc = "done" /\ c.used = b.used /\ c.torn = b.torn
      /\ c.first = b.first /\ c.last = b.last /\ c.result = b.result
      /\ s.txs = r.txs /\ s.next = r.next /\ s.firstEmpty = r.firstEmpty
      /\ s.eds = r.eds /\ s.torn = r.torn
  BY <1>1, <1>2
<1>5. Len(L) <= NoPage * PAGE
  <2>1. PICK k \in Int : k = NoPage * PAGE
    BY SizesAssumption DEF NoPage
  <2>2. e <= MaxEdition /\ Len(L) + (MaxEdition - e) <= k
    BY <1>2, <1>3, <2>1 DEF ListsShort
  <2>3. Len(L) \in Nat /\ MaxEdition \in Nat
    BY <1>3, SizesAssumption
  <2>4. Len(L) <= k
    BY <1>3, <2>2, <2>3
  <2> QED BY <2>1, <2>4
<1>6. CallGood(c, EmptyCache, L, e)
  BY <1>3, <1>4, <1>5, DoneStepGood
<1>7. CacheGood(s, L, e, FALSE)
  BY <1>3, <1>4 DEF CacheGood
<1> QED BY <1>1, <1>2, <1>3, <1>6, <1>7, LeavesGood

\* A call that threw knows nothing
LEMMA ThrownGood ==
    ASSUME NEW c, c.pc = "failed", c.used = {}, NEW r, NEW L, NEW e
    PROVE  CallGood(c, r, L, e)
BY DEF CallGood, Filling, Spilling, Reading

\* An exception leaves a cache that is good or known to be torn
LEMMA FetchFailsGood ==
    ASSUME IInv, TypeOK, Mutex, Good, NEW t \in Callers, FetchFails(t)
    PROVE  Good'
<1>1. PICK c \in CallRecord, s \in CacheRecord :
        /\ Leaves(t, c, s)
        /\ c.pc = "failed" /\ c.used = {}
        /\ s.txs = objs[thr[t].obj].txs /\ s.next = objs[thr[t].obj].next
        /\ s.firstEmpty = objs[thr[t].obj].firstEmpty /\ s.eds = objs[thr[t].obj].eds
        /\ s.torn = (objs[thr[t].obj].torn \/ (Filling(thr[t]) /\ thr[t].page # objs[thr[t].obj].next))
  BY FailLeaves
<1>2. PICK b, r, L, e : b = thr[t] /\ r = objs[thr[t].obj] /\ L = txlist[thr[t].sa] /\ e = edition[thr[t].sa]
  OBVIOUS
<1>3. /\ CallGood(b, r, L, e) /\ CacheGood(r, L, e, Filling(b)) /\ thr[t].sa \in Subaccounts
      /\ r \in CacheRecord
  <2>1. InGet(thr[t])
    BY <1>1 DEF Leaves
  <2>2. r \in CacheRecord
    BY <1>2, <2>1, CallTypes DEF InGet
  <2> QED BY <1>2, <2>1, <2>2, InGetGood
<1>4. /\ s.txs = r.txs /\ s.next = r.next /\ s.firstEmpty = r.firstEmpty /\ s.eds = r.eds
      /\ s.torn = (r.torn \/ (Filling(b) /\ b.page # r.next))
  BY <1>1, <1>2
<1>5. CacheGood(s, L, e, FALSE)
  <2>1. ASSUME r.eds \subseteq {e} PROVE s.torn \/ s.txs = Upto(L, s.next)
    <3>1. CASE Filling(b)
      <4>1. FillGood(b, r, L, e)
        BY <1>3, <3>1 DEF CallGood
      <4>2. r.torn \/ r.txs = Upto(L, b.page)
        BY <2>1, <4>1, <1>3 DEF FillGood, CacheRecord
      <4> QED BY <1>4, <3>1, <4>2
    <3>2. CASE ~Filling(b)
      BY <1>3, <1>4, <2>1, <3>2 DEF CacheGood
    <3> QED BY <3>1, <3>2
  <2> QED BY <1>3, <1>4, <2>1 DEF CacheGood
<1>6. c.sa \in Subaccounts => CallGood(c, EmptyCache, txlist[c.sa], edition[c.sa])
  BY <1>1, ThrownGood
<1> QED BY <1>1, <1>2, <1>3, <1>5, <1>6, LeavesGood

\* An exception after the first loop leaves a good cache
LEMMA ReversedGood ==
    ASSUME IInv, TypeOK, Mutex, Good, NEW t \in Callers, ReversedRangeThrows(t)
    PROVE  Good'
<1>1. PICK c \in CallRecord, s \in CacheRecord :
        /\ Leaves(t, c, s)
        /\ thr[t].pc = "fill" /\ c.pc = "failed" /\ c.used = {}
        /\ s.txs = objs[thr[t].obj].txs /\ s.next = thr[t].page
        /\ s.firstEmpty = objs[thr[t].obj].firstEmpty
        /\ s.eds = objs[thr[t].obj].eds /\ s.torn = objs[thr[t].obj].torn
  BY ReversedLeaves
<1>2. PICK b, r, L, e : b = thr[t] /\ r = objs[thr[t].obj] /\ L = txlist[thr[t].sa] /\ e = edition[thr[t].sa]
  OBVIOUS
<1>3. /\ CallGood(b, r, L, e) /\ CacheGood(r, L, e, TRUE) /\ thr[t].sa \in Subaccounts
      /\ e \in Nat /\ L \in Seq(Tx) /\ b \in CallRecord /\ r \in CacheRecord
  <2>1. InGet(thr[t]) /\ Filling(b)
    BY <1>1, <1>2 DEF InGet, Filling
  <2>2. e \in Nat /\ L \in Seq(Tx) /\ b \in CallRecord /\ r \in CacheRecord
    BY <1>2, <2>1, CallTypes DEF InGet
  <2>3. CallGood(b, r, L, e) /\ CacheGood(r, L, e, Filling(b)) /\ thr[t].sa \in Subaccounts
    BY <1>2, <2>1, InGetGood
  <2> QED BY <2>1, <2>2, <2>3 DEF CacheGood
<1>4. /\ b.pc = "fill" /\ s.txs = r.txs /\ s.next = b.page /\ s.firstEmpty = r.firstEmpty
      /\ s.eds = r.eds /\ s.torn = r.torn
  BY <1>1, <1>2
<1>5. CacheGood(s, L, e, FALSE)
  BY <1>3, <1>4, StartGood
<1>6. c.sa \in Subaccounts => CallGood(c, EmptyCache, txlist[c.sa], edition[c.sa])
  BY <1>1, ThrownGood
<1> QED BY <1>1, <1>2, <1>3, <1>5, <1>6, LeavesGood

\* Every step keeps caches and calls good
LEMMA GoodNext == IInv /\ TypeOK /\ Mutex /\ ListsShort /\ Good /\ [Next]_vars => Good'
<1> SUFFICES ASSUME IInv, TypeOK, Mutex, ListsShort, Good, [Next]_vars PROVE Good'
  OBVIOUS
<1>1. CASE OtherStep
  <2>1. UNCHANGED <<txlist, edition, m_caches, objs, thr>>
    BY <1>1, OtherFrame
  <2> QED BY <2>1 DEF Good, CachesGood, CallsGood, OwnedBy, BeingFilled, Filling
<1>2. CASE ListStep
  BY <1>2, ListsGood
<1>3. CASE PurgeStep
  BY <1>3, PurgeGood
<1>4. CASE \E t \in Callers, sa \in Subaccounts, req \in Requests : GetCache(t, sa, req)
  BY <1>4, GetGood
<1>5. CASE \E t \in Callers : CallerStep(t)
  <2>1. PICK t \in Callers : CallerStep(t)
    BY <1>5
  <2> QED BY <2>1, LockCacheGood, ReadPageGood, ApplyFillGood, ApplySpillGood, StartResultGood,
             ReturnGood, FetchFailsGood, ReversedGood DEF CallerStep
<1> QED BY <1>1, <1>2, <1>3, <1>4, <1>5, StepKinds

\* They are good when the session starts, and the lists short enough
LEMMA GoodInit == Init => Good /\ ListsShort
<1> SUFFICES ASSUME Init PROVE Good /\ ListsShort
  OBVIOUS
<1>1. IdleCall.pc = "idle" /\ IdleCall.obj = NoObj /\ IdleCall.used = {}
  BY DEF IdleCall, NewCall
<1>2. \A t \in Callers : thr[t].pc = "idle" /\ thr[t].obj = NoObj /\ thr[t].used = {}
  BY <1>1 DEF Init
<1>3. CallsGood
  BY <1>2 DEF CallsGood, CallGood, Filling, Spilling, Reading
<1>4. CachesGood
  BY <1>2, NoObjAssumption DEF Init, CachesGood, OwnedBy
<1>5. ListsShort
  <2> SUFFICES ASSUME NEW sa \in Subaccounts
               PROVE  /\ edition[sa] <= MaxEdition
                      /\ Len(txlist[sa]) + (MaxEdition - edition[sa]) <= NoPage * PAGE
    BY DEF ListsShort
  <2>1. edition[sa] = 0 /\ MaxEdition \in Nat /\ txlist[sa] \in Histories
    BY SizesAssumption DEF Init
  <2>2. Len(txlist[sa]) + MaxEdition <= NoPage * PAGE
    BY <2>1, ListsFit DEF NoPage
  <2>3. MaxEdition - edition[sa] = MaxEdition
    BY <2>1
  <2> QED BY <2>1, <2>2, <2>3
<1> QED BY <1>3, <1>4, <1>5 DEF Good

\* A good call that returned has the range it was asked for
LEMMA GoodExact == Good => ResultExact
<1> SUFFICES ASSUME Good, NEW t \in Callers, Returned(thr[t]), ~thr[t].torn, NoHiddenPage(thr[t].sa)
             PROVE  thr[t].result = Slice(Visible(txlist[thr[t].sa]), thr[t].first, thr[t].last)
  BY DEF ResultExact
<1>1. thr[t].sa \in Subaccounts /\ thr[t].pc = "done"
  BY DEF Good, CallsGood, Returned
<1>2. DoneGood(thr[t], txlist[thr[t].sa], edition[thr[t].sa])
  BY <1>1 DEF Good, CallsGood, CallGood
<1>3. NoneHidden(txlist[thr[t].sa])
  BY DEF NoneHidden, NoHiddenPage, server_get
<1> QED BY <1>2, <1>3 DEF DoneGood, Returned

\* However the pages, CACHE_SIZE and the range fall, whatever other calls left
\* in the cache and whatever purges and changes of the list came in between: a
\* get_raw_transactions that used only pages of the server's present list
\* returns exactly the asked for range of the transactions not replaced.
THEOREM ExactResults == Spec => []ResultExact
<1>1. TypeOK /\ ListsShort /\ [Next]_vars => ListsShort'
  BY ListsShortNext
<1> QED BY <1>1, GoodInit, GoodNext, GoodExact, MutexInit, MutexNext, TypeInit, TypeNext,
           IInvInit, IInvNext, PTL DEF Spec
=============================================================================
