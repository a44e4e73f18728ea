----------------------- MODULE PersistentCacheProofs -----------------------
(***************************************************************************)
(* Proofs about PersistentCache for any number of threads, outputs and     *)
(* faults.                                                                 *)
(***************************************************************************)
EXTENDS PersistentCache, TLAPS

-----------------------------------------------------------------------------
(* The inductive invariant.                                                *)

\* a call is at one output, or at none
CurInv(c) ==
    IF c.pc \in {"set", "blind", "nonce", "insert"} THEN \E o \in Outputs : c.cur = {o} ELSE c.cur = {}

\* What the wallet had when the handler asked is unblinded, has its nonce, or
\* will get it.  An output found blinded had its nonce by then
NonceInv(c, tables) ==
    ~c.swapped =>
        /\ c.known \subseteq tables.outputs \cup tables.nonces
                             \cup (IF c.pc \in HandlerPcs THEN c.ask \cup c.cur ELSE {})
        /\ c.pc \in {"blind", "nonce"} => c.cur \cap c.known \subseteq tables.nonces
        /\ c.missing \cap c.known = {}

\* nlocktimes that were fetched are the server's, or known not to be
ValInv(c, u, d) == c.val \subseteq {u} \/ c.over \/ d > 0

CallInv(c, tables, u, d) == CurInv(c) /\ NonceInv(c, tables) /\ ValInv(c, u, d)
CallsInv == \A w \in Workers : CallInv(thr[w], db, upcoming, due)

\* the file is written by one thread, which has the mutex
WriterInv ==
    \A w \in Workers : thr[w].pc = "writing" =>
        /\ mutex = "writing" /\ m_require_write
        /\ \A v \in Workers : thr[v].pc = "writing" => v = w

IInv == TypeOK /\ CallsInv /\ WriterInv /\ NothingUnsaved /\ OutputsInsertedOnce /\ LocktimesFresh

-----------------------------------------------------------------------------
(* Calls.                                                                  *)

LEMMA IdleIsCall == IdleCall \in Calls
  BY DEF IdleCall, Calls, Locktimes

LEMMA IdleInv ==
  ASSUME NEW tables, NEW u, NEW d PROVE CallInv(IdleCall, tables, u, d)
  BY DEF IdleCall, CallInv, CurInv, NonceInv, ValInv, HandlerPcs

LEMMA Fields ==
  ASSUME NEW c \in Calls
  PROVE  /\ c.pc \in {"idle"} \cup HandlerPcs \cup CallPcs
         /\ c.todo \in SUBSET Outputs /\ c.cur \in SUBSET Outputs /\ c.ask \in SUBSET Outputs
         /\ c.known \in SUBSET Outputs /\ c.val \in Locktimes
         /\ c.over \in BOOLEAN /\ c.swapped \in BOOLEAN /\ c.missing \in SUBSET Outputs
  BY DEF Calls

\* a call that goes on elsewhere
LEMMA Moved ==
  ASSUME NEW c \in Calls, NEW pc \in {"idle"} \cup HandlerPcs \cup CallPcs
  PROVE  /\ [c EXCEPT !.pc = pc] \in Calls /\ [c EXCEPT !.pc = pc].pc = pc
         /\ [c EXCEPT !.pc = pc].todo = c.todo /\ [c EXCEPT !.pc = pc].cur = c.cur
         /\ [c EXCEPT !.pc = pc].ask = c.ask /\ [c EXCEPT !.pc = pc].known = c.known
         /\ [c EXCEPT !.pc = pc].val = c.val /\ [c EXCEPT !.pc = pc].over = c.over
         /\ [c EXCEPT !.pc = pc].swapped = c.swapped /\ [c EXCEPT !.pc = pc].missing = c.missing
  BY DEF Calls

\* tables that lose neither outputs nor nonces
LEMMA Grown ==
  ASSUME NEW c \in Calls, NEW s \in Tables, NEW t \in Tables, NEW u, NEW d,
         CallInv(c, s, u, d), s.outputs \subseteq t.outputs, s.nonces \subseteq t.nonces
  PROVE  CallInv(c, t, u, d)
  BY Fields DEF CallInv, NonceInv

\* one call goes on
LEMMA OneCall ==
  ASSUME thr \in [Workers -> Calls], NEW w \in Workers, NEW c \in Calls,
         thr' = [thr EXCEPT ![w] = c]
  PROVE  /\ thr' \in [Workers -> Calls] /\ thr'[w] = c
         /\ \A v \in Workers : v # w => thr'[v] = thr[v]
  OBVIOUS

LEMMA CallGoesOn ==
  ASSUME IInv, NEW w \in Workers, NEW c \in Calls, thr' = [thr EXCEPT ![w] = c],
         db' \in Tables, db.outputs \subseteq db'.outputs, db.nonces \subseteq db'.nonces,
         upcoming' = upcoming, due' = due, CallInv(c, db', upcoming, due),
         c.pc # "writing", mutex' = mutex \/ mutex # "writing",
         m_require_write => m_require_write'
  PROVE  thr' \in [Workers -> Calls] /\ CallsInv' /\ WriterInv'
  <1>1. thr \in [Workers -> Calls] /\ db \in Tables
    BY DEF IInv, TypeOK
  <1>2. /\ thr' \in [Workers -> Calls] /\ thr'[w] = c
        /\ \A v \in Workers : v # w => thr'[v] = thr[v]
    BY <1>1, OneCall
  <1>3. \A v \in Workers : CallInv(thr[v], db', upcoming, due)
    BY <1>1, Grown DEF IInv, CallsInv
  <1>4. CallsInv'
    BY <1>2, <1>3 DEF CallsInv
  <1>5. \A v \in Workers : thr'[v].pc = "writing" => thr[v].pc = "writing"
    BY <1>2
  <1>6. WriterInv'
    BY <1>5 DEF IInv, WriterInv
  <1> QED  BY <1>2, <1>4, <1>6

\* a step of one call that changes nothing else but the mutex
LEMMA UnlockingStep ==
  ASSUME IInv, NEW w \in Workers, NEW c \in Calls, thr' = [thr EXCEPT ![w] = c],
         CallInv(c, db, upcoming, due), c.pc # "writing",
         mutex' = mutex \/ (mutex # "writing" /\ mutex' = "free"),
         UNCHANGED <<wallet, proc, conn, m_local_encryption_key, db, m_require_write, file,
                     server, crashes, history>>
  PROVE  IInv'
  <1>1. /\ wallet' = wallet /\ proc' = proc /\ conn' = conn /\ db' = db /\ file' = file
        /\ m_local_encryption_key' = m_local_encryption_key
        /\ m_require_write' = m_require_write
        /\ owned' = owned /\ upcoming' = upcoming /\ due' = due /\ crashes' = crashes
        /\ lost' = lost /\ late' = late /\ unwritten' = unwritten /\ aborted' = aborted
    BY DEF server, history
  <1>2. db \in Tables
    BY DEF IInv, TypeOK
  <1>3. thr' \in [Workers -> Calls] /\ CallsInv' /\ WriterInv'
    <2>1. mutex' = mutex \/ mutex # "writing"
      OBVIOUS
    <2>2. /\ db' \in Tables /\ db.outputs \subseteq db'.outputs /\ db.nonces \subseteq db'.nonces
          /\ upcoming' = upcoming /\ due' = due /\ CallInv(c, db', upcoming, due)
      BY <1>1, <1>2
    <2>3. m_require_write => m_require_write'
      BY <1>1
    <2> QED  BY <2>1, <2>2, <2>3, CallGoesOn
  <1>4. TypeOK'
    BY <1>1, <1>3 DEF IInv, TypeOK
  <1>5. NothingUnsaved' /\ OutputsInsertedOnce' /\ LocktimesFresh'
    BY <1>1 DEF IInv, NothingUnsaved, OutputsInsertedOnce, LocktimesFresh, Entries, OnDisk
  <1> QED  BY <1>3, <1>4, <1>5 DEF IInv

\* a step of one call that changes nothing else
LEMMA QuietStep ==
  ASSUME IInv, NEW w \in Workers, NEW c \in Calls, thr' = [thr EXCEPT ![w] = c],
         CallInv(c, db, upcoming, due), c.pc # "writing",
         UNCHANGED <<wallet, proc, session, file, server, crashes, history>>
  PROVE  IInv'
  BY UnlockingStep DEF session

\* the call of a worker
LEMMA CallFacts ==
  ASSUME IInv, NEW w \in Workers
  PROVE  /\ thr[w] \in Calls /\ CallInv(thr[w], db, upcoming, due)
         /\ db \in Tables /\ owned \in SUBSET Outputs /\ upcoming \in 0 .. MaxChanges /\ due \in Nat
  BY DEF IInv, TypeOK, CallsInv

LEMMA EndsKeeps ==
  ASSUME IInv, NEW w \in Workers, Ends(w),
         UNCHANGED <<wallet, proc, session, file, server, crashes, history>>
  PROVE  IInv'
  <1>1. IdleCall.pc # "writing"
    BY DEF IdleCall
  <1> QED  BY <1>1, IdleIsCall, IdleInv, QuietStep DEF Ends

LEMMA GoesKeeps ==
  ASSUME IInv, NEW w \in Workers, NEW pc \in ({"idle"} \cup HandlerPcs \cup CallPcs) \ {"writing"},
         Goes(w, pc), CallInv([thr[w] EXCEPT !.pc = pc], db, upcoming, due),
         UNCHANGED <<wallet, proc, session, file, server, crashes, history>>
  PROVE  IInv'
  <1> DEFINE c == [thr[w] EXCEPT !.pc = pc]
  <1>1. c \in Calls /\ c.pc # "writing"
    BY CallFacts, Moved
  <1>2. thr' = [thr EXCEPT ![w] = c]
    BY DEF Goes
  <1> HIDE DEF c
  <1>3. CallInv(c, db, upcoming, due)
    BY DEF c
  <1> QED  BY <1>1, <1>2, <1>3, QuietStep

-----------------------------------------------------------------------------
(* Steps of one call that change nothing but the call.                     *)

LEMMA NeedsUnblindKeeps ==
  ASSUME IInv, NEW w \in Workers, needs_unblind_call(w) PROVE IInv'
  <1>1. CASE thr' = [thr EXCEPT ![w] = [IdleCall EXCEPT !.pc = "list"]]
    <2> DEFINE c == [IdleCall EXCEPT !.pc = "list"]
    <2>1. c \in Calls /\ c.pc # "writing" /\ thr' = [thr EXCEPT ![w] = c]
      BY <1>1 DEF IdleCall, Calls, CallPcs, Locktimes
    <2>2. CallInv(c, db, upcoming, due)
      BY DEF IdleCall, CallInv, CurInv, NonceInv, ValInv, HandlerPcs
    <2> HIDE DEF c
    <2> QED  BY <2>1, <2>2, QuietStep DEF needs_unblind_call
  <1>2. ASSUME NEW listed \in SUBSET owned,
               thr' = [thr EXCEPT ![w] = [IdleCall EXCEPT
                   !.pc = "device", !.known = listed, !.ask = get_blinded_scripts(listed)]]
        PROVE  IInv'
    <2> DEFINE c == [IdleCall EXCEPT !.pc = "device", !.known = listed,
                                     !.ask = get_blinded_scripts(listed)]
    <2>1. c \in Calls /\ c.pc # "writing" /\ thr' = [thr EXCEPT ![w] = c]
      BY <1>2, CallFacts DEF IdleCall, Calls, HandlerPcs, get_blinded_scripts, Locktimes
    <2>2. CallInv(c, db, upcoming, due)
      BY CallFacts DEF IdleCall, CallInv, CurInv, NonceInv, ValInv, HandlerPcs, get_blinded_scripts
    <2> HIDE DEF c
    <2> QED  BY <2>1, <2>2, QuietStep DEF needs_unblind_call
  <1> QED  BY <1>1, <1>2 DEF needs_unblind_call

LEMMA ResolveCodeKeeps ==
  ASSUME IInv, NEW w \in Workers, ResolveCode(w) PROVE IInv'
  <1>1. CASE Ends(w)
    BY <1>1, EndsKeeps DEF ResolveCode
  <1>2. CASE Goes(w, "nonces")
    <2> DEFINE c == [thr[w] EXCEPT !.pc = "nonces"]
    <2>1. /\ c.pc = "nonces" /\ c.cur = thr[w].cur /\ c.ask = thr[w].ask /\ c.known = thr[w].known
          /\ c.val = thr[w].val /\ c.over = thr[w].over /\ c.swapped = thr[w].swapped
          /\ c.missing = thr[w].missing
      BY CallFacts, Moved DEF HandlerPcs
    <2> HIDE DEF c
    <2>2. thr[w].pc = "device"
      BY DEF ResolveCode, At
    <2>3. CallInv(c, db, upcoming, due)
      BY <2>1, <2>2, CallFacts DEF CallInv, CurInv, NonceInv, ValInv, HandlerPcs
    <2> QED  BY <1>2, <2>3, GoesKeeps DEF c, ResolveCode, HandlerPcs
  <1> QED  BY <1>1, <1>2 DEF ResolveCode

LEMMA HasNonceKeeps ==
  ASSUME IInv, NEW w \in Workers, has_blinding_nonce(w) PROVE IInv'
  <1>0. thr[w].pc = "nonces" /\ thr[w].cur = {}
    BY CallFacts DEF has_blinding_nonce, At, CallInv, CurInv
  <1>1. CASE thr[w].ask = {}
    <2> DEFINE c == [thr[w] EXCEPT !.pc = "list"]
    <2>1. /\ c.pc = "list" /\ c.cur = thr[w].cur /\ c.ask = thr[w].ask /\ c.known = thr[w].known
          /\ c.val = thr[w].val /\ c.over = thr[w].over /\ c.swapped = thr[w].swapped
          /\ c.missing = thr[w].missing
      BY CallFacts, Moved DEF CallPcs
    <2> HIDE DEF c
    <2>2. CallInv(c, db, upcoming, due)
      BY <1>0, <1>1, <2>1, CallFacts DEF CallInv, CurInv, NonceInv, ValInv, HandlerPcs
    <2> QED  BY <1>1, <2>2, GoesKeeps DEF c, has_blinding_nonce, CallPcs
  <1>2. CASE thr[w].ask # {}
    <2>1. PICK o \in thr[w].ask : thr' = [thr EXCEPT ![w] = [@ EXCEPT
                !.pc = IF o \in db.nonces THEN "nonces" ELSE "set",
                !.ask = thr[w].ask \ {o},
                !.cur = IF o \in db.nonces THEN {} ELSE {o}]]
      BY <1>2 DEF has_blinding_nonce
    <2> DEFINE c == [thr[w] EXCEPT !.pc = IF o \in db.nonces THEN "nonces" ELSE "set",
                                   !.ask = thr[w].ask \ {o},
                                   !.cur = IF o \in db.nonces THEN {} ELSE {o}]
    <2>2. thr' = [thr EXCEPT ![w] = c]
      BY <2>1
    <2>o. o \in Outputs
      BY CallFacts, Fields
    <2>3. /\ c \in Calls /\ c.pc = (IF o \in db.nonces THEN "nonces" ELSE "set")
          /\ c.ask = thr[w].ask \ {o} /\ c.cur = (IF o \in db.nonces THEN {} ELSE {o})
          /\ c.known = thr[w].known
          /\ c.val = thr[w].val /\ c.over = thr[w].over /\ c.swapped = thr[w].swapped
          /\ c.missing = thr[w].missing
      BY <2>o, CallFacts DEF Calls, HandlerPcs
    <2> HIDE DEF c
    <2>4. CurInv(c)
      BY <2>3, <2>o DEF CurInv
    <2>5. NonceInv(c, db)
      BY <1>0, <2>3, <2>o, CallFacts DEF CallInv, NonceInv, HandlerPcs
    <2>6. ValInv(c, upcoming, due)
      BY <2>3, CallFacts DEF CallInv, ValInv
    <2> QED  BY <2>2, <2>3, <2>4, <2>5, <2>6, QuietStep DEF CallInv, has_blinding_nonce
  <1> QED  BY <1>1, <1>2

LEMMA ListOutputsKeeps ==
  ASSUME IInv, NEW w \in Workers, ListOutputs(w) PROVE IInv'
  <1> DEFINE c == [thr[w] EXCEPT !.pc = "locktime", !.todo = owned]
  <1>1. thr' = [thr EXCEPT ![w] = c] /\ thr[w].pc = "list"
    BY DEF ListOutputs, At
  <1>2. /\ c \in Calls /\ c.pc = "locktime" /\ c.cur = thr[w].cur /\ c.known = thr[w].known
        /\ c.val = thr[w].val /\ c.over = thr[w].over /\ c.swapped = thr[w].swapped
        /\ c.missing = thr[w].missing
    BY CallFacts DEF Calls, CallPcs
  <1> HIDE DEF c
  <1>3. CallInv(c, db, upcoming, due)
    BY <1>1, <1>2, CallFacts DEF CallInv, CurInv, NonceInv, ValInv, HandlerPcs
  <1> QED  BY <1>1, <1>2, <1>3, QuietStep DEF ListOutputs

LEMMA ReadLocktimesKeeps ==
  ASSUME IInv, NEW w \in Workers, ReadLocktimes(w) PROVE IInv'
  <1> DEFINE pc == IF db.upcoming # {} THEN "unblind" ELSE "fetch"
             c == [thr[w] EXCEPT !.pc = pc]
  <1>0. Goes(w, pc) /\ thr[w].pc = "locktime" /\ pc \in {"unblind", "fetch"}
    BY DEF ReadLocktimes, At
  <1> HIDE DEF pc
  <1>1. /\ c.pc = pc /\ c.cur = thr[w].cur /\ c.known = thr[w].known
        /\ c.val = thr[w].val /\ c.over = thr[w].over /\ c.swapped = thr[w].swapped
        /\ c.missing = thr[w].missing
    BY <1>0, CallFacts, Moved DEF CallPcs
  <1> HIDE DEF c
  <1>2. CallInv(c, db, upcoming, due)
    BY <1>0, <1>1, CallFacts DEF CallInv, CurInv, NonceInv, ValInv, HandlerPcs
  <1> QED  BY <1>0, <1>2, GoesKeeps DEF c, ReadLocktimes, CallPcs

LEMMA FetchLocktimesKeeps ==
  ASSUME IInv, NEW w \in Workers, FetchLocktimes(w) PROVE IInv'
  <1> DEFINE c == [thr[w] EXCEPT !.pc = "store", !.val = {upcoming}]
  <1>1. thr' = [thr EXCEPT ![w] = c] /\ thr[w].pc = "fetch"
    BY DEF FetchLocktimes, At
  <1>2. /\ c \in Calls /\ c.pc = "store" /\ c.cur = thr[w].cur /\ c.known = thr[w].known
        /\ c.val = {upcoming} /\ c.swapped = thr[w].swapped /\ c.missing = thr[w].missing
    BY CallFacts DEF Calls, CallPcs, Locktimes
  <1> HIDE DEF c
  <1>3. CallInv(c, db, upcoming, due)
    BY <1>1, <1>2, CallFacts DEF CallInv, CurInv, NonceInv, ValInv, HandlerPcs
  <1> QED  BY <1>1, <1>2, <1>3, QuietStep DEF FetchLocktimes

LEMMA LookUpKeeps ==
  ASSUME IInv, NEW w \in Workers, LookUp(w) PROVE IInv'
  <1>0. thr[w].pc = "unblind"
    BY DEF LookUp, At
  <1>1. PICK o \in thr[w].todo : thr' = [thr EXCEPT ![w] = [@ EXCEPT
              !.todo = thr[w].todo \ {o},
              !.pc = IF o \in db.outputs THEN "unblind" ELSE "blind",
              !.cur = IF o \in db.outputs THEN {} ELSE {o}]]
    BY DEF LookUp
  <1> DEFINE c == [thr[w] EXCEPT !.todo = thr[w].todo \ {o},
                                 !.pc = IF o \in db.outputs THEN "unblind" ELSE "blind",
                                 !.cur = IF o \in db.outputs THEN {} ELSE {o}]
  <1>2. thr' = [thr EXCEPT ![w] = c]
    BY <1>1
  <1>o. o \in Outputs
    BY CallFacts, Fields
  <1>3. /\ c \in Calls /\ c.pc = (IF o \in db.outputs THEN "unblind" ELSE "blind")
        /\ c.cur = (IF o \in db.outputs THEN {} ELSE {o}) /\ c.known = thr[w].known
        /\ c.val = thr[w].val /\ c.over = thr[w].over /\ c.swapped = thr[w].swapped
        /\ c.missing = thr[w].missing
    BY <1>o, CallFacts DEF Calls, CallPcs
  <1> HIDE DEF c
  <1>4. CurInv(c)
    BY <1>3, <1>o DEF CurInv
  <1>5. NonceInv(c, db)
    BY <1>0, <1>3, <1>o, CallFacts DEF CallInv, NonceInv, HandlerPcs
  <1>6. ValInv(c, upcoming, due)
    BY <1>3, CallFacts DEF CallInv, ValInv
  <1> QED  BY <1>2, <1>3, <1>4, <1>5, <1>6, QuietStep DEF CallInv, LookUp

\* an output known to the handler has its nonce
LEMMA GivesUpKeeps ==
  ASSUME IInv, NEW w \in Workers, GivesUp(w), thr[w].pc \in {"blind", "nonce"},
         ~(thr[w].cur \subseteq db.nonces),
         UNCHANGED <<wallet, proc, session, file, server, crashes, history>>
  PROVE  IInv'
  <1> DEFINE c == [thr[w] EXCEPT !.pc = "unblind", !.cur = {},
                                 !.missing = thr[w].missing \cup thr[w].cur]
  <1>1. thr' = [thr EXCEPT ![w] = c]
    BY DEF GivesUp
  <1>2. /\ c \in Calls /\ c.pc = "unblind" /\ c.cur = {} /\ c.known = thr[w].known
        /\ c.val = thr[w].val /\ c.over = thr[w].over /\ c.swapped = thr[w].swapped
        /\ c.missing = thr[w].missing \cup thr[w].cur
    BY CallFacts DEF Calls, CallPcs
  <1> HIDE DEF c
  <1>3. CurInv(c) /\ ValInv(c, upcoming, due)
    BY <1>2, CallFacts DEF CurInv, ValInv, CallInv
  <1>4. NonceInv(c, db)
    <2> SUFFICES ASSUME ~thr[w].swapped PROVE NonceInv(c, db)
      BY <1>2 DEF NonceInv
    <2>1. PICK o \in Outputs : thr[w].cur = {o}
      BY CallFacts DEF CallInv, CurInv
    <2>2. /\ thr[w].cur \cap thr[w].known \subseteq db.nonces
          /\ thr[w].missing \cap thr[w].known = {}
          /\ thr[w].known \subseteq db.outputs \cup db.nonces
      BY CallFacts DEF CallInv, NonceInv, HandlerPcs
    <2>3. o \notin thr[w].known
      BY <2>1, <2>2
    <2> QED  BY <1>2, <2>1, <2>2, <2>3 DEF NonceInv, HandlerPcs
  <1> QED  BY <1>1, <1>2, <1>3, <1>4, QuietStep DEF CallInv

\* a call that goes on with its output
LEMMA WithOutput ==
  ASSUME IInv, NEW w \in Workers, NEW pc \in {"nonce", "insert"}, Goes(w, pc),
         thr[w].pc \in {"blind", "nonce"},
         UNCHANGED <<wallet, proc, session, file, server, crashes, history>>
  PROVE  IInv'
  <1> DEFINE c == [thr[w] EXCEPT !.pc = pc]
  <1>1. /\ c.pc = pc /\ c.cur = thr[w].cur /\ c.known = thr[w].known
        /\ c.val = thr[w].val /\ c.over = thr[w].over /\ c.swapped = thr[w].swapped
        /\ c.missing = thr[w].missing
    BY CallFacts, Moved DEF CallPcs
  <1> HIDE DEF c
  <1>2. CallInv(c, db, upcoming, due)
    BY <1>1, CallFacts DEF CallInv, CurInv, NonceInv, ValInv, HandlerPcs
  <1> QED  BY <1>2, GoesKeeps DEF c, CallPcs

LEMMA UnblindKeeps ==
  ASSUME IInv, NEW w \in Workers, Unblind(w) PROVE IInv'
  <1>1. thr[w].pc = "blind"
        /\ UNCHANGED <<wallet, proc, session, file, server, crashes, history>>
    BY DEF Unblind, At
  <1>2. \/ Goes(w, "insert") \/ Goes(w, "nonce")
        \/ GivesUp(w) /\ ~(thr[w].cur \subseteq db.nonces)
    BY DEF Unblind
  <1> QED  BY <1>1, <1>2, WithOutput, GivesUpKeeps

LEMMA GetNonceKeeps ==
  ASSUME IInv, NEW w \in Workers, get_blinding_nonce(w) PROVE IInv'
  <1>1. thr[w].pc = "nonce"
        /\ UNCHANGED <<wallet, proc, session, file, server, crashes, history>>
    BY DEF get_blinding_nonce, At
  <1>2. Goes(w, "insert") \/ (GivesUp(w) /\ ~(thr[w].cur \subseteq db.nonces))
    BY DEF get_blinding_nonce
  <1> QED  BY <1>1, <1>2, WithOutput, GivesUpKeeps

-----------------------------------------------------------------------------
(* Steps that add to the tables.                                           *)

LEMMA LearnStep ==
  ASSUME IInv, NEW w \in Workers, NEW c \in Calls, thr' = [thr EXCEPT ![w] = c],
         db' \in Tables, db.outputs \subseteq db'.outputs, db.nonces \subseteq db'.nonces,
         CallInv(c, db', upcoming, due), c.pc # "writing", m_require_write' = TRUE,
         lost' \in BOOLEAN, late' \in BOOLEAN, LocktimesFresh',
         mutex' = mutex \/ (mutex # "writing" /\ mutex' = "held"),
         UNCHANGED <<wallet, proc, conn, m_local_encryption_key, file, server, crashes,
                     unwritten, aborted>>
  PROVE  IInv'
  <1>1. /\ wallet' = wallet /\ proc' = proc /\ conn' = conn /\ file' = file
        /\ m_local_encryption_key' = m_local_encryption_key
        /\ owned' = owned /\ upcoming' = upcoming /\ due' = due /\ crashes' = crashes
        /\ unwritten' = unwritten /\ aborted' = aborted
    BY DEF server
  <1>2. thr' \in [Workers -> Calls] /\ CallsInv' /\ WriterInv'
    BY <1>1, CallGoesOn
  <1>3. TypeOK'
    BY <1>1, <1>2 DEF IInv, TypeOK
  <1>4. NothingUnsaved' /\ OutputsInsertedOnce'
    BY <1>1 DEF IInv, NothingUnsaved, OutputsInsertedOnce
  <1> QED  BY <1>2, <1>3, <1>4 DEF IInv

\* the process ends
LEMMA DiesKeeps ==
  ASSUME IInv, Dies, crashes' \in 0 .. MaxCrashes, aborted' = aborted PROVE IInv'
  <1>1. /\ proc' = FALSE /\ conn' = "down" /\ due' = 0 /\ m_local_encryption_key' = FALSE
        /\ db' = NoTables /\ m_require_write' = FALSE /\ mutex' = "free"
        /\ thr' = [w \in Workers |-> IdleCall]
        /\ lost' = FALSE /\ late' = FALSE /\ unwritten' = FALSE
        /\ wallet' = wallet /\ file' = file /\ owned' = owned /\ upcoming' = upcoming
    BY DEF Dies
  <1>2. NoTables \in Tables /\ Entries(NoTables) = {}
    BY DEF NoTables, Tables, Entries, Locktimes
  <1>3. TypeOK'
    <2>1. thr' \in [Workers -> Calls]
      BY <1>1, IdleIsCall
    <2>2. aborted' \in BOOLEAN
      BY DEF IInv, TypeOK
    <2> QED  BY <1>1, <1>2, <2>1, <2>2 DEF IInv, TypeOK
  <1>4. CallsInv'
    BY <1>1, IdleInv DEF CallsInv
  <1>5. WriterInv'
    <2>1. IdleCall.pc # "writing"
      BY DEF IdleCall
    <2> QED  BY <1>1, <2>1 DEF WriterInv
  <1>6. NothingUnsaved' /\ OutputsInsertedOnce' /\ LocktimesFresh'
    <2>1. Entries(db') = {} /\ db'.upcoming = {}
      BY <1>1, <1>2 DEF NoTables
    <2> QED  BY <2>1 DEF IInv, NothingUnsaved, OutputsInsertedOnce, LocktimesFresh
  <1> QED  BY <1>3, <1>4, <1>5, <1>6 DEF IInv

LEMMA SetNonceKeeps ==
  ASSUME IInv, NEW w \in Workers, set_blinding_nonce(w) PROVE IInv'
  <1>1. CASE thr[w].cur \subseteq db.nonces
    <2>1. Dies /\ crashes' = crashes /\ aborted' = aborted
      BY <1>1 DEF set_blinding_nonce
    <2> QED  BY <2>1, DiesKeeps DEF IInv, TypeOK
  <1>2. CASE ~(thr[w].cur \subseteq db.nonces)
    <2> DEFINE c == [thr[w] EXCEPT !.pc = "nonces", !.cur = {}]
    <2>1. /\ thr' = [thr EXCEPT ![w] = c] /\ db' = [db EXCEPT !.nonces = @ \cup thr[w].cur]
          /\ m_require_write' = TRUE /\ thr[w].pc = "set"
          /\ UNCHANGED <<wallet, proc, conn, m_local_encryption_key, mutex, file, server, crashes,
                         history>>
      BY <1>2 DEF set_blinding_nonce, At
    <2>2. /\ c \in Calls /\ c.pc = "nonces" /\ c.cur = {} /\ c.ask = thr[w].ask
          /\ c.known = thr[w].known /\ c.val = thr[w].val /\ c.over = thr[w].over
          /\ c.swapped = thr[w].swapped /\ c.missing = thr[w].missing
      BY CallFacts DEF Calls, HandlerPcs
    <2> HIDE DEF c
    <2>3. /\ db' \in Tables /\ db'.outputs = db.outputs /\ db'.nonces = db.nonces \cup thr[w].cur
          /\ db'.upcoming = db.upcoming
      BY <2>1, CallFacts, Fields DEF Tables
    <2>4. CallInv(c, db', upcoming, due)
      BY <2>1, <2>2, <2>3, CallFacts DEF CallInv, CurInv, NonceInv, ValInv, HandlerPcs
    <2>5. LocktimesFresh' /\ lost' \in BOOLEAN /\ late' \in BOOLEAN
      BY <2>1, <2>3 DEF IInv, TypeOK, LocktimesFresh, history, server
    <2>6. UNCHANGED <<wallet, proc, conn, m_local_encryption_key, mutex, file, server, crashes,
                      unwritten, aborted>>
      BY <2>1 DEF history
    <2>7. db.outputs \subseteq db'.outputs /\ db.nonces \subseteq db'.nonces
      BY <2>3
    <2> QED  BY <2>1, <2>2, <2>3, <2>4, <2>5, <2>6, <2>7, LearnStep
  <1> QED  BY <1>1, <1>2

LEMMA StoreLocktimesKeeps ==
  ASSUME IInv, NEW w \in Workers, StoreLocktimes(w) PROVE IInv'
  <1> DEFINE c == [thr[w] EXCEPT !.pc = "unblind", !.val = {}, !.over = FALSE]
  <1>1. /\ thr' = [thr EXCEPT ![w] = c] /\ db' = [db EXCEPT !.upcoming = thr[w].val]
        /\ m_require_write' = TRUE /\ thr[w].pc = "store" /\ late' = thr[w].over /\ lost' = FALSE
        /\ UNCHANGED <<wallet, proc, conn, m_local_encryption_key, mutex, file, server, crashes,
                       unwritten, aborted>>
    BY DEF StoreLocktimes, At, upsert_keyvalue
  <1>2. /\ c \in Calls /\ c.pc = "unblind" /\ c.cur = thr[w].cur /\ c.known = thr[w].known
        /\ c.val = {} /\ c.swapped = thr[w].swapped /\ c.missing = thr[w].missing
    BY CallFacts DEF Calls, CallPcs, Locktimes
  <1> HIDE DEF c
  <1>3. /\ db' \in Tables /\ db'.outputs = db.outputs /\ db'.nonces = db.nonces
        /\ db'.upcoming = thr[w].val
    BY <1>1, CallFacts, Fields DEF Tables
  <1>4. CallInv(c, db', upcoming, due)
    BY <1>1, <1>2, <1>3, CallFacts DEF CallInv, CurInv, NonceInv, ValInv, HandlerPcs
  <1>5. LocktimesFresh' /\ lost' \in BOOLEAN /\ late' \in BOOLEAN
    <2>1. thr[w].val \subseteq {upcoming} \/ thr[w].over \/ due > 0
      BY CallFacts DEF CallInv, ValInv
    <2>2. thr[w].over \in BOOLEAN
      BY CallFacts, Fields
    <2> QED  BY <1>1, <1>3, <2>1, <2>2 DEF LocktimesFresh, server
  <1>6. db.outputs \subseteq db'.outputs /\ db.nonces \subseteq db'.nonces
    BY <1>3
  <1> QED  BY <1>1, <1>2, <1>3, <1>4, <1>5, <1>6, LearnStep

LEMMA InsertOutputKeeps ==
  ASSUME IInv, NEW w \in Workers, InsertOutput(w) PROVE IInv'
  <1> DEFINE c == [thr[w] EXCEPT !.pc = "unblind", !.cur = {}]
  <1>1. /\ thr' = [thr EXCEPT ![w] = c] /\ thr[w].pc = "insert"
        /\ UNCHANGED <<wallet, proc, conn, m_local_encryption_key, mutex, file, server, crashes,
                       history>>
        /\ \/ Inserted(w) /\ db' = db /\ m_require_write' = m_require_write
           \/ db' = [db EXCEPT !.outputs = @ \cup thr[w].cur] /\ m_require_write' = TRUE
    BY DEF InsertOutput, At, Inserted, RequireWrite
  <1>2. /\ c \in Calls /\ c.pc = "unblind" /\ c.cur = {} /\ c.known = thr[w].known
        /\ c.val = thr[w].val /\ c.over = thr[w].over /\ c.swapped = thr[w].swapped
        /\ c.missing = thr[w].missing
    BY CallFacts DEF Calls, CallPcs
  <1> HIDE DEF c
  <1>3. CallInv(c, db, upcoming, due)
    BY <1>1, <1>2, CallFacts DEF CallInv, CurInv, NonceInv, ValInv, HandlerPcs
  <1>4. CASE db' = db /\ m_require_write' = m_require_write
    BY <1>1, <1>2, <1>3, <1>4, QuietStep DEF session
  <1>5. CASE db' = [db EXCEPT !.outputs = @ \cup thr[w].cur] /\ m_require_write' = TRUE
    <2>1. /\ db' \in Tables /\ db'.outputs = db.outputs \cup thr[w].cur /\ db'.nonces = db.nonces
          /\ db'.upcoming = db.upcoming
      BY <1>5, CallFacts, Fields DEF Tables
    <2>2. db.outputs \subseteq db'.outputs /\ db.nonces \subseteq db'.nonces
      BY <2>1
    <2>3. CallInv(c, db', upcoming, due)
      BY <1>2, <1>3, <2>1, <2>2, CallFacts, Grown
    <2>4. LocktimesFresh' /\ lost' \in BOOLEAN /\ late' \in BOOLEAN
      BY <1>1, <2>1 DEF IInv, TypeOK, LocktimesFresh, history, server
    <2>5. UNCHANGED <<wallet, proc, conn, m_local_encryption_key, mutex, file, server, crashes,
                      unwritten, aborted>>
      BY <1>1 DEF history
    <2> QED  BY <1>1, <1>2, <1>5, <2>1, <2>2, <2>3, <2>4, <2>5, LearnStep
  <1> QED  BY <1>1, <1>4, <1>5

LEMMA RefreshKeeps ==
  ASSUME IInv, NEW w \in Workers, refresh_http_data(w) PROVE IInv'
  <1> DEFINE c == [thr[w] EXCEPT !.pc = "save"]
  <1>1. /\ thr' = [thr EXCEPT ![w] = c] /\ thr[w].pc = "idle" /\ m_require_write' = TRUE
        /\ db' = [db EXCEPT !.index = TRUE] /\ mutex # "writing" /\ mutex' = "held"
        /\ UNCHANGED <<wallet, proc, conn, m_local_encryption_key, file, server, crashes,
                       history>>
    BY DEF refresh_http_data, At, Goes, Free
  <1>2. /\ c \in Calls /\ c.pc = "save" /\ c.cur = thr[w].cur /\ c.known = thr[w].known
        /\ c.val = thr[w].val /\ c.over = thr[w].over /\ c.swapped = thr[w].swapped
        /\ c.missing = thr[w].missing
    BY CallFacts DEF Calls, CallPcs
  <1> HIDE DEF c
  <1>3. CallInv(c, db, upcoming, due)
    BY <1>1, <1>2, CallFacts DEF CallInv, CurInv, NonceInv, ValInv, HandlerPcs
  <1>4. /\ db' \in Tables /\ db'.outputs = db.outputs /\ db'.nonces = db.nonces
        /\ db'.upcoming = db.upcoming
    BY <1>1, CallFacts DEF Tables
  <1>5. db.outputs \subseteq db'.outputs /\ db.nonces \subseteq db'.nonces
    BY <1>4
  <1>6. CallInv(c, db', upcoming, due)
    BY <1>2, <1>3, <1>4, <1>5, CallFacts, Grown
  <1>7. LocktimesFresh' /\ lost' \in BOOLEAN /\ late' \in BOOLEAN
    BY <1>1, <1>4 DEF IInv, TypeOK, LocktimesFresh, history, server
  <1>8. UNCHANGED <<wallet, proc, conn, m_local_encryption_key, file, server, crashes,
                    unwritten, aborted>>
    BY <1>1 DEF history
  <1> QED  BY <1>1, <1>2, <1>4, <1>5, <1>6, <1>7, <1>8, LearnStep

-----------------------------------------------------------------------------
(* Saves.                                                                  *)

\* nobody writes when the mutex does not say so
LEMMA NoWriter ==
  ASSUME IInv, mutex # "writing", NEW w \in Workers PROVE thr[w].pc # "writing"
  BY DEF IInv, WriterInv

LEMMA SkipSaveKeeps ==
  ASSUME IInv, NEW w \in Workers, SkipSave(w) PROVE IInv'
  <1>1. IdleCall.pc # "writing"
    BY DEF IdleCall
  <1>2. mutex # "writing" /\ mutex' = "free"
    BY DEF SkipSave, Saves
  <1> QED  BY <1>1, <1>2, IdleIsCall, IdleInv, UnlockingStep DEF SkipSave, Ends

\* a save ends, and the file stays as it is
LEMMA SaveFailed ==
  ASSUME IInv, NEW w \in Workers, Ends(w), mutex' = "free",
         \A v \in Workers : v # w => thr[v].pc # "writing",
         m_require_write' = FALSE, unwritten' = TRUE,
         UNCHANGED <<wallet, proc, conn, m_local_encryption_key, db, file, server, crashes,
                     lost, late, aborted>>
  PROVE  IInv'
  <1>1. /\ wallet' = wallet /\ proc' = proc /\ conn' = conn /\ db' = db /\ file' = file
        /\ m_local_encryption_key' = m_local_encryption_key
        /\ owned' = owned /\ upcoming' = upcoming /\ due' = due /\ crashes' = crashes
        /\ lost' = lost /\ late' = late /\ aborted' = aborted
    BY DEF server
  <1>2. /\ thr' \in [Workers -> Calls] /\ thr'[w] = IdleCall
        /\ \A v \in Workers : v # w => thr'[v] = thr[v]
    BY IdleIsCall, OneCall DEF IInv, TypeOK, Ends
  <1>3. CallsInv'
    BY <1>1, <1>2, IdleInv DEF IInv, CallsInv
  <1>4. WriterInv'
    <2>1. IdleCall.pc # "writing"
      BY DEF IdleCall
    <2>2. \A v \in Workers : thr'[v].pc # "writing"
      BY <1>2, <2>1
    <2> QED  BY <2>2 DEF WriterInv
  <1>5. TypeOK'
    BY <1>1, <1>2 DEF IInv, TypeOK
  <1>6. NothingUnsaved' /\ OutputsInsertedOnce' /\ LocktimesFresh'
    BY <1>1 DEF IInv, NothingUnsaved, OutputsInsertedOnce, LocktimesFresh
  <1> QED  BY <1>3, <1>4, <1>5, <1>6 DEF IInv

LEMMA OpenFileKeeps ==
  ASSUME IInv, NEW w \in Workers, OpenFile(w) PROVE IInv'
  <1>0. mutex # "writing" /\ thr[w].pc \in {"save", "unblind"} /\ m_require_write = TRUE
    BY DEF OpenFile, Saves, At, IInv, TypeOK
  <1>1. /\ wallet' = wallet /\ proc' = proc /\ conn' = conn /\ db' = db
        /\ m_local_encryption_key' = m_local_encryption_key
        /\ owned' = owned /\ upcoming' = upcoming /\ due' = due /\ crashes' = crashes
        /\ lost' = lost /\ late' = late /\ aborted' = aborted
    BY DEF OpenFile, server
  <1>2. OutputsInsertedOnce' /\ LocktimesFresh'
    BY <1>1 DEF IInv, OutputsInsertedOnce, LocktimesFresh
  <1>3. CASE /\ file' = [state |-> "short", data |-> NoTables] /\ mutex' = "writing"
             /\ Goes(w, "writing") /\ m_require_write' = m_require_write /\ unwritten' = unwritten
    <2> DEFINE c == [thr[w] EXCEPT !.pc = "writing"]
    <2>1. thr' = [thr EXCEPT ![w] = c]
      BY <1>3 DEF Goes
    <2>2. /\ c \in Calls /\ c.pc = "writing" /\ c.cur = thr[w].cur /\ c.known = thr[w].known
          /\ c.val = thr[w].val /\ c.over = thr[w].over /\ c.swapped = thr[w].swapped
          /\ c.missing = thr[w].missing
      BY CallFacts, Moved DEF CallPcs
    <2> HIDE DEF c
    <2>3. /\ thr' \in [Workers -> Calls] /\ thr'[w] = c
          /\ \A v \in Workers : v # w => thr'[v] = thr[v]
      BY <2>1, <2>2, OneCall DEF IInv, TypeOK
    <2>4. CallInv(c, db, upcoming, due)
      BY <1>0, <2>2, CallFacts DEF CallInv, CurInv, NonceInv, ValInv, HandlerPcs
    <2>5. CallsInv'
      BY <1>1, <2>3, <2>4 DEF IInv, CallsInv
    <2>6. WriterInv'
      <3>1. \A v \in Workers : thr'[v].pc = "writing" => v = w
        BY <1>0, <2>3, NoWriter
      <3> QED  BY <1>0, <1>3, <3>1 DEF WriterInv
    <2>7. TypeOK'
      <3>1. file' \in [state : {"none", "short", "damaged", "whole"}, data : Tables]
        BY <1>3 DEF NoTables, Tables, Locktimes
      <3> QED  BY <1>1, <1>3, <2>3, <3>1 DEF IInv, TypeOK
    <2>8. NothingUnsaved'
      BY <1>0, <1>3 DEF NothingUnsaved
    <2> QED  BY <1>2, <2>5, <2>6, <2>7, <2>8 DEF IInv
  <1>4. CASE /\ m_require_write' = FALSE /\ unwritten' = TRUE /\ Ends(w)
             /\ file' = file /\ mutex' = "free"
    <2>1. \A v \in Workers : v # w => thr[v].pc # "writing"
      BY <1>0, NoWriter
    <2> QED  BY <1>1, <1>4, <2>1, SaveFailed DEF server
  <1> QED  BY <1>3, <1>4 DEF OpenFile

LEMMA WriteFileKeeps ==
  ASSUME IInv, NEW w \in Workers, WriteFile(w) PROVE IInv'
  <1>1. /\ wallet' = wallet /\ proc' = proc /\ conn' = conn /\ db' = db
        /\ m_local_encryption_key' = m_local_encryption_key /\ thr' = thr /\ mutex' = mutex
        /\ m_require_write' = m_require_write
        /\ owned' = owned /\ upcoming' = upcoming /\ due' = due /\ crashes' = crashes
        /\ lost' = lost /\ late' = late /\ unwritten' = unwritten /\ aborted' = aborted
        /\ file' = [file EXCEPT !.state = "damaged"] /\ thr[w].pc = "writing"
    BY DEF WriteFile, server, session, history, At
  <1>2. file' \in [state : {"none", "short", "damaged", "whole"}, data : Tables]
    BY <1>1 DEF IInv, TypeOK
  <1>3. TypeOK'
    BY <1>1, <1>2 DEF IInv, TypeOK
  <1>4. NothingUnsaved'
    BY <1>1 DEF IInv, WriterInv, NothingUnsaved
  <1>5. CallsInv' /\ WriterInv' /\ OutputsInsertedOnce' /\ LocktimesFresh'
    BY <1>1 DEF IInv, CallsInv, WriterInv, OutputsInsertedOnce, LocktimesFresh
  <1> QED  BY <1>3, <1>4, <1>5 DEF IInv

LEMMA WriteStallsKeeps ==
  ASSUME IInv, NEW w \in Workers, WriteStalls(w) PROVE IInv'
  <1>1. /\ wallet' = wallet /\ proc' = proc /\ conn' = conn /\ db' = db /\ file' = file
        /\ m_local_encryption_key' = m_local_encryption_key /\ mutex' = "spinning"
        /\ m_require_write' = m_require_write
        /\ owned' = owned /\ upcoming' = upcoming /\ due' = due /\ crashes' = crashes
        /\ lost' = lost /\ late' = late /\ unwritten' = unwritten /\ aborted' = aborted
        /\ thr[w].pc = "writing"
    BY DEF WriteStalls, server, history, At
  <1> DEFINE c == [thr[w] EXCEPT !.pc = "stalled"]
  <1>2. thr' = [thr EXCEPT ![w] = c]
    BY DEF WriteStalls, Goes
  <1>3. /\ c \in Calls /\ c.pc = "stalled" /\ c.cur = thr[w].cur /\ c.known = thr[w].known
        /\ c.val = thr[w].val /\ c.over = thr[w].over /\ c.swapped = thr[w].swapped
        /\ c.missing = thr[w].missing
    BY CallFacts, Moved DEF CallPcs
  <1> HIDE DEF c
  <1>4. /\ thr' \in [Workers -> Calls] /\ thr'[w] = c
        /\ \A v \in Workers : v # w => thr'[v] = thr[v]
    BY <1>2, <1>3, OneCall DEF IInv, TypeOK
  <1>5. CallInv(c, db, upcoming, due)
    BY <1>1, <1>3, CallFacts DEF CallInv, CurInv, NonceInv, ValInv, HandlerPcs
  <1>6. CallsInv'
    BY <1>1, <1>4, <1>5 DEF IInv, CallsInv
  <1>7. WriterInv'
    <2>1. \A v \in Workers : thr'[v].pc # "writing"
      BY <1>1, <1>3, <1>4 DEF IInv, WriterInv
    <2> QED  BY <2>1 DEF WriterInv
  <1>8. TypeOK'
    BY <1>1, <1>4 DEF IInv, TypeOK
  <1>9. NothingUnsaved' /\ OutputsInsertedOnce' /\ LocktimesFresh'
    BY <1>1 DEF IInv, NothingUnsaved, OutputsInsertedOnce, LocktimesFresh, Entries, OnDisk
  <1> QED  BY <1>6, <1>7, <1>8, <1>9 DEF IInv

LEMMA CloseFailsKeeps ==
  ASSUME IInv, NEW w \in Workers, CloseFails(w) PROVE IInv'
  <1>1. \A v \in Workers : v # w => thr[v].pc # "writing"
    BY DEF CloseFails, At, IInv, WriterInv
  <1> QED  BY <1>1, SaveFailed DEF CloseFails

LEMMA CloseFileKeeps ==
  ASSUME IInv, NEW w \in Workers, CloseFile(w) PROVE IInv'
  <1>1. /\ wallet' = wallet /\ proc' = proc /\ conn' = conn /\ db' = db
        /\ m_local_encryption_key' = m_local_encryption_key /\ mutex' = "free"
        /\ m_require_write' = FALSE /\ unwritten' = FALSE
        /\ owned' = owned /\ upcoming' = upcoming /\ due' = due /\ crashes' = crashes
        /\ lost' = lost /\ late' = late /\ aborted' = aborted
        /\ file' = [state |-> "whole", data |-> db] /\ thr[w].pc = "writing"
        /\ thr' = [thr EXCEPT ![w] = IdleCall]
    BY DEF CloseFile, server, At, Ends
  <1>2. /\ thr' \in [Workers -> Calls] /\ thr'[w] = IdleCall
        /\ \A v \in Workers : v # w => thr'[v] = thr[v]
    BY <1>1, IdleIsCall, OneCall DEF IInv, TypeOK
  <1>3. TypeOK'
    <2>1. file' \in [state : {"none", "short", "damaged", "whole"}, data : Tables]
      BY <1>1 DEF IInv, TypeOK
    <2> QED  BY <1>1, <1>2, <2>1 DEF IInv, TypeOK
  <1>4. CallsInv'
    BY <1>1, <1>2, IdleInv DEF IInv, CallsInv
  <1>5. WriterInv'
    <2>1. IdleCall.pc # "writing"
      BY DEF IdleCall
    <2>2. \A v \in Workers : thr'[v].pc # "writing"
      BY <1>1, <1>2, <2>1 DEF IInv, WriterInv
    <2> QED  BY <2>2 DEF WriterInv
  <1>6. NothingUnsaved' /\ OutputsInsertedOnce' /\ LocktimesFresh'
    <2>1. OnDisk' = Entries(db)'
      BY <1>1 DEF OnDisk, Entries
    <2> QED  BY <1>1, <2>1 DEF IInv, NothingUnsaved, OutputsInsertedOnce, LocktimesFresh
  <1> QED  BY <1>3, <1>4, <1>5, <1>6 DEF IInv

-----------------------------------------------------------------------------
(* The server, the connection and logins.                                  *)

\* a call that fetched other nlocktimes is marked
LEMMA Overtaken ==
  ASSUME thr \in [Workers -> Calls], NEW u, NEW w \in Workers
  PROVE  /\ Overtake(u)[w] \in Calls /\ Overtake(u)[w].pc = thr[w].pc
         /\ Overtake(u)[w].cur = thr[w].cur /\ Overtake(u)[w].ask = thr[w].ask
         /\ Overtake(u)[w].known = thr[w].known /\ Overtake(u)[w].swapped = thr[w].swapped
         /\ Overtake(u)[w].missing = thr[w].missing
         /\ Overtake(u)[w].val \subseteq {u} \/ Overtake(u)[w].over
  <1> DEFINE c == [thr[w] EXCEPT !.over = TRUE]
  <1>1. Overtake(u)[w] = IF thr[w].val # {} /\ thr[w].val # {u} THEN c ELSE thr[w]
    BY DEF Overtake
  <1>2. /\ c \in Calls /\ c.pc = thr[w].pc /\ c.cur = thr[w].cur /\ c.ask = thr[w].ask
        /\ c.known = thr[w].known /\ c.swapped = thr[w].swapped /\ c.missing = thr[w].missing
        /\ c.over = TRUE
    BY DEF Calls
  <1> HIDE DEF c
  <1> QED  BY <1>1, <1>2

LEMMA OvertakeKeeps ==
  ASSUME IInv, NEW u, thr' = Overtake(u), upcoming' = u, db' \in Tables,
         db.outputs \subseteq db'.outputs, db.nonces \subseteq db'.nonces
  PROVE  /\ thr' \in [Workers -> Calls] /\ CallsInv'
         /\ \A w \in Workers : thr'[w].pc = thr[w].pc
  <1>0. thr \in [Workers -> Calls] /\ db \in Tables
    BY DEF IInv, TypeOK
  <1>1. ASSUME NEW w \in Workers
        PROVE  /\ thr'[w] \in Calls /\ CallInv(thr'[w], db', u, due') /\ thr'[w].pc = thr[w].pc
    <2> DEFINE c == Overtake(u)[w]
    <2>1. /\ c \in Calls /\ c.pc = thr[w].pc /\ c.cur = thr[w].cur /\ c.ask = thr[w].ask
          /\ c.known = thr[w].known /\ c.swapped = thr[w].swapped /\ c.missing = thr[w].missing
          /\ c.val \subseteq {u} \/ c.over
      BY <1>0, Overtaken
    <2>2. thr'[w] = c
      OBVIOUS
    <2> HIDE DEF c
    <2>3. CallInv(c, db', u, due')
      BY <2>1, CallFacts, Fields DEF CallInv, CurInv, NonceInv, ValInv
    <2> QED  BY <2>1, <2>2, <2>3
  <1>2. thr' = [w \in Workers |-> thr'[w]]
    BY DEF Overtake
  <1> QED  BY <1>1, <1>2 DEF CallsInv

\* a writer goes on writing
LEMMA WriterStays ==
  ASSUME IInv, \A w \in Workers : thr'[w].pc = thr[w].pc, mutex' = mutex,
         m_require_write' = m_require_write
  PROVE  WriterInv'
  BY DEF IInv, WriterInv

LEMMA ServerNewTxKeeps ==
  ASSUME IInv, ServerNewTx PROVE IInv'
  <1>1. /\ wallet' = wallet /\ proc' = proc /\ conn' = conn /\ db' = db /\ file' = file
        /\ m_local_encryption_key' = m_local_encryption_key /\ mutex' = mutex
        /\ m_require_write' = m_require_write /\ crashes' = crashes
        /\ late' = late /\ unwritten' = unwritten /\ aborted' = aborted
        /\ upcoming < MaxChanges /\ upcoming' = upcoming + 1
    BY DEF ServerNewTx, session
  <1>2. owned' \in SUBSET Outputs /\ upcoming' \in 0 .. MaxChanges
    BY <1>1, BoundsAssumption DEF ServerNewTx, IInv, TypeOK
  <1>3. NothingUnsaved' /\ OutputsInsertedOnce'
    BY <1>1 DEF IInv, NothingUnsaved, OutputsInsertedOnce, Entries, OnDisk
  <1>4. CASE conn = "subscribed"
    <2>1. due' = due + 1 /\ lost' = lost /\ thr' = thr /\ due \in Nat
      BY <1>4 DEF ServerNewTx, IInv, TypeOK
    <2>2. CallsInv'
      <3> SUFFICES ASSUME NEW w \in Workers PROVE CallInv(thr[w], db, upcoming', due')
        BY <1>1, <2>1 DEF CallsInv
      <3>1. due' > 0
        BY <2>1
      <3> QED  BY <3>1, CallFacts DEF CallInv, ValInv
    <2>3. WriterInv'
      BY <1>1, <2>1 DEF IInv, WriterInv
    <2>4. TypeOK'
      BY <1>1, <1>2, <2>1 DEF IInv, TypeOK
    <2>5. LocktimesFresh'
      BY <2>1 DEF LocktimesFresh
    <2> QED  BY <1>3, <2>2, <2>3, <2>4, <2>5 DEF IInv
  <1>5. CASE conn # "subscribed"
    <2>1. due' = due /\ lost' = (lost \/ db.upcoming # {}) /\ thr' = Overtake(upcoming')
      BY <1>5 DEF ServerNewTx
    <2>2. /\ thr' \in [Workers -> Calls] /\ CallsInv'
          /\ \A w \in Workers : thr'[w].pc = thr[w].pc
      <3>1. db' \in Tables /\ db.outputs \subseteq db'.outputs /\ db.nonces \subseteq db'.nonces
        BY <1>1 DEF IInv, TypeOK
      <3> QED  BY <2>1, <3>1, OvertakeKeeps
    <2>3. WriterInv'
      BY <1>1, <2>2, WriterStays
    <2>4. TypeOK'
      BY <1>1, <1>2, <2>1, <2>2 DEF IInv, TypeOK
    <2>5. LocktimesFresh'
      BY <1>1, <2>1 DEF LocktimesFresh
    <2> QED  BY <1>3, <2>2, <2>3, <2>4, <2>5 DEF IInv
  <1> QED  BY <1>4, <1>5

LEMMA ClearedTables ==
  ASSUME NEW t \in Tables
  PROVE  /\ Cleared(t) \in Tables /\ Cleared(t).outputs = t.outputs /\ Cleared(t).nonces = t.nonces
         /\ Cleared(t).upcoming = {} /\ Cleared(t).index = t.index
         /\ Entries(Cleared(t)) = Entries(t)
  <1>1. /\ Cleared(t) \in Tables /\ Cleared(t).outputs = t.outputs /\ Cleared(t).nonces = t.nonces
        /\ Cleared(t).upcoming = {} /\ Cleared(t).index = t.index
    BY DEF Cleared, Tables, Locktimes
  <1> QED  BY <1>1 DEF Entries

LEMMA NewTransactionKeeps ==
  ASSUME IInv, on_new_transaction PROVE IInv'
  <1>1. /\ wallet' = wallet /\ proc' = proc /\ conn' = conn /\ file' = file
        /\ m_local_encryption_key' = m_local_encryption_key /\ mutex' = mutex
        /\ m_require_write' = m_require_write /\ crashes' = crashes
        /\ unwritten' = unwritten /\ aborted' = aborted /\ owned' = owned /\ upcoming' = upcoming
        /\ due > 0 /\ due' = due - 1 /\ thr' = Overtake(upcoming)
        /\ \/ db' = Cleared(db) /\ lost' = FALSE /\ late' = FALSE
           \/ db' = db /\ lost' = (lost \/ db.upcoming # {}) /\ late' = late
    BY DEF on_new_transaction
  <1>2. /\ db' \in Tables /\ db'.outputs = db.outputs /\ db'.nonces = db.nonces
        /\ Entries(db') = Entries(db) /\ (db'.upcoming = {} \/ lost')
    BY <1>1, ClearedTables DEF IInv, TypeOK
  <1>3. /\ thr' \in [Workers -> Calls] /\ CallsInv'
        /\ \A w \in Workers : thr'[w].pc = thr[w].pc
    <2>1. db.outputs \subseteq db'.outputs /\ db.nonces \subseteq db'.nonces
      BY <1>2
    <2> QED  BY <1>1, <1>2, <2>1, OvertakeKeeps
  <1>4. WriterInv'
    BY <1>1, <1>3, WriterStays
  <1>5. TypeOK'
    <2>1. due - 1 \in Nat
      BY <1>1 DEF IInv, TypeOK
    <2>2. lost' \in BOOLEAN /\ late' \in BOOLEAN
      BY <1>1 DEF IInv, TypeOK
    <2> QED  BY <1>1, <1>2, <1>3, <2>1, <2>2 DEF IInv, TypeOK
  <1>6. NothingUnsaved' /\ OutputsInsertedOnce'
    <2>1. OnDisk' = OnDisk /\ Entries(db)' = Entries(db)
      BY <1>1, <1>2 DEF OnDisk, Entries
    <2> QED  BY <1>1, <2>1 DEF IInv, NothingUnsaved, OutputsInsertedOnce
  <1>7. LocktimesFresh'
    BY <1>2 DEF LocktimesFresh
  <1> QED  BY <1>3, <1>4, <1>5, <1>6, <1>7 DEF IInv

LEMMA ConnectionLostKeeps ==
  ASSUME IInv, ConnectionLost PROVE IInv'
  <1>1. /\ wallet' = wallet /\ proc' = proc /\ conn' = "down" /\ file' = file /\ db' = db
        /\ m_local_encryption_key' = m_local_encryption_key /\ mutex' = mutex
        /\ m_require_write' = m_require_write /\ crashes' = crashes
        /\ unwritten' = unwritten /\ aborted' = aborted /\ owned' = owned /\ upcoming' = upcoming
        /\ due' = 0 /\ thr' = Overtake(upcoming) /\ late' = late
        /\ lost' = (lost \/ (due > 0 /\ db.upcoming # {}))
    BY DEF ConnectionLost
  <1>2. /\ thr' \in [Workers -> Calls] /\ CallsInv'
        /\ \A w \in Workers : thr'[w].pc = thr[w].pc
    <2>1. db' \in Tables /\ db.outputs \subseteq db'.outputs /\ db.nonces \subseteq db'.nonces
      BY <1>1 DEF IInv, TypeOK
    <2> QED  BY <1>1, <2>1, OvertakeKeeps
  <1>3. WriterInv'
    BY <1>1, <1>2, WriterStays
  <1>4. TypeOK'
    <2>1. lost' \in BOOLEAN
      BY <1>1
    <2> QED  BY <1>1, <1>2, <2>1 DEF IInv, TypeOK
  <1>5. NothingUnsaved' /\ OutputsInsertedOnce'
    BY <1>1 DEF IInv, NothingUnsaved, OutputsInsertedOnce, Entries, OnDisk
  <1>6. LocktimesFresh'
    <2>1. db.upcoming \subseteq {upcoming} \/ due > 0 \/ lost \/ late
      BY DEF IInv, LocktimesFresh
    <2> QED  BY <1>1, <2>1 DEF LocktimesFresh
  <1> QED  BY <1>2, <1>3, <1>4, <1>5, <1>6 DEF IInv

\* neither the calls nor what is cached changes
LEMMA IdleStep ==
  ASSUME IInv, proc' \in BOOLEAN, conn' \in {"down", "loaded", "authed", "subscribed"},
         m_local_encryption_key' \in BOOLEAN,
         UNCHANGED <<wallet, db, m_require_write, mutex, file, thr, server, crashes, history>>
  PROVE  IInv'
  <1>1. /\ wallet' = wallet /\ db' = db /\ file' = file /\ thr' = thr
        /\ m_require_write' = m_require_write /\ mutex' = mutex
        /\ owned' = owned /\ upcoming' = upcoming /\ due' = due /\ crashes' = crashes
        /\ lost' = lost /\ late' = late /\ unwritten' = unwritten /\ aborted' = aborted
    BY DEF server, history
  <1>2. TypeOK'
    BY <1>1 DEF IInv, TypeOK
  <1>3. CallsInv' /\ WriterInv' /\ NothingUnsaved' /\ OutputsInsertedOnce' /\ LocktimesFresh'
    BY <1>1 DEF IInv, CallsInv, WriterInv, NothingUnsaved, OutputsInsertedOnce, LocktimesFresh,
       Entries, OnDisk
  <1> QED  BY <1>2, <1>3 DEF IInv

LEMMA SwappedCall ==
  ASSUME IInv, NEW w \in Workers, NEW t \in Tables,
         file.state # "whole" => t.outputs = db.outputs /\ t.nonces = db.nonces
  PROVE  /\ Swapped[w] \in Calls /\ Swapped[w].pc = thr[w].pc
         /\ CallInv(Swapped[w], t, upcoming, due)
  <1> DEFINE d == Overtake(upcoming)[w]
             c == [d EXCEPT !.swapped = d.swapped \/ file.state = "whole"]
  <1>0. thr \in [Workers -> Calls]
    BY DEF IInv, TypeOK
  <1>1. /\ d \in Calls /\ d.pc = thr[w].pc /\ d.cur = thr[w].cur /\ d.ask = thr[w].ask
        /\ d.known = thr[w].known /\ d.swapped = thr[w].swapped /\ d.missing = thr[w].missing
        /\ d.val \subseteq {upcoming} \/ d.over
    BY <1>0, Overtaken
  <1>2. Swapped[w] = c
    BY DEF Swapped
  <1> HIDE DEF d
  <1>3. /\ c \in Calls /\ c.pc = d.pc /\ c.cur = d.cur /\ c.ask = d.ask /\ c.known = d.known
        /\ c.missing = d.missing /\ c.val = d.val /\ c.over = d.over
        /\ c.swapped = (d.swapped \/ file.state = "whole")
    BY <1>1 DEF Calls
  <1> HIDE DEF c
  <1>4. CurInv(c) /\ ValInv(c, upcoming, due)
    BY <1>1, <1>3, CallFacts DEF CallInv, CurInv, ValInv
  <1>5. NonceInv(c, t)
    <2>1. CASE file.state = "whole"
      BY <2>1, <1>3 DEF NonceInv
    <2>2. CASE file.state # "whole"
      <3>1. c.swapped <=> thr[w].swapped
        BY <2>2, <1>1, <1>3
      <3> QED  BY <2>2, <3>1, <1>1, <1>3, CallFacts DEF CallInv, NonceInv
    <2> QED  BY <2>1, <2>2
  <1> QED  BY <1>1, <1>2, <1>3, <1>4, <1>5 DEF CallInv

LEMMA LoginKeeps ==
  ASSUME IInv, Login PROVE IInv'
  <1>1. /\ wallet' = wallet /\ proc' = proc /\ conn' = "loaded" /\ m_local_encryption_key' = TRUE
        /\ m_require_write' = m_require_write /\ crashes' = crashes /\ aborted' = aborted
        /\ owned' = owned /\ upcoming' = upcoming /\ due' = due /\ Free /\ load_db
    BY DEF Login, server
  <1>2. /\ db \in Tables /\ thr \in [Workers -> Calls]
        /\ file \in [state : {"none", "short", "damaged", "whole"}, data : Tables]
    BY DEF IInv, TypeOK
  <1>3. CASE file.state = "short"
    <2>1. mutex' = "spinning" /\ db' = db /\ file' = file /\ unwritten' = unwritten /\ thr' = thr
          /\ lost' = lost /\ late' = late
      BY <1>1, <1>3 DEF load_db, Login
    <2>2. TypeOK'
      BY <1>1, <2>1 DEF IInv, TypeOK
    <2>3. WriterInv'
      BY <1>1, <2>1, NoWriter DEF WriterInv, Free
    <2>4. CallsInv' /\ NothingUnsaved' /\ OutputsInsertedOnce' /\ LocktimesFresh'
      BY <1>1, <2>1 DEF IInv, CallsInv, NothingUnsaved, OutputsInsertedOnce, LocktimesFresh,
         Entries, OnDisk
    <2> QED  BY <2>2, <2>3, <2>4 DEF IInv
  <1>4. CASE file.state # "short"
    <2>1. thr' = Swapped /\ lost' = FALSE /\ late' = FALSE /\ mutex' = mutex
      BY <1>1, <1>4 DEF load_db, Login
    <2> DEFINE t == IF file.state = "whole" THEN file.data ELSE db
    <2>2. t \in Tables
      BY <1>2
    <2>3. /\ db' = Cleared(t) /\ OnDisk' = OnDisk
          /\ file' \in [state : {"none", "short", "damaged", "whole"}, data : Tables]
          /\ (file.state # "whole" => unwritten' = unwritten)
          /\ (file.state = "whole" => unwritten' = FALSE /\ file' = file)
      <3>1. CASE file.state = "whole"
        BY <1>1, <1>2, <3>1 DEF load_db, Reloaded, OnDisk, Entries
      <3>2. CASE file.state = "none"
        BY <1>1, <1>2, <3>2 DEF load_db, Reloaded, OnDisk
      <3>3. CASE file.state = "damaged"
        <4>1. file' = NoFile /\ db' = Cleared(db) /\ unwritten' = unwritten
          BY <1>1, <3>3 DEF load_db, Reloaded
        <4>2. NoFile.state = "none" /\ NoFile \in [state : {"none", "short", "damaged", "whole"}, data : Tables]
          BY DEF NoFile, NoTables, Tables, Locktimes
        <4>3. OnDisk' = OnDisk
          BY <3>3, <4>1, <4>2 DEF OnDisk
        <4> QED  BY <3>3, <4>1, <4>2, <4>3
      <3> QED  BY <1>2, <1>4, <3>1, <3>2, <3>3
    <2>4. /\ db' \in Tables /\ db'.outputs = t.outputs /\ db'.nonces = t.nonces
          /\ db'.upcoming = {} /\ Entries(db') = Entries(t)
      BY <2>2, <2>3, ClearedTables
    <2>5. \A w \in Workers : /\ thr'[w] \in Calls /\ thr'[w].pc = thr[w].pc
                             /\ CallInv(thr'[w], db', upcoming, due)
      <3>1. file.state # "whole" => db'.outputs = db.outputs /\ db'.nonces = db.nonces
        BY <2>4
      <3> QED  BY <2>1, <2>4, <3>1, SwappedCall
    <2>6. TypeOK'
      <3>1. thr' = [w \in Workers |-> thr'[w]]
        BY <2>1 DEF Swapped
      <3>2. thr' \in [Workers -> Calls]
        BY <2>5, <3>1
      <3>3. unwritten' \in BOOLEAN
        BY <2>3 DEF IInv, TypeOK
      <3> QED  BY <1>1, <2>1, <2>3, <2>4, <3>2, <3>3 DEF IInv, TypeOK
    <2>7. CallsInv' /\ WriterInv'
      BY <1>1, <2>1, <2>5, WriterStays DEF CallsInv
    <2>8. NothingUnsaved'
      <3>1. Entries(db)' = Entries(t)
        BY <2>4 DEF Entries
      <3>2. CASE file.state = "whole"
        BY <2>3, <3>1, <3>2 DEF NothingUnsaved, OnDisk
      <3>3. CASE file.state # "whole"
        BY <1>1, <2>3, <3>1, <3>3 DEF IInv, NothingUnsaved
      <3> QED  BY <3>2, <3>3
    <2>9. OutputsInsertedOnce' /\ LocktimesFresh'
      BY <1>1, <2>4 DEF IInv, OutputsInsertedOnce, LocktimesFresh
    <2> QED  BY <2>6, <2>7, <2>8, <2>9 DEF IInv
  <1> QED  BY <1>3, <1>4

-----------------------------------------------------------------------------
(* The invariant.                                                          *)

LEMMA InitIInv == Init => IInv
  <1> SUFFICES ASSUME Init PROVE IInv
    OBVIOUS
  <1>1. NoTables \in Tables /\ Entries(NoTables) = {} /\ NoTables.upcoming = {}
    BY DEF NoTables, Tables, Entries, Locktimes
  <1>2. TypeOK
    <2>1. thr \in [Workers -> Calls]
      BY IdleIsCall DEF Init
    <2>2. file \in [state : {"none", "short", "damaged", "whole"}, data : Tables]
      BY <1>1 DEF Init, NoFile
    <2>3. 0 \in 0 .. MaxChanges /\ 0 \in 0 .. MaxCrashes /\ 0 \in Nat
      BY BoundsAssumption
    <2>4. /\ wallet \in Wallets /\ proc = TRUE /\ conn = "down" /\ m_local_encryption_key = FALSE
          /\ db = NoTables /\ m_require_write = FALSE /\ mutex = "free"
          /\ owned = {} /\ upcoming = 0 /\ due = 0 /\ crashes = 0
          /\ lost = FALSE /\ late = FALSE /\ unwritten = FALSE /\ aborted = FALSE
      BY DEF Init
    <2> QED  BY <1>1, <2>1, <2>2, <2>3, <2>4 DEF TypeOK
  <1>3. CallsInv
    BY IdleInv DEF Init, CallsInv
  <1>4. WriterInv
    <2>1. IdleCall.pc # "writing"
      BY DEF IdleCall
    <2> QED  BY <2>1 DEF Init, WriterInv
  <1>5. NothingUnsaved /\ OutputsInsertedOnce /\ LocktimesFresh
    BY <1>1 DEF Init, NothingUnsaved, OutputsInsertedOnce, LocktimesFresh
  <1> QED  BY <1>2, <1>3, <1>4, <1>5 DEF IInv

LEMMA WorkerKeeps ==
  ASSUME IInv, NEW w \in Workers, WorkerStep(w) PROVE IInv'
  <1>1. CASE HandlerStep(w)
    BY <1>1, NeedsUnblindKeeps, ResolveCodeKeeps, HasNonceKeeps, SetNonceKeeps DEF HandlerStep
  <1>2. CASE UnblindStep(w)
    BY <1>2, ListOutputsKeeps, ReadLocktimesKeeps, FetchLocktimesKeeps, StoreLocktimesKeeps,
       LookUpKeeps, UnblindKeeps, GetNonceKeeps, InsertOutputKeeps DEF UnblindStep
  <1>3. CASE refresh_http_data(w)
    BY <1>3, RefreshKeeps
  <1>4. CASE SaveStep(w)
    BY <1>4, SkipSaveKeeps, OpenFileKeeps, WriteFileKeeps, WriteStallsKeeps, CloseFailsKeeps,
       CloseFileKeeps DEF SaveStep
  <1>5. CASE CallFails(w)
    BY <1>5, EndsKeeps DEF CallFails
  <1> QED  BY <1>1, <1>2, <1>3, <1>4, <1>5 DEF WorkerStep

LEMMA NextKeeps ==
  ASSUME IInv, [Next]_vars PROVE IInv'
  <1>0. proc \in BOOLEAN /\ m_local_encryption_key \in BOOLEAN
        /\ conn \in {"down", "loaded", "authed", "subscribed"}
    BY DEF IInv, TypeOK
  <1>1. CASE Crash
    <2>1. Dies /\ crashes' \in 0 .. MaxCrashes /\ aborted' = aborted
      BY <1>1, BoundsAssumption DEF Crash, IInv, TypeOK
    <2> QED  BY <2>1, DiesKeeps
  <1>2. CASE Restart
    BY <1>0, <1>2, IdleStep DEF Restart, session
  <1>3. CASE on_failed_login
    BY <1>0, <1>3, IdleStep DEF on_failed_login
  <1>4. CASE LoginGoesOn
    BY <1>0, <1>4, IdleStep DEF LoginGoesOn
  <1>5. CASE UNCHANGED vars
    BY <1>0, <1>5, IdleStep DEF vars, session
  <1> QED  BY <1>1, <1>2, <1>3, <1>4, <1>5, ServerNewTxKeeps, NewTransactionKeeps,
              ConnectionLostKeeps, LoginKeeps, WorkerKeeps DEF Next

\* Every step of the cache and its users keeps the inductive invariant
THEOREM Invariance == Spec => []IInv
  <1>1. IInv /\ [Next]_vars => IInv'
    BY NextKeeps
  <1> QED  BY <1>1, InitIInv, PTL DEF Spec

\* The variables of the cache, the file and the calls have their types
\* (ga_cache.cpp)
THEOREM TypeCorrect == Spec => []TypeOK
  <1>1. IInv => TypeOK
    BY DEF IInv
  <1> QED  BY <1>1, Invariance, PTL

\* Rows that are not on disk have a write due, unless the last save failed
\* unnoticed, in the open or in the last flush (m_require_write, save_db,
\* openssl_encrypt)
THEOREM AllIsSaved == Spec => []NothingUnsaved
  <1>1. IInv => NothingUnsaved
    BY DEF IInv
  <1> QED  BY <1>1, Invariance, PTL

\* However many threads unblind, no output is inserted twice (unblind_utxo)
THEOREM NoDoubleInsertion == Spec => []OutputsInsertedOnce
  <1>1. IInv => OutputsInsertedOnce
    BY DEF IInv
  <1> QED  BY <1>1, Invariance, PTL

\* A handler's call finds the nonces it asked for or that were there
\* (get_blinded_scripts, cache_nonces, unblind_utxo)
THEOREM NoncesAreThere == Spec => []NoncesComplete
  <1>1. IInv => NoncesComplete
    BY DEF IInv, CallsInv, CallInv, NonceInv, NoncesComplete
  <1> QED  BY <1>1, Invariance, PTL

\* Cached nlocktimes are stale only in the windows the property names: a
\* change that was not notified, was passed over, or that a fetch overtook
\* (get_upcoming_nlocktime, on_new_transaction, login)
THEOREM LocktimesAreFresh == Spec => []LocktimesFresh
  <1>1. IInv => LocktimesFresh
    BY DEF IInv
  <1> QED  BY <1>1, Invariance, PTL

-----------------------------------------------------------------------------
(* The file implements DurableStore.                                       *)

Writing == mutex = "writing"

\* a step that changes neither the rows, nor the file, nor who has the mutex
LEMMA Stutters ==
  ASSUME Entries(db') = Entries(db), OnDisk' = OnDisk, Writing' <=> Writing
  PROVE  UNCHANGED Store!vars
  <1>1. Entries(db)' = Entries(db)
    BY DEF Entries
  <1>2. (mutex = "writing")' = (mutex = "writing")
    BY DEF Writing
  <1> QED  BY <1>1, <1>2 DEF Store!vars

LEMMA SameFile ==
  ASSUME db' = db, file' = file, mutex' = mutex \/ (mutex # "writing" /\ mutex' = "free")
  PROVE  UNCHANGED Store!vars
  BY Stutters DEF OnDisk, Entries, Writing

LEMMA DiesCrashes ==
  ASSUME Dies PROVE Store!Crash
  <1>1. Entries(db)' = {} /\ OnDisk' = OnDisk /\ mutex' = "free"
    BY DEF Dies, Entries, NoTables, OnDisk
  <1> QED  BY <1>1 DEF Store!Crash

LEMMA LoadRecalls ==
  ASSUME IInv, Login PROVE Store!Recall \/ UNCHANGED Store!vars
  <1>1. mutex = "free" /\ load_db
    BY DEF Login, Free
  <1>2. /\ db \in Tables
        /\ file \in [state : {"none", "short", "damaged", "whole"}, data : Tables]
    BY DEF IInv, TypeOK
  <1>3. CASE file.state = "whole"
    <2>1. db' = Cleared(file.data) /\ file' = file /\ mutex' = mutex
      BY <1>1, <1>3 DEF load_db, Reloaded
    <2>2. Entries(db') = Entries(file.data)
      BY <1>2, <2>1, ClearedTables
    <2>3. Entries(db)' = OnDisk
      BY <1>3, <2>2 DEF OnDisk, Entries
    <2>4. OnDisk' = OnDisk
      BY <2>1 DEF OnDisk, Entries
    <2> QED  BY <1>1, <2>1, <2>3, <2>4 DEF Store!Recall
  <1>4. CASE file.state = "none"
    <2>1. db' = Cleared(db) /\ file' = file /\ mutex' = mutex
      BY <1>1, <1>4 DEF load_db, Reloaded
    <2>2. Entries(db') = Entries(db) /\ OnDisk' = OnDisk
      BY <1>2, <2>1, ClearedTables DEF OnDisk, Entries
    <2> QED  BY <2>1, <2>2, Stutters DEF Writing
  <1>5. CASE file.state = "damaged"
    <2>1. db' = Cleared(db) /\ file' = NoFile /\ mutex' = mutex
      BY <1>1, <1>5 DEF load_db, Reloaded
    <2>2. Entries(db') = Entries(db)
      BY <1>2, <2>1, ClearedTables
    <2>3. OnDisk' = OnDisk
      BY <1>5, <2>1 DEF OnDisk, NoFile
    <2> QED  BY <2>1, <2>2, <2>3, Stutters DEF Writing
  <1>6. CASE file.state = "short"
    <2>1. db' = db /\ file' = file /\ mutex' = "spinning"
      BY <1>1, <1>6 DEF load_db
    <2>2. Entries(db') = Entries(db) /\ OnDisk' = OnDisk
      BY <2>1 DEF OnDisk, Entries
    <2> QED  BY <1>1, <2>1, <2>2, Stutters DEF Writing
  <1> QED  BY <1>2, <1>3, <1>4, <1>5, <1>6

\* a row more in a table
LEMMA OneRow ==
  ASSUME NEW k, NEW S, NEW o
  PROVE  [table : {k}, row : S \cup {o}] = [table : {k}, row : S] \cup {[table |-> k, row |-> o]}
  <1>1. ASSUME NEW x \in [table : {k}, row : S \cup {o}]
        PROVE  x \in [table : {k}, row : S] \cup {[table |-> k, row |-> o]}
    <2>1. x = [table |-> x.table, row |-> x.row] /\ x.table = k /\ x.row \in S \cup {o}
      OBVIOUS
    <2>2. CASE x.row = o
      BY <2>1, <2>2
    <2>3. CASE x.row \in S
      BY <2>1, <2>3
    <2> QED  BY <2>1, <2>2, <2>3
  <1>2. ASSUME NEW x \in [table : {k}, row : S] PROVE x \in [table : {k}, row : S \cup {o}]
    OBVIOUS
  <1>3. [table |-> k, row |-> o] \in [table : {k}, row : S \cup {o}]
    OBVIOUS
  <1> QED  BY <1>1, <1>2, <1>3

LEMMA SetNonceLearns ==
  ASSUME IInv, NEW w \in Workers, set_blinding_nonce(w) PROVE Store!Next
  <1>1. CASE thr[w].cur \subseteq db.nonces
    BY <1>1, DiesCrashes DEF set_blinding_nonce, Store!Next
  <1>2. CASE ~(thr[w].cur \subseteq db.nonces)
    <2>1. PICK o \in Outputs : thr[w].cur = {o}
      BY CallFacts DEF set_blinding_nonce, At, CallInv, CurInv
    <2>2. /\ db' = [db EXCEPT !.nonces = @ \cup {o}] /\ file' = file /\ mutex' = mutex
          /\ mutex = "free" /\ db \in Tables
      BY <1>2, <2>1 DEF set_blinding_nonce, Free, IInv, TypeOK
    <2>3. db'.outputs = db.outputs /\ db'.nonces = db.nonces \cup {o} /\ db'.index = db.index
      BY <2>2 DEF Tables
    <2> DEFINE e == [table |-> "nonce", row |-> o]
    <2>4. e \in Entry
      BY DEF Entry
    <2>5. Entries(db)' = Entries(db) \cup {e}
      <3>1. [table : {"nonce"}, row : db.nonces \cup {o}]
              = [table : {"nonce"}, row : db.nonces] \cup {e}
        BY OneRow
      <3> QED  BY <2>3, <3>1 DEF Entries
    <2>6. OnDisk' = OnDisk
      BY <2>2 DEF OnDisk, Entries
    <2>7. Store!Learn(e)
      BY <2>2, <2>5, <2>6 DEF Store!Learn
    <2> QED  BY <2>4, <2>7 DEF Store!Next
  <1> QED  BY <1>1, <1>2

LEMMA InsertLearns ==
  ASSUME IInv, NEW w \in Workers, InsertOutput(w) PROVE Store!Next \/ UNCHANGED Store!vars
  <1>1. /\ file' = file /\ mutex' = mutex /\ mutex = "free"
        /\ \/ db' = db
           \/ db' = [db EXCEPT !.outputs = @ \cup thr[w].cur]
    BY DEF InsertOutput, Inserted, Free
  <1>2. CASE db' = db
    BY <1>1, <1>2, SameFile
  <1>3. CASE db' = [db EXCEPT !.outputs = @ \cup thr[w].cur]
    <2>1. PICK o \in Outputs : thr[w].cur = {o}
      BY CallFacts DEF InsertOutput, At, CallInv, CurInv
    <2>2. db'.outputs = db.outputs \cup {o} /\ db'.nonces = db.nonces /\ db'.index = db.index
      BY <1>3, <2>1 DEF IInv, TypeOK, Tables
    <2> DEFINE e == [table |-> "output", row |-> o]
    <2>3. e \in Entry
      BY DEF Entry
    <2>4. Entries(db)' = Entries(db) \cup {e}
      <3>1. [table : {"output"}, row : db.outputs \cup {o}]
              = [table : {"output"}, row : db.outputs] \cup {e}
        BY OneRow
      <3> QED  BY <2>2, <3>1 DEF Entries
    <2>5. OnDisk' = OnDisk
      BY <1>1 DEF OnDisk, Entries
    <2>6. Store!Learn(e)
      BY <1>1, <2>4, <2>5 DEF Store!Learn
    <2> QED  BY <2>3, <2>6 DEF Store!Next
  <1> QED  BY <1>1, <1>2, <1>3

LEMMA RefreshLearns ==
  ASSUME IInv, NEW w \in Workers, refresh_http_data(w) PROVE Store!Next
  <1>1. /\ file' = file /\ mutex' = "held" /\ mutex = "free" /\ db' = [db EXCEPT !.index = TRUE]
    BY DEF refresh_http_data, Free
  <1>2. db'.outputs = db.outputs /\ db'.nonces = db.nonces /\ db'.index = TRUE
    BY <1>1 DEF IInv, TypeOK, Tables
  <1> DEFINE e == [table |-> "index", row |-> "index"]
  <1>3. e \in Entry
    BY DEF Entry
  <1>4. Entries(db)' = Entries(db) \cup {e}
    BY <1>2 DEF Entries
  <1>5. OnDisk' = OnDisk
    BY <1>1 DEF OnDisk, Entries
  <1>6. Store!Learn(e)
    BY <1>1, <1>4, <1>5 DEF Store!Learn
  <1> QED  BY <1>3, <1>6 DEF Store!Next

LEMMA OpenBegins ==
  ASSUME IInv, NEW w \in Workers, OpenFile(w) PROVE Store!Begin \/ UNCHANGED Store!vars
  <1>1. mutex # "writing" /\ db' = db
    BY DEF OpenFile, Saves
  <1>2. CASE file' = file /\ mutex' = "free"
    BY <1>1, <1>2, SameFile
  <1>3. CASE file' = [state |-> "short", data |-> NoTables] /\ mutex' = "writing"
    <2>1. OnDisk' = {}
      BY <1>3 DEF OnDisk
    <2> QED  BY <1>1, <1>3, <2>1 DEF Store!Begin, Entries
  <1> QED  BY <1>2, <1>3 DEF OpenFile

LEMMA WriteStutters ==
  ASSUME IInv, NEW w \in Workers, WriteFile(w) PROVE UNCHANGED Store!vars
  <1>1. file.state = "short" /\ file' = [file EXCEPT !.state = "damaged"] /\ db' = db /\ mutex' = mutex
    BY DEF WriteFile, session
  <1>2. file'.state = "damaged"
    BY <1>1 DEF IInv, TypeOK
  <1>3. OnDisk' = OnDisk
    BY <1>1, <1>2 DEF OnDisk
  <1> QED  BY <1>1, <1>3, Stutters DEF Writing

LEMMA CloseCommits ==
  ASSUME IInv, NEW w \in Workers, CloseFile(w) PROVE Store!Commit
  <1>1. mutex = "writing"
    BY DEF CloseFile, At, IInv, WriterInv
  <1>2. file' = [state |-> "whole", data |-> db] /\ db' = db /\ mutex' = "free"
    BY DEF CloseFile
  <1>3. OnDisk' = Entries(db) /\ Entries(db)' = Entries(db)
    BY <1>2 DEF OnDisk, Entries
  <1> QED  BY <1>1, <1>2, <1>3 DEF Store!Commit

LEMMA FailureFails ==
  ASSUME IInv, NEW w \in Workers, WriteStalls(w) \/ CloseFails(w) PROVE Store!Fail
  <1>1. mutex = "writing"
    BY DEF WriteStalls, CloseFails, At, IInv, WriterInv
  <1>2. file' = file /\ db' = db /\ mutex' # "writing"
    BY DEF WriteStalls, CloseFails
  <1>3. OnDisk' = OnDisk /\ Entries(db)' = Entries(db)
    BY <1>2 DEF OnDisk, Entries
  <1> QED  BY <1>1, <1>2, <1>3 DEF Store!Fail

LEMMA NewTransactionStutters ==
  ASSUME IInv, on_new_transaction PROVE UNCHANGED Store!vars
  <1>1. (db' = Cleared(db) \/ db' = db) /\ file' = file /\ mutex' = mutex
    BY DEF on_new_transaction
  <1>2. Entries(db') = Entries(db) /\ OnDisk' = OnDisk
    BY <1>1, ClearedTables DEF IInv, TypeOK, OnDisk, Entries
  <1> QED  BY <1>1, <1>2, Stutters DEF Writing

LEMMA StoreStutters ==
  ASSUME IInv, NEW w \in Workers, StoreLocktimes(w) PROVE UNCHANGED Store!vars
  <1>1. db' = [db EXCEPT !.upcoming = thr[w].val] /\ file' = file /\ mutex' = mutex
    BY DEF StoreLocktimes, upsert_keyvalue
  <1>2. db'.outputs = db.outputs /\ db'.nonces = db.nonces /\ db'.index = db.index
    BY <1>1 DEF IInv, TypeOK, Tables
  <1>3. Entries(db') = Entries(db) /\ OnDisk' = OnDisk
    BY <1>1, <1>2 DEF OnDisk, Entries
  <1> QED  BY <1>1, <1>3, Stutters DEF Writing

\* what leaves the file and the tables alone
LEMMA OtherWorkerStutters ==
  ASSUME NEW w \in Workers,
         \/ needs_unblind_call(w) \/ ResolveCode(w) \/ has_blinding_nonce(w) \/ ListOutputs(w)
         \/ ReadLocktimes(w) \/ FetchLocktimes(w) \/ LookUp(w) \/ Unblind(w)
         \/ get_blinding_nonce(w) \/ SkipSave(w) \/ CallFails(w)
  PROVE  UNCHANGED Store!vars
  <1>1. /\ db' = db /\ file' = file
        /\ mutex' = mutex \/ (mutex # "writing" /\ mutex' = "free")
    BY DEF needs_unblind_call, ResolveCode, has_blinding_nonce, ListOutputs, ReadLocktimes,
       FetchLocktimes, LookUp, Unblind, get_blinding_nonce, SkipSave, Saves, CallFails, session
  <1> QED  BY <1>1, SameFile

LEMMA StepRefines ==
  ASSUME IInv, [Next]_vars PROVE [Store!Next]_(Store!vars)
  <1>1. CASE Crash
    BY <1>1, DiesCrashes DEF Crash, Store!Next
  <1>2. CASE ServerNewTx \/ ConnectionLost \/ Restart \/ on_failed_login \/ LoginGoesOn \/ UNCHANGED vars
    <2>1. db' = db /\ file' = file /\ mutex' = mutex
      BY <1>2 DEF ServerNewTx, ConnectionLost, Restart, on_failed_login, LoginGoesOn, vars, session
    <2> QED  BY <2>1, SameFile
  <1>3. CASE on_new_transaction
    BY <1>3, NewTransactionStutters
  <1>4. CASE Login
    BY <1>4, LoadRecalls DEF Store!Next
  <1>5. ASSUME NEW w \in Workers, WorkerStep(w) PROVE Store!Next \/ UNCHANGED Store!vars
    <2>1. CASE HandlerStep(w)
      BY <2>1, OtherWorkerStutters, SetNonceLearns DEF HandlerStep
    <2>2. CASE UnblindStep(w)
      BY <2>2, OtherWorkerStutters, StoreStutters, InsertLearns DEF UnblindStep
    <2>3. CASE SaveStep(w)
      BY <2>3, OtherWorkerStutters, OpenBegins, WriteStutters, FailureFails, CloseCommits
         DEF SaveStep, Store!Next
    <2>4. CASE refresh_http_data(w)
      BY <2>4, RefreshLearns
    <2>5. CASE CallFails(w)
      BY <2>5, OtherWorkerStutters
    <2> QED  BY <1>5, <2>1, <2>2, <2>3, <2>4, <2>5 DEF WorkerStep
  <1> QED  BY <1>1, <1>2, <1>3, <1>4, <1>5 DEF Next

\* The encrypted file implements a store that is replaced as a whole,
\* wherever the process is killed and whatever cannot be written (save_db,
\* openssl_encrypt, load_db)
THEOREM FileIsAStore == Spec => StoreSpec
  <1>1. Init => Store!Init
    BY DEF Init, Store!Init, Entries, NoTables, OnDisk, NoFile
  <1>2. IInv /\ [Next]_vars => [Store!Next]_(Store!vars)
    BY StepRefines
  <1> QED  BY <1>1, <1>2, Invariance, PTL DEF Spec, StoreSpec, Store!Spec
=============================================================================
