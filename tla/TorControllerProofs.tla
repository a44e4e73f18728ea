------------------------ MODULE TorControllerProofs ------------------------
(***************************************************************************)
(* Proofs about TorController for any number of sessions, controllers,     *)
(* impls, ports and calls.                                                 *)
(***************************************************************************)
EXTENDS TorController, TLAPS

-----------------------------------------------------------------------------
(* The inductive invariant.                                                *)

\* Where a call has an impl: in its constructor, waiting, in its destructor
Waits(c) == c.pc \in {"look", "blocked"}
Stops(c) == c.pc \in {"halt", "push", "join"}
Active(c) == c.pc = "ctor" \/ Waits(c) \/ Stops(c)
\* with m_ctrl_mutex, or on a controller nobody else can reach
Locked(c) == Waits(c) \/ (c.pc = "ctor" /\ c.why = "wakeup") \/ (Stops(c) /\ c.why = "sleep")
Alone(c) == (c.pc = "ctor" /\ c.why = "connect") \/ (Stops(c) /\ c.why = "destroy")

ThreadInv(s) ==
    LET c == thr[s]
    IN  /\ c.pc = "lock" => ref[s] # None
        /\ Active(c) => /\ c.i \in Impls /\ imp[c.i].own # None
                        /\ Locked(c) \/ Alone(c)
        /\ Locked(c) => ref[s] = imp[c.i].own /\ ctrl[imp[c.i].own].lock = s
        /\ Alone(c) => ~Referenced(imp[c.i].own)
        /\ c.pc = "ctor" /\ c.why = "connect" => s_inst_mutex = s

\* One call at a time has an impl; get_shared_ref makes a controller only when
\* there is none
ThreadsInv ==
    /\ \A s \in Sessions : ThreadInv(s)
    /\ \A s, u \in Sessions : Active(thr[s]) /\ Active(thr[u]) /\ s # u => thr[s].i # thr[u].i
    /\ s_inst_mutex # None => \A s \in Sessions : ref[s] = None

\* The controller the sessions have, or that is being made for them
Owned(k) == Referenced(k) \/ \E s \in Sessions : thr[s].pc = "ctor" /\ thr[s].why = "connect"
                                                /\ imp[thr[s].i].own = k

OwnersInv ==
    /\ \A i \in Impls : imp[i].own # None => ctrl[imp[i].own].m_ctrl = i
    /\ \A k \in Ctrls : ctrl[k].m_ctrl # None => imp[ctrl[k].m_ctrl].own = k
    /\ \A i \in Impls : Running(i) => tor[i].own # None /\ imp[i].own = tor[i].own
    /\ \A i \in Impls : Running(i) => Owned(imp[i].own) \/ \E s \in Sessions : Destroying(s, i)
    /\ \A k, l \in Ctrls : Owned(k) /\ Owned(l) => k = l

\* What a Tor t has said and will be asked: it is asked for its address once the
\* circuit is built, and gives p, which is the port q that the controller kept
Built(t) == t.state \in {"starting", "up"} => t.boot = Full
GoodReplies(t, p) ==
    {r \in ReplyType : r.code = 250 =>
        /\ r.cmd = "PHASE" => r.val \in 0 .. Full /\ (r.val = Full => Built(t))
        /\ r.cmd = "SOCKS" => r.val \in Ports /\ r.val = p /\ Built(t)}
GoodCommands(t) == {c \in Commands : c = "SOCKS" => Built(t)}
Honest(x, t, q, p) ==
    /\ x.replies \in Seq(GoodReplies(t, p)) /\ x.out \in Seq(GoodCommands(t))
    /\ x.socks5 \in {None, p} /\ q \in {None, p}
    /\ x.socks5 # None \/ x.next = "SOCKS" \/ x.progress = Full => Built(t)
    /\ t.state = "up" => t.listen = p /\ p \in Ports
    /\ t.state = "starting" => t.boot = 0 /\ q \in {None, t.conf}
Port(i) == IF imp[i].own = None THEN None ELSE ctrl[imp[i].own].m_socks5_port
DataInv == \A i \in Impls : \E p \in Ports \cup {None} : Honest(imp[i], tor[i], Port(i), p)

IInv == TypeOK /\ ThreadsInv /\ OwnersInv /\ DataInv /\ NoLostWakeup

-----------------------------------------------------------------------------
(* Sequences.                                                              *)

LEMMA TailHead ==
  ASSUME NEW S, NEW q \in Seq(S), q # <<>>
  PROVE  Tail(q) \in Seq(S) /\ Head(q) \in S
OBVIOUS

LEMMA Appended ==
  ASSUME NEW S, NEW q \in Seq(S), NEW e \in S
  PROVE  Append(q, e) \in Seq(S)
OBVIOUS

LEMMA SeqGrows ==
  ASSUME NEW S, NEW T, S \subseteq T, NEW q \in Seq(S)
  PROVE  q \in Seq(T)
OBVIOUS

-----------------------------------------------------------------------------
(* A new process, and one that has died.                                   *)

Blank ==
    /\ s_inst_mutex = None /\ ref = NoRefs /\ proxy = NoRefs
    /\ ctrl = NoCtrls /\ imp = NoImpls /\ tor = NoTors /\ thr = NoCalls
    /\ events = 0 /\ aborted \in BOOLEAN

LEMMA Commanded == Commands = {"PROTOCOLINFO", "AUTHCHALLENGE", "AUTHENTICATE", "PHASE", "SOCKS", "HALT"}
  BY DEF Commands

LEMMA NewTypes ==
    /\ \A k \in Ctrls \cup {None} : NewImpl(k) \in ImplType
    /\ NewCtrl \in CtrlType /\ NoTor \in TorType /\ NoCall \in CallType
<1>1. \A k \in Ctrls \cup {None} : NewImpl(k) \in ImplType
  <2> SUFFICES ASSUME NEW k \in Ctrls \cup {None} PROVE NewImpl(k) \in ImplType
    OBVIOUS
  <2>1. <<>> \in Seq(Commands) /\ <<>> \in Seq(ReplyType) OBVIOUS
  <2>2. 0 \in 0 .. Full BY BoundsAssumption
  <2> QED BY <2>1, <2>2, Commanded DEF NewImpl, ImplType
<1>2. NewCtrl \in CtrlType BY DEF NewCtrl, CtrlType
<1>3. NoTor \in TorType BY BoundsAssumption DEF NoTor, TorType
<1>4. NoCall \in CallType BY BoundsAssumption DEF NoCall, CallType, Calls
<1> QED BY <1>1, <1>2, <1>3, <1>4

\* An impl that has said nothing yet can have any address
LEMMA NewHonest ==
  ASSUME NEW k \in Ctrls \cup {None}, NEW t \in TorType, NEW q \in Ports \cup {None},
         t.state # "up", t.state = "starting" => t.boot = 0 /\ q = t.conf
  PROVE  Honest(NewImpl(k), t, q, q)
<1>1. <<>> \in Seq(GoodReplies(t, q)) /\ <<>> \in Seq(GoodCommands(t)) OBVIOUS
<1>2. 0 # Full BY BoundsAssumption
<1> QED BY <1>1, <1>2 DEF Honest, NewImpl

LEMMA BlankInv == Blank => IInv
<1> SUFFICES ASSUME Blank PROVE IInv OBVIOUS
<1>1. TypeOK
  <2>1. ctrl \in [Ctrls -> CtrlType] /\ tor \in [Impls -> TorType] /\ thr \in [Sessions -> CallType]
    BY NewTypes DEF Blank, NoCtrls, NoTors, NoCalls
  <2>2. imp \in [Impls -> ImplType] BY NewTypes DEF Blank, NoImpls
  <2>3. events \in 0 .. MaxEvents BY BoundsAssumption DEF Blank
  <2> QED BY <2>1, <2>2, <2>3 DEF Blank, TypeOK, NoRefs
<1>2. \A s \in Sessions : thr[s].pc = "idle" /\ ref[s] = None
  BY DEF Blank, NoCalls, NoCall, NoRefs
<1>3. \A i \in Impls : imp[i] = NewImpl(None) /\ tor[i] = NoTor
  BY DEF Blank, NoImpls, NoTors
<1>4. ThreadsInv
  BY <1>2 DEF ThreadsInv, ThreadInv, Active, Waits, Stops, Locked, Alone
<1>5. OwnersInv
  <2>1. \A i \in Impls : imp[i].own = None /\ ~Running(i)
    BY <1>3 DEF NewImpl, NoTor, Running
  <2>2. \A k \in Ctrls : ~Owned(k) /\ ctrl[k].m_ctrl = None
    BY <1>2, NoneAssumption DEF Owned, Referenced, Blank, NoCtrls, NewCtrl
  <2> QED BY <2>1, <2>2 DEF OwnersInv
<1>6. DataInv
  <2> SUFFICES ASSUME NEW i \in Impls PROVE Honest(imp[i], tor[i], Port(i), None)
    BY DEF DataInv
  <2>1. Port(i) = None BY <1>3 DEF Port, NewImpl
  <2>2. NoTor.state = "none" BY DEF NoTor
  <2> QED BY <1>3, <2>1, <2>2, NewTypes, NewHonest
<1>7. NoLostWakeup BY <1>2 DEF NoLostWakeup
<1> QED BY <1>1, <1>4, <1>5, <1>6, <1>7 DEF IInv

LEMMA InitInv == Init => IInv
  BY BlankInv DEF Init, Blank

LEMMA AbortInv == Abort => IInv'
<1> SUFFICES ASSUME Abort PROVE IInv' OBVIOUS
<1>1. Blank' BY DEF Abort, Blank
<1> QED BY <1>1, BlankInv, PTL

-----------------------------------------------------------------------------
(* What keeps the parts of the invariant.                                  *)

\* Steps that move no impl to another owner or call
LEMMA StructFrame ==
  ASSUME TypeOK, ThreadsInv, OwnersInv,
         UNCHANGED <<s_inst_mutex, ref, ctrl>>,
         \A j \in Impls : imp'[j].own = imp[j].own,
         \A j \in Impls : tor'[j].state \in {"starting", "up"} => Running(j) /\ tor'[j].own = tor[j].own,
         \A s \in Sessions : /\ thr'[s].why = thr[s].why /\ thr'[s].i = thr[s].i
                             /\ thr'[s].pc = "ctor" <=> thr[s].pc = "ctor"
                             /\ thr'[s].pc = "lock" <=> thr[s].pc = "lock"
                             /\ Waits(thr'[s]) <=> Waits(thr[s])
                             /\ Stops(thr'[s]) <=> Stops(thr[s])
  PROVE  ThreadsInv' /\ OwnersInv'
<1>1. \A s \in Sessions : /\ Locked(thr'[s]) <=> Locked(thr[s])
                          /\ Alone(thr'[s]) <=> Alone(thr[s])
                          /\ Active(thr'[s]) <=> Active(thr[s])
  BY DEF Locked, Alone, Active
<1>2. \A k : Referenced(k)' <=> Referenced(k) BY DEF Referenced
<1>3. \A s \in Sessions : ThreadInv(s)'
  <2> SUFFICES ASSUME NEW s \in Sessions PROVE ThreadInv(s)' OBVIOUS
  <2>1. ThreadInv(s) BY DEF ThreadsInv
  <2>2. CASE Active(thr[s])
    <3>1. thr[s].i \in Impls /\ imp'[thr'[s].i].own = imp[thr[s].i].own BY <2>1, <2>2 DEF ThreadInv
    <3> QED BY <2>1, <2>2, <3>1, <1>1, <1>2 DEF ThreadInv
  <2>3. CASE ~Active(thr[s])
    BY <2>1, <2>3, <1>1 DEF ThreadInv, Active, Locked, Alone
  <2> QED BY <2>2, <2>3
<1>4. ThreadsInv' BY <1>1, <1>3 DEF ThreadsInv
<1>5. \A k \in Ctrls \cup {None} : Owned(k)' <=> Owned(k)
  <2>1. \A s \in Sessions : thr[s].pc = "ctor" => thr[s].i \in Impls
    BY DEF ThreadsInv, ThreadInv, Active
  <2> QED BY <1>2, <2>1 DEF Owned
<1>6. \A i \in Impls : \A s \in Sessions : Destroying(s, i)' <=> Destroying(s, i)
  BY DEF Destroying, Stops
<1>7. \A j \in Impls : Running(j)' => Running(j) /\ tor'[j].own = tor[j].own BY DEF Running
<1>8. \A j \in Impls : imp[j].own \in Ctrls \cup {None} BY DEF TypeOK, ImplType
<1>9. \A i \in Impls : Running(i)' => Owned(imp[i].own)' \/ \E s \in Sessions : Destroying(s, i)'
  BY <1>5, <1>6, <1>7, <1>8 DEF OwnersInv
<1>10. OwnersInv'
  <2>1. \A k \in Ctrls : ctrl[k].m_ctrl \in Impls \cup {None} BY DEF TypeOK, CtrlType
  <2>2. \A i \in Impls : imp'[i].own # None => ctrl'[imp'[i].own].m_ctrl = i BY DEF OwnersInv
  <2>3. \A k \in Ctrls : ctrl'[k].m_ctrl # None => imp'[ctrl'[k].m_ctrl].own = k
    BY <2>1 DEF OwnersInv
  <2>4. \A i \in Impls : Running(i)' => tor'[i].own # None /\ imp'[i].own = tor'[i].own
    BY <1>7 DEF OwnersInv
  <2>6. \A k, l \in Ctrls : Owned(k)' /\ Owned(l)' => k = l BY <1>5 DEF OwnersInv
  <2> QED BY <2>2, <2>3, <2>4, <2>6, <1>9 DEF OwnersInv
<1> QED BY <1>4, <1>10

\* Replies and commands stay good while the circuit is not torn down
LEMMA StillGood ==
  ASSUME NEW t, NEW v, NEW p, Built(t) => Built(v)
  PROVE  /\ GoodReplies(t, p) \subseteq GoodReplies(v, p)
         /\ GoodCommands(t) \subseteq GoodCommands(v)
  BY DEF GoodReplies, GoodCommands

\* One impl and its Tor change; the others keep what they have said
LEMMA OneImpl ==
  ASSUME TypeOK, DataInv,
         NEW i \in Impls, NEW y \in ImplType, NEW t \in TorType, NEW p \in Ports \cup {None},
         imp' = [imp EXCEPT ![i] = y], tor' = [tor EXCEPT ![i] = t],
         Honest(y, t, Port(i)', p), \A j \in Impls : j # i => Port(j)' = Port(j)
  PROVE  imp' \in [Impls -> ImplType] /\ tor' \in [Impls -> TorType] /\ DataInv'
<1>1. imp' \in [Impls -> ImplType] /\ tor' \in [Impls -> TorType] BY DEF TypeOK
<1>2. \A j \in Impls : /\ imp'[j] = IF j = i THEN y ELSE imp[j]
                       /\ tor'[j] = IF j = i THEN t ELSE tor[j]
  BY DEF TypeOK
<1>3. DataInv'
  <2> SUFFICES ASSUME NEW j \in Impls
               PROVE  \E o \in Ports \cup {None} : Honest(imp'[j], tor'[j], Port(j)', o)
    BY DEF DataInv
  <2>1. CASE j = i BY <1>2, <2>1
  <2>2. CASE j # i BY <1>2, <2>2 DEF DataInv
  <2> QED BY <2>1, <2>2
<1> QED BY <1>1, <1>3

LEMMA PortFrame ==
  ASSUME TypeOK, NEW j \in Impls, imp'[j].own = imp[j].own,
         \A k \in Ctrls : ctrl'[k].m_socks5_port = ctrl[k].m_socks5_port
  PROVE  Port(j)' = Port(j)
<1>1. imp[j].own \in Ctrls \cup {None} BY DEF TypeOK, ImplType
<1> QED BY <1>1 DEF Port

\* A step of the control thread or of Tor, which no waiting call can miss
LEMMA ImplStep ==
  ASSUME IInv, UNCHANGED <<s_inst_mutex, ref, proxy, ctrl, aborted>>, events' \in 0 .. MaxEvents,
         NEW i \in Impls, NEW y \in ImplType, NEW t \in TorType, NEW p \in Ports \cup {None},
         imp' = [imp EXCEPT ![i] = y], tor' = [tor EXCEPT ![i] = t],
         y.own = imp[i].own, Honest(y, t, Port(i), p),
         t.state \in {"starting", "up"} => Running(i) /\ t.own = tor[i].own,
         \/ /\ thr' = thr /\ y.socks5 = imp[i].socks5
            /\ y.ctl = "notify" \/ (imp[i].ctl # "notify" /\ y.progress = imp[i].progress)
         \/ notify_all(i)
  PROVE  IInv'
<1>0. \A j \in Impls : imp'[j].own = imp[j].own /\ Port(j)' = Port(j)
  <2>1. \A j \in Impls : imp'[j].own = imp[j].own BY DEF IInv, TypeOK
  <2> QED BY <2>1, PortFrame DEF IInv
<1>1. /\ imp' \in [Impls -> ImplType] /\ tor' \in [Impls -> TorType] /\ DataInv'
      /\ \A j \in Impls : imp'[j].own = imp[j].own
  BY <1>0, OneImpl DEF IInv
<1>2. \A j \in Impls : tor'[j].state \in {"starting", "up"} => Running(j) /\ tor'[j].own = tor[j].own
  BY DEF IInv, TypeOK, Running
<1>3. /\ thr' \in [Sessions -> CallType]
      /\ \A s \in Sessions : /\ thr'[s].pc = thr[s].pc /\ thr'[s].why = thr[s].why
                             /\ thr'[s].i = thr[s].i /\ thr'[s].last = thr[s].last
  <2>1. CASE thr' = thr BY <2>1 DEF IInv, TypeOK
  <2>2. CASE notify_all(i) BY <2>2 DEF notify_all, IInv, TypeOK, CallType
  <2> QED BY <2>1, <2>2
<1>4. TypeOK' BY <1>1, <1>3 DEF IInv, TypeOK
<1>5. ThreadsInv' /\ OwnersInv' BY <1>1, <1>2, <1>3, StructFrame DEF IInv, Waits, Stops
<1>6. NoLostWakeup'
  <2> SUFFICES ASSUME NEW s \in Sessions, thr'[s].pc = "blocked" /\ ~thr'[s].notified
               PROVE  /\ imp'[thr'[s].i].socks5 = None
                      /\ \/ imp'[thr'[s].i].ctl = "notify"
                         \/ imp'[thr'[s].i].progress = thr'[s].last
    BY DEF NoLostWakeup
  <2>1. thr[s].pc = "blocked" /\ thr[s].i \in Impls
    BY <1>3 DEF IInv, ThreadsInv, ThreadInv, Active, Waits
  <2>2. ~thr[s].notified /\ (notify_all(i) => thr[s].i # i)
    <3>1. CASE thr' = thr /\ ~notify_all(i) BY <3>1
    <3>2. CASE notify_all(i) BY <2>1, <3>2 DEF notify_all, IInv, TypeOK, CallType
    <3> QED BY <3>1, <3>2
  <2>3. /\ imp[thr[s].i].socks5 = None
        /\ imp[thr[s].i].ctl = "notify" \/ imp[thr[s].i].progress = thr[s].last
    BY <2>1, <2>2 DEF IInv, NoLostWakeup
  <2>4. imp'[thr[s].i] = IF thr[s].i = i THEN y ELSE imp[thr[s].i] BY <2>1 DEF IInv, TypeOK
  <2> QED BY <1>3, <2>2, <2>3, <2>4
<1> QED BY <1>1, <1>4, <1>5, <1>6 DEF IInv

-----------------------------------------------------------------------------
(* The control thread.                                                     *)

LEMMA ControlKeeps ==
  ASSUME IInv, UNCHANGED <<s_inst_mutex, ref, proxy, ctrl, tor, events, aborted>>,
         NEW i \in Impls, NEW y \in ImplType, NEW p \in Ports \cup {None},
         imp' = [imp EXCEPT ![i] = y], y.own = imp[i].own, Honest(y, tor[i], Port(i), p),
         \/ /\ thr' = thr /\ y.socks5 = imp[i].socks5
            /\ y.ctl = "notify" \/ (imp[i].ctl # "notify" /\ y.progress = imp[i].progress)
         \/ notify_all(i)
  PROVE  IInv'
<1>1. tor[i] \in TorType /\ tor' = [tor EXCEPT ![i] = tor[i]] BY DEF IInv, TypeOK
<1>2. events' \in 0 .. MaxEvents BY DEF IInv, TypeOK
<1>3. tor[i].state \in {"starting", "up"} => Running(i) /\ tor[i].own = tor[i].own BY DEF Running
<1> QED BY <1>1, <1>2, <1>3, ImplStep

\* Replies are read in order
LEMMA ReadsGood ==
  ASSUME IInv, NEW i \in Impls, Reads(i), NEW p, Honest(imp[i], tor[i], Port(i), p)
  PROVE  /\ Tail(imp[i].replies) \in Seq(ReplyType) /\ Reply(i) \in ReplyType
         /\ Tail(imp[i].replies) \in Seq(GoodReplies(tor[i], p))
         /\ Reply(i) \in GoodReplies(tor[i], p)
<1>1. imp[i].replies # <<>> BY DEF Reads
<1>2. imp[i].replies \in Seq(ReplyType) BY DEF IInv, TypeOK, ImplType
<1>3. imp[i].replies \in Seq(GoodReplies(tor[i], p)) BY DEF Honest
<1> QED BY <1>1, <1>2, <1>3, TailHead DEF Reply

LEMMA connected_cbInv == ASSUME IInv, NEW i \in Impls, connected_cb(i) PROVE IInv'
<1> DEFINE y == [GoOnWith(i, "PROTOCOLINFO") EXCEPT !.conn = "open"]
<1>1. PICK p \in Ports \cup {None} : Honest(imp[i], tor[i], Port(i), p) BY DEF IInv, DataInv
<1>2. imp[i] \in ImplType /\ imp[i].ctl = "loop" BY DEF IInv, TypeOK, connected_cb
<1>3. /\ y \in ImplType /\ y.own = imp[i].own /\ y.replies = imp[i].replies /\ y.out = imp[i].out
      /\ y.socks5 = imp[i].socks5 /\ y.progress = imp[i].progress /\ y.next = "PROTOCOLINFO"
  BY <1>2, Commanded DEF ImplType, GoOnWith
<1>4. Honest(y, tor[i], Port(i), p) BY <1>1, <1>3 DEF Honest
<1>5. imp' = [imp EXCEPT ![i] = y] /\ thr' = thr
      /\ UNCHANGED <<s_inst_mutex, ref, proxy, ctrl, tor, events, aborted>> BY DEF connected_cb
<1> HIDE DEF y
<1> QED BY <1>2, <1>3, <1>4, <1>5, ControlKeeps

LEMMA SendInv == ASSUME IInv, NEW i \in Impls, Send(i) PROVE IInv'
<1> DEFINE o == Append(imp[i].out, imp[i].next)
           y == [imp[i] EXCEPT !.out = o, !.ctl = "push"]
<1>1. PICK p \in Ports \cup {None} : Honest(imp[i], tor[i], Port(i), p) BY DEF IInv, DataInv
<1>2. imp[i] \in ImplType /\ imp[i].ctl = "send" BY DEF IInv, TypeOK, Send
<1>3. o \in Seq(Commands) /\ o \in Seq(GoodCommands(tor[i]))
  <2>1. imp[i].next \in GoodCommands(tor[i]) BY <1>1, <1>2 DEF Honest, GoodCommands, ImplType
  <2>2. imp[i].out \in Seq(GoodCommands(tor[i])) BY <1>1 DEF Honest
  <2>3. imp[i].out \in Seq(Commands) /\ imp[i].next \in Commands BY <1>2 DEF ImplType
  <2> QED BY <2>1, <2>2, <2>3, Appended
<1> HIDE DEF o
<1>4. /\ y \in ImplType /\ y.own = imp[i].own /\ y.replies = imp[i].replies /\ y.out = o
      /\ y.socks5 = imp[i].socks5 /\ y.progress = imp[i].progress /\ y.next = imp[i].next
  BY <1>2, <1>3 DEF ImplType
<1>5. Honest(y, tor[i], Port(i), p) BY <1>1, <1>3, <1>4 DEF Honest
<1>6. imp' = [imp EXCEPT ![i] = y] /\ thr' = thr
      /\ UNCHANGED <<s_inst_mutex, ref, proxy, ctrl, tor, events, aborted>> BY DEF Send, o
<1> HIDE DEF y
<1> QED BY <1>2, <1>4, <1>5, <1>6, ControlKeeps

LEMMA PushInv == ASSUME IInv, NEW i \in Impls, Push(i) PROVE IInv'
<1> DEFINE all == Append(imp[i].handlers, imp[i].next)
           hs == IF imp[i].next = "PROTOCOLINFO" THEN all ELSE Tail(all)
           y == [imp[i] EXCEPT !.ctl = "loop", !.handlers = hs]
<1>1. PICK p \in Ports \cup {None} : Honest(imp[i], tor[i], Port(i), p) BY DEF IInv, DataInv
<1>2. imp[i] \in ImplType /\ imp[i].ctl = "push" BY DEF IInv, TypeOK, Push
<1>3. hs \in Seq(Commands)
  <2>1. imp[i].handlers \in Seq(Commands) /\ imp[i].next \in Commands BY <1>2 DEF ImplType
  <2>2. all \in Seq(Commands) /\ Len(all) = Len(imp[i].handlers) + 1 /\ Len(imp[i].handlers) \in Nat
    BY <2>1
  <2>3. all # <<>> BY <2>2
  <2> QED BY <2>2, <2>3, TailHead
<1>4. imp' = [imp EXCEPT ![i] = y] /\ thr' = thr
      /\ UNCHANGED <<s_inst_mutex, ref, proxy, ctrl, tor, events, aborted>> BY DEF Push
<1> HIDE DEF hs
<1>5. /\ y \in ImplType /\ y.own = imp[i].own /\ y.replies = imp[i].replies /\ y.out = imp[i].out
      /\ y.socks5 = imp[i].socks5 /\ y.progress = imp[i].progress /\ y.next = imp[i].next
  BY <1>2, <1>3 DEF ImplType
<1>6. Honest(y, tor[i], Port(i), p) BY <1>1, <1>5 DEF Honest
<1> HIDE DEF y
<1> QED BY <1>2, <1>4, <1>5, <1>6, ControlKeeps

LEMMA UnexpectedReplyInv == ASSUME IInv, NEW i \in Impls, UnexpectedReply(i) PROVE IInv'
<1> DEFINE y == Read(i)
<1>1. PICK p \in Ports \cup {None} : Honest(imp[i], tor[i], Port(i), p) BY DEF IInv, DataInv
<1>2. imp[i] \in ImplType BY DEF IInv, TypeOK
<1>c. imp[i].ctl = "loop" BY DEF UnexpectedReply, Reads
<1>r. Reads(i) BY DEF UnexpectedReply
<1>t. /\ Tail(imp[i].replies) \in Seq(ReplyType) /\ Reply(i) \in ReplyType
      /\ Tail(imp[i].replies) \in Seq(GoodReplies(tor[i], p))
      /\ Reply(i) \in GoodReplies(tor[i], p)
  BY <1>1, <1>r, ReadsGood
<1>3. /\ y \in ImplType
      /\ y.own = imp[i].own
      /\ y.replies = Tail(imp[i].replies)
      /\ y.out = imp[i].out
      /\ y.socks5 = imp[i].socks5
      /\ y.progress = imp[i].progress
      /\ y.next = imp[i].next
  BY <1>2, <1>t DEF ImplType, Read
<1>4. Honest(y, tor[i], Port(i), p) BY <1>1, <1>3, <1>t DEF Honest
<1>5. imp' = [imp EXCEPT ![i] = y] /\ thr' = thr
      /\ UNCHANGED <<s_inst_mutex, ref, proxy, ctrl, tor, events, aborted>> BY DEF UnexpectedReply
<1> HIDE DEF y
<1> QED BY <1>2, <1>c, <1>3, <1>4, <1>5, ControlKeeps

LEMMA FollowType ==
  \A h \in {"PROTOCOLINFO", "AUTHCHALLENGE", "AUTHENTICATE"} : Follow(h) \in Commands /\ Follow(h) # "SOCKS"
  BY DEF Follow, Commands


LEMMA authenticate_cbInv == ASSUME IInv, NEW i \in Impls, NEW h \in {"PROTOCOLINFO", "AUTHCHALLENGE", "AUTHENTICATE"}, authenticate_cb(i, h) PROVE IInv'
<1> DEFINE y == [GoOnWith(i, Follow(h)) EXCEPT !.replies = Tail(@)]
<1>1. PICK p \in Ports \cup {None} : Honest(imp[i], tor[i], Port(i), p) BY DEF IInv, DataInv
<1>2. imp[i] \in ImplType BY DEF IInv, TypeOK
<1>c. imp[i].ctl = "loop" BY DEF authenticate_cb, Handles, Reads
<1>r. Reads(i) BY DEF authenticate_cb, Handles
<1>t. /\ Tail(imp[i].replies) \in Seq(ReplyType) /\ Reply(i) \in ReplyType
      /\ Tail(imp[i].replies) \in Seq(GoodReplies(tor[i], p))
      /\ Reply(i) \in GoodReplies(tor[i], p)
  BY <1>1, <1>r, ReadsGood
<1>3. /\ y \in ImplType
      /\ y.own = imp[i].own
      /\ y.replies = Tail(imp[i].replies)
      /\ y.out = imp[i].out
      /\ y.socks5 = imp[i].socks5
      /\ y.progress = imp[i].progress
      /\ y.next = Follow(h)
  BY <1>2, <1>t, FollowType DEF ImplType, GoOnWith
<1>4. Honest(y, tor[i], Port(i), p) BY <1>1, <1>3, <1>t, FollowType DEF Honest
<1>5. imp' = [imp EXCEPT ![i] = y] /\ thr' = thr
      /\ UNCHANGED <<s_inst_mutex, ref, proxy, ctrl, tor, events, aborted>> BY DEF authenticate_cb
<1> HIDE DEF y
<1> QED BY <1>2, <1>c, <1>3, <1>4, <1>5, ControlKeeps

LEMMA bootstrap_phase_cbInv == ASSUME IInv, NEW i \in Impls, bootstrap_phase_cb(i) PROVE IInv'
<1> DEFINE y == [Read(i) EXCEPT !.progress = Reply(i).val, !.ctl = "notify"]
<1>1. PICK p \in Ports \cup {None} : Honest(imp[i], tor[i], Port(i), p) BY DEF IInv, DataInv
<1>2. imp[i] \in ImplType BY DEF IInv, TypeOK
<1>c. imp[i].ctl = "loop" BY DEF bootstrap_phase_cb, Handles, Reads
<1>r. Reads(i) BY DEF bootstrap_phase_cb, Handles
<1>t. /\ Tail(imp[i].replies) \in Seq(ReplyType) /\ Reply(i) \in ReplyType
      /\ Tail(imp[i].replies) \in Seq(GoodReplies(tor[i], p))
      /\ Reply(i) \in GoodReplies(tor[i], p)
  BY <1>1, <1>r, ReadsGood
<1>v. Reply(i).val \in 0 .. Full /\ (Reply(i).val = Full => Built(tor[i]))
  BY <1>t DEF bootstrap_phase_cb, Asserts, GoodReplies
<1>3. /\ y \in ImplType
      /\ y.own = imp[i].own
      /\ y.replies = Tail(imp[i].replies)
      /\ y.out = imp[i].out
      /\ y.socks5 = imp[i].socks5
      /\ y.progress = Reply(i).val
      /\ y.next = imp[i].next
  BY <1>2, <1>t, <1>v DEF ImplType, Read
<1>4. Honest(y, tor[i], Port(i), p) BY <1>1, <1>3, <1>t, <1>v DEF Honest
<1>5. imp' = [imp EXCEPT ![i] = y] /\ thr' = thr
      /\ UNCHANGED <<s_inst_mutex, ref, proxy, ctrl, tor, events, aborted>> BY DEF bootstrap_phase_cb
<1>n. y.ctl = "notify" BY <1>2 DEF ImplType, Read
<1> HIDE DEF y
<1> QED BY <1>2, <1>3, <1>4, <1>5, <1>n, ControlKeeps

LEMMA NotifyPhaseInv == ASSUME IInv, NEW i \in Impls, NotifyPhase(i) PROVE IInv'
<1> DEFINE y == [imp[i] EXCEPT !.ctl = "decide"]
<1>1. PICK p \in Ports \cup {None} : Honest(imp[i], tor[i], Port(i), p) BY DEF IInv, DataInv
<1>2. imp[i] \in ImplType BY DEF IInv, TypeOK
<1>3. /\ y \in ImplType
      /\ y.own = imp[i].own
      /\ y.replies = imp[i].replies
      /\ y.out = imp[i].out
      /\ y.socks5 = imp[i].socks5
      /\ y.progress = imp[i].progress
      /\ y.next = imp[i].next
  BY <1>2 DEF ImplType
<1>4. Honest(y, tor[i], Port(i), p) BY <1>1, <1>3 DEF Honest
<1>5. imp' = [imp EXCEPT ![i] = y] /\ notify_all(i)
      /\ UNCHANGED <<s_inst_mutex, ref, proxy, ctrl, tor, events, aborted>> BY DEF NotifyPhase
<1> HIDE DEF y
<1> QED BY <1>2, <1>3, <1>4, <1>5, ControlKeeps

LEMMA DecideInv == ASSUME IInv, NEW i \in Impls, Decide(i) PROVE IInv'
<1> DEFINE n == IF CircuitReady(i) THEN "SOCKS" ELSE "PHASE"
           y == GoOnWith(i, n)
<1>n. n \in Commands /\ (n = "SOCKS" => imp[i].progress = Full) BY Commanded DEF CircuitReady
<1>5. imp' = [imp EXCEPT ![i] = y] /\ thr' = thr
      /\ UNCHANGED <<s_inst_mutex, ref, proxy, ctrl, tor, events, aborted>> BY DEF Decide
<1> HIDE DEF n
<1>1. PICK p \in Ports \cup {None} : Honest(imp[i], tor[i], Port(i), p) BY DEF IInv, DataInv
<1>2. imp[i] \in ImplType BY DEF IInv, TypeOK
<1>c. imp[i].ctl = "decide" BY DEF Decide
<1>3. /\ y \in ImplType
      /\ y.own = imp[i].own
      /\ y.replies = imp[i].replies
      /\ y.out = imp[i].out
      /\ y.socks5 = imp[i].socks5
      /\ y.progress = imp[i].progress
      /\ y.next = n
  BY <1>2, <1>n DEF ImplType, GoOnWith
<1>4. Honest(y, tor[i], Port(i), p) BY <1>1, <1>3, <1>n DEF Honest
<1> HIDE DEF y
<1> QED BY <1>2, <1>c, <1>3, <1>4, <1>5, ControlKeeps

LEMMA socks_cbInv == ASSUME IInv, NEW i \in Impls, socks_cb(i) PROVE IInv'
<1> DEFINE y == [Popped(i) EXCEPT !.socks5 = Reply(i).val]
<1>1. PICK p \in Ports \cup {None} : Honest(imp[i], tor[i], Port(i), p) BY DEF IInv, DataInv
<1>2. imp[i] \in ImplType BY DEF IInv, TypeOK
<1>r. Reads(i) BY DEF socks_cb, Handles
<1>t. /\ Tail(imp[i].replies) \in Seq(ReplyType) /\ Reply(i) \in ReplyType
      /\ Tail(imp[i].replies) \in Seq(GoodReplies(tor[i], p))
      /\ Reply(i) \in GoodReplies(tor[i], p)
  BY <1>1, <1>r, ReadsGood
<1>v. Reply(i).val \in Ports /\ Reply(i).val = p /\ Built(tor[i])
  BY <1>t DEF socks_cb, Asserts, GoodReplies
<1>h. Tail(imp[i].handlers) \in Seq(Commands) BY <1>2, TailHead DEF socks_cb, Handles, ImplType
<1>3. /\ y \in ImplType
      /\ y.own = imp[i].own
      /\ y.replies = Tail(imp[i].replies)
      /\ y.out = imp[i].out
      /\ y.socks5 = Reply(i).val
      /\ y.progress = imp[i].progress
      /\ y.next = imp[i].next
  BY <1>2, <1>t, <1>v, <1>h DEF ImplType, Popped, Read
<1>4. Honest(y, tor[i], Port(i), p) BY <1>1, <1>3, <1>t, <1>v DEF Honest
<1>5. imp' = [imp EXCEPT ![i] = y] /\ notify_all(i)
      /\ UNCHANGED <<s_inst_mutex, ref, proxy, ctrl, tor, events, aborted>> BY DEF socks_cb, NotifySocks
<1> HIDE DEF y
<1> QED BY <1>2, <1>3, <1>4, <1>5, ControlKeeps

LEMMA stopped_cbInv == ASSUME IInv, NEW i \in Impls, stopped_cb(i) PROVE IInv'
<1> DEFINE y == Popped(i)
<1>1. PICK p \in Ports \cup {None} : Honest(imp[i], tor[i], Port(i), p) BY DEF IInv, DataInv
<1>2. imp[i] \in ImplType BY DEF IInv, TypeOK
<1>c. imp[i].ctl = "loop" BY DEF stopped_cb, Handles, Reads
<1>r. Reads(i) BY DEF stopped_cb, Handles
<1>t. /\ Tail(imp[i].replies) \in Seq(ReplyType) /\ Reply(i) \in ReplyType
      /\ Tail(imp[i].replies) \in Seq(GoodReplies(tor[i], p))
      /\ Reply(i) \in GoodReplies(tor[i], p)
  BY <1>1, <1>r, ReadsGood
<1>h. Tail(imp[i].handlers) \in Seq(Commands) BY <1>2, TailHead DEF stopped_cb, Handles, ImplType
<1>3. /\ y \in ImplType
      /\ y.own = imp[i].own
      /\ y.replies = Tail(imp[i].replies)
      /\ y.out = imp[i].out
      /\ y.socks5 = imp[i].socks5
      /\ y.progress = imp[i].progress
      /\ y.next = imp[i].next
  BY <1>2, <1>t, <1>h DEF ImplType, Popped, Read
<1>4. Honest(y, tor[i], Port(i), p) BY <1>1, <1>3, <1>t DEF Honest
<1>5. imp' = [imp EXCEPT ![i] = y] /\ thr' = thr
      /\ UNCHANGED <<s_inst_mutex, ref, proxy, ctrl, tor, events, aborted>> BY DEF stopped_cb
<1> HIDE DEF y
<1> QED BY <1>2, <1>c, <1>3, <1>4, <1>5, ControlKeeps

LEMMA EndOfStreamInv == ASSUME IInv, NEW i \in Impls, EndOfStream(i) PROVE IInv'
<1> DEFINE y == [imp[i] EXCEPT !.conn = "freed", !.ctl = "freed"]
<1>1. PICK p \in Ports \cup {None} : Honest(imp[i], tor[i], Port(i), p) BY DEF IInv, DataInv
<1>2. imp[i] \in ImplType BY DEF IInv, TypeOK
<1>c. imp[i].ctl = "loop" BY DEF EndOfStream
<1>3. /\ y \in ImplType
      /\ y.own = imp[i].own
      /\ y.replies = imp[i].replies
      /\ y.out = imp[i].out
      /\ y.socks5 = imp[i].socks5
      /\ y.progress = imp[i].progress
      /\ y.next = imp[i].next
  BY <1>2 DEF ImplType
<1>4. Honest(y, tor[i], Port(i), p) BY <1>1, <1>3 DEF Honest
<1>5. imp' = [imp EXCEPT ![i] = y] /\ thr' = thr
      /\ UNCHANGED <<s_inst_mutex, ref, proxy, ctrl, tor, events, aborted>> BY DEF EndOfStream
<1> HIDE DEF y
<1> QED BY <1>2, <1>c, <1>3, <1>4, <1>5, ControlKeeps

LEMMA disconnected_cbInv == ASSUME IInv, NEW i \in Impls, disconnected_cb(i), ~Abort PROVE IInv'
<1> DEFINE y == [imp[i] EXCEPT !.conn = "null", !.ctl = "ended"]
<1>1. PICK p \in Ports \cup {None} : Honest(imp[i], tor[i], Port(i), p) BY DEF IInv, DataInv
<1>2. imp[i] \in ImplType BY DEF IInv, TypeOK
<1>c. imp[i].ctl = "freed" BY DEF disconnected_cb
<1>3. /\ y \in ImplType
      /\ y.own = imp[i].own
      /\ y.replies = imp[i].replies
      /\ y.out = imp[i].out
      /\ y.socks5 = imp[i].socks5
      /\ y.progress = imp[i].progress
      /\ y.next = imp[i].next
  BY <1>2 DEF ImplType
<1>4. Honest(y, tor[i], Port(i), p) BY <1>1, <1>3 DEF Honest
<1>5. imp' = [imp EXCEPT ![i] = y] /\ thr' = thr
      /\ UNCHANGED <<s_inst_mutex, ref, proxy, ctrl, tor, events, aborted>> BY DEF disconnected_cb
<1> HIDE DEF y
<1> QED BY <1>2, <1>c, <1>3, <1>4, <1>5, ControlKeeps

\* Whatever the control thread does
LEMMA ControlInv == ASSUME IInv, NEW i \in Impls, ControlStep(i) PROVE IInv'
<1>1. CASE Abort BY <1>1, AbortInv
<1>2. CASE ~Abort
  <2>1. ~AssertionFails(i) BY <1>2 DEF AssertionFails
  <2> QED
    BY <1>2, <2>1, connected_cbInv, SendInv, PushInv, UnexpectedReplyInv, authenticate_cbInv,
       bootstrap_phase_cbInv, NotifyPhaseInv, DecideInv, socks_cbInv, stopped_cbInv,
       EndOfStreamInv, disconnected_cbInv DEF ControlStep
<1> QED BY <1>1, <1>2

-----------------------------------------------------------------------------
(* Tor.                                                                    *)

LEMMA TorUpInv == ASSUME IInv, NEW i \in Impls, TorUp(i), ~Abort PROVE IInv'
<1>1. PICK o \in Ports \cup {None} : Honest(imp[i], tor[i], Port(i), o) BY DEF IInv, DataInv
<1>2. imp[i] \in ImplType /\ tor[i] \in TorType /\ tor[i].state = "starting"
  BY DEF IInv, TypeOK, TorUp
<1>3. PICK p \in Ports : tor[i].conf \in {None, p}
                         /\ tor' = [tor EXCEPT ![i].state = "up", ![i].listen = p]
  BY DEF TorUp
<1> DEFINE t == [tor[i] EXCEPT !.state = "up", !.listen = p]
<1>4. /\ t \in TorType /\ t.state = "up" /\ t.listen = p /\ t.boot = tor[i].boot /\ t.own = tor[i].own
      /\ tor' = [tor EXCEPT ![i] = t]
  BY <1>2, <1>3 DEF TorType
<1>5. ~Built(tor[i]) BY <1>1, <1>2, BoundsAssumption DEF Built, Honest
<1>6. GoodReplies(tor[i], o) \subseteq GoodReplies(t, p) /\ GoodCommands(tor[i]) \subseteq GoodCommands(t)
  BY <1>5 DEF GoodReplies, GoodCommands
<1> HIDE DEF t
<1>7. imp[i].replies \in Seq(GoodReplies(t, p)) /\ imp[i].out \in Seq(GoodCommands(t))
  BY <1>1, <1>6, SeqGrows DEF Honest
<1>8. Port(i) \in {None, p}
  BY <1>1, <1>2, <1>3 DEF Honest
<1>9. Honest(imp[i], t, Port(i), p)
  BY <1>1, <1>4, <1>5, <1>7, <1>8 DEF Honest
<1>10. /\ imp' = [imp EXCEPT ![i] = imp[i]] /\ thr' = thr
       /\ UNCHANGED <<s_inst_mutex, ref, proxy, ctrl, aborted>> /\ events' \in 0 .. MaxEvents
  BY DEF TorUp, IInv, TypeOK
<1>11. Running(i) BY <1>2 DEF Running
<1> QED BY <1>2, <1>4, <1>9, <1>10, <1>11, ImplStep

LEMMA TorBootsInv == ASSUME IInv, NEW i \in Impls, TorBoots(i) PROVE IInv'
<1> DEFINE t == [tor[i] EXCEPT !.boot = @ + 1]
<1>1. PICK p \in Ports \cup {None} : Honest(imp[i], tor[i], Port(i), p) BY DEF IInv, DataInv
<1>2. imp[i] \in ImplType /\ tor[i] \in TorType /\ tor[i].state = "up" /\ tor[i].boot < Full
  BY DEF IInv, TypeOK, TorBoots
<1>3. tor[i].boot \in 0 .. Full /\ tor[i].boot + 1 \in 0 .. Full BY <1>2, BoundsAssumption DEF TorType
<1>4. /\ t \in TorType /\ t.state = "up" /\ t.listen = tor[i].listen /\ t.own = tor[i].own
      /\ tor' = [tor EXCEPT ![i] = t]
  BY <1>2, <1>3 DEF TorType, TorBoots
<1> HIDE DEF t
<1>5. ~Built(tor[i]) BY <1>2, <1>3, BoundsAssumption DEF Built
<1>6. imp[i].replies \in Seq(GoodReplies(t, p)) /\ imp[i].out \in Seq(GoodCommands(t))
  BY <1>1, <1>5, StillGood, SeqGrows DEF Honest
<1>7. Honest(imp[i], t, Port(i), p) BY <1>1, <1>2, <1>4, <1>5, <1>6 DEF Honest
<1>8. /\ imp' = [imp EXCEPT ![i] = imp[i]] /\ thr' = thr
      /\ UNCHANGED <<s_inst_mutex, ref, proxy, ctrl, aborted>> /\ events' \in 0 .. MaxEvents
  BY DEF TorBoots, IInv, TypeOK
<1>9. Running(i) BY <1>2 DEF Running
<1> QED BY <1>2, <1>4, <1>7, <1>8, <1>9, ImplStep

\* A reply is good if it tells the truth about the circuit and the address; it
\* answers the command that was first, and the rest stays
LEMMA RepliesGood ==
  ASSUME IInv, NEW i \in Impls, Receives(i), NEW code \in {250, 514}, NEW val, NEW t, NEW p,
         Honest(imp[i], tor[i], Port(i), p), Built(tor[i]) => Built(t),
         [cmd |-> Command(i), code |-> code, val |-> val] \in GoodReplies(t, p)
  PROVE  LET y == Replied(i, code, val)
         IN  /\ y \in ImplType /\ y.own = imp[i].own /\ y.ctl = imp[i].ctl /\ y.next = imp[i].next
             /\ y.socks5 = imp[i].socks5 /\ y.progress = imp[i].progress
             /\ y.replies \in Seq(GoodReplies(t, p)) /\ y.out \in Seq(GoodCommands(t))
<1> DEFINE r == [cmd |-> Command(i), code |-> code, val |-> val]
           rs == Append(imp[i].replies, r)
           o == Tail(imp[i].out)
<1>1. imp[i] \in ImplType BY DEF IInv, TypeOK
<1>2. imp[i].out # <<>> BY DEF Receives
<1>3. r \in ReplyType /\ r \in GoodReplies(t, p) BY DEF GoodReplies
<1>4. imp[i].replies \in Seq(ReplyType) /\ imp[i].out \in Seq(Commands) BY <1>1 DEF ImplType
<1>5. imp[i].replies \in Seq(GoodReplies(t, p)) /\ imp[i].out \in Seq(GoodCommands(t))
  BY StillGood, SeqGrows DEF Honest
<1> HIDE DEF r
<1>6. rs \in Seq(ReplyType) /\ rs \in Seq(GoodReplies(t, p)) BY <1>3, <1>4, <1>5, Appended
<1>7. o \in Seq(Commands) /\ o \in Seq(GoodCommands(t)) BY <1>2, <1>4, <1>5, TailHead
<1> HIDE DEF rs, o
<1>8. Replied(i, code, val) = [imp[i] EXCEPT !.out = o, !.replies = rs] BY DEF Replied, rs, o, r
<1> DEFINE y == [imp[i] EXCEPT !.out = o, !.replies = rs]
<1>9. /\ y \in ImplType /\ y.own = imp[i].own /\ y.ctl = imp[i].ctl /\ y.next = imp[i].next
      /\ y.socks5 = imp[i].socks5 /\ y.progress = imp[i].progress /\ y.replies = rs /\ y.out = o
  BY <1>1, <1>6, <1>7 DEF ImplType
<1> HIDE DEF y
<1>10. Replied(i, code, val) = y BY <1>8 DEF y
<1> QED BY <1>6, <1>7, <1>9, <1>10

LEMMA TorAnswersInv == ASSUME IInv, NEW i \in Impls, TorAnswers(i) PROVE IInv'
<1> DEFINE val == CASE Command(i) = "PHASE" -> tor[i].boot
                    [] Command(i) = "SOCKS" -> tor[i].listen
                    [] OTHER -> None
           y == Replied(i, 250, val)
           t == [tor[i] EXCEPT !.authed = @ \/ Command(i) = "AUTHENTICATE"]
           r == [cmd |-> Command(i), code |-> 250, val |-> val]
<1>1. PICK p \in Ports \cup {None} : Honest(imp[i], tor[i], Port(i), p) BY DEF IInv, DataInv
<1>2. imp[i] \in ImplType /\ tor[i] \in TorType /\ tor[i].state = "up" /\ Receives(i)
  BY DEF IInv, TypeOK, TorAnswers, Receives
<1>3. Command(i) \in GoodCommands(tor[i])
  BY <1>1, <1>2, TailHead DEF Honest, Command, Receives
<1>4. /\ t \in TorType /\ t.state = "up" /\ t.listen = tor[i].listen /\ t.own = tor[i].own
      /\ t.boot = tor[i].boot
  <2>1. (tor[i].authed \/ Command(i) = "AUTHENTICATE") \in BOOLEAN OBVIOUS
  <2> QED BY <1>2, <2>1 DEF TorType
<1>5. imp' = [imp EXCEPT ![i] = y] /\ tor' = [tor EXCEPT ![i] = t] /\ thr' = thr
      /\ UNCHANGED <<s_inst_mutex, ref, proxy, ctrl, aborted>> /\ events' \in 0 .. MaxEvents
  BY DEF TorAnswers, IInv, TypeOK
<1>6. Built(t) <=> Built(tor[i]) BY <1>2, <1>4 DEF Built
<1>7. r \in GoodReplies(t, p)
  <2>1. Command(i) \in Commands /\ (Command(i) = "SOCKS" => Built(t)) BY <1>3, <1>6 DEF GoodCommands
  <2>2. tor[i].boot \in 0 .. Full /\ tor[i].listen \in Ports /\ tor[i].listen = p
    BY <1>1, <1>2 DEF TorType, Honest
  <2>3. tor[i].boot = Full => Built(t) BY <1>4 DEF Built
  <2>4. CASE Command(i) = "PHASE"
    <3>1. val = tor[i].boot BY <2>4
    <3> QED BY <2>1, <2>2, <2>3, <2>4, <3>1 DEF GoodReplies, ReplyType
  <2>5. CASE Command(i) = "SOCKS"
    <3>1. val = tor[i].listen BY <2>5
    <3> QED BY <2>1, <2>2, <2>5, <3>1 DEF GoodReplies, ReplyType
  <2>6. CASE Command(i) \notin {"PHASE", "SOCKS"}
    <3>1. val = None BY <2>6
    <3> QED BY <2>1, <2>6, <3>1 DEF GoodReplies, ReplyType
  <2> QED BY <2>4, <2>5, <2>6
<1> HIDE DEF val, t
<1>8. /\ y \in ImplType /\ y.own = imp[i].own /\ y.ctl = imp[i].ctl /\ y.next = imp[i].next
      /\ y.socks5 = imp[i].socks5 /\ y.progress = imp[i].progress
      /\ y.replies \in Seq(GoodReplies(t, p)) /\ y.out \in Seq(GoodCommands(t))
  BY <1>1, <1>2, <1>6, <1>7, RepliesGood
<1> HIDE DEF y
<1>9. Honest(y, t, Port(i), p) BY <1>1, <1>2, <1>4, <1>6, <1>8 DEF Honest
<1>10. Running(i) BY <1>2 DEF Running
<1> QED BY <1>4, <1>5, <1>8, <1>9, <1>10, ImplStep

LEMMA TorRefusesInv == ASSUME IInv, NEW i \in Impls, TorRefuses(i) PROVE IInv'
<1> DEFINE z == Replied(i, 514, None)
           y == [z EXCEPT !.eof = TRUE]
<1>1. PICK p \in Ports \cup {None} : Honest(imp[i], tor[i], Port(i), p) BY DEF IInv, DataInv
<1>2. tor[i] \in TorType /\ Receives(i) /\ Running(i)
  BY DEF IInv, TypeOK, TorRefuses, Receives, Running
<1>3. Command(i) \in GoodCommands(tor[i])
  BY <1>1, <1>2, TailHead DEF Honest, Command, Receives
<1>4. [cmd |-> Command(i), code |-> 514, val |-> None] \in GoodReplies(tor[i], p)
  BY <1>3 DEF GoodReplies, ReplyType, GoodCommands
<1>5. imp' = [imp EXCEPT ![i] = y] /\ tor' = [tor EXCEPT ![i] = tor[i]] /\ thr' = thr
      /\ UNCHANGED <<s_inst_mutex, ref, proxy, ctrl, aborted>> /\ events' \in 0 .. MaxEvents
  BY DEF TorRefuses, IInv, TypeOK
<1>6. /\ z \in ImplType /\ z.own = imp[i].own /\ z.ctl = imp[i].ctl /\ z.next = imp[i].next
      /\ z.socks5 = imp[i].socks5 /\ z.progress = imp[i].progress
      /\ z.replies \in Seq(GoodReplies(tor[i], p)) /\ z.out \in Seq(GoodCommands(tor[i]))
  BY <1>1, <1>2, <1>4, RepliesGood
<1> HIDE DEF z
<1>7. /\ y \in ImplType /\ y.own = imp[i].own /\ y.ctl = imp[i].ctl /\ y.next = imp[i].next
      /\ y.socks5 = imp[i].socks5 /\ y.progress = imp[i].progress
      /\ y.replies = z.replies /\ y.out = z.out
  BY <1>6 DEF ImplType
<1> HIDE DEF y
<1>8. Honest(y, tor[i], Port(i), p) BY <1>1, <1>6, <1>7 DEF Honest
<1> QED BY <1>2, <1>5, <1>7, <1>8, ImplStep

\* A Tor that is gone: what it has said stays
LEMMA GoneHonest ==
  ASSUME NEW x, NEW t, NEW q, NEW p, Honest(x, t, q, p)
  PROVE  Honest(x, NoTor, q, p)
<1>1. Built(NoTor) /\ NoTor.state = "none" BY DEF Built, NoTor
<1>2. x.replies \in Seq(GoodReplies(NoTor, p)) /\ x.out \in Seq(GoodCommands(NoTor))
  BY <1>1, StillGood, SeqGrows DEF Honest
<1> QED BY <1>1, <1>2 DEF Honest

LEMMA TorHaltsInv == ASSUME IInv, NEW i \in Impls, TorHalts(i) PROVE IInv'
<1> DEFINE z == Replied(i, 250, None)
           y == [z EXCEPT !.eof = TRUE]
<1>1. PICK p \in Ports \cup {None} : Honest(imp[i], tor[i], Port(i), p) BY DEF IInv, DataInv
<1>2. Receives(i) /\ Command(i) = "HALT" BY DEF TorHalts
<1>3. Built(NoTor) /\ NoTor.state = "none" /\ NoTor \in TorType BY NewTypes DEF Built, NoTor
<1>4. [cmd |-> Command(i), code |-> 250, val |-> None] \in GoodReplies(NoTor, p)
  BY <1>2, Commanded DEF GoodReplies, ReplyType
<1>5. imp' = [imp EXCEPT ![i] = y] /\ tor' = [tor EXCEPT ![i] = NoTor] /\ thr' = thr
      /\ UNCHANGED <<s_inst_mutex, ref, proxy, ctrl, aborted>> /\ events' \in 0 .. MaxEvents
  BY DEF TorHalts, IInv, TypeOK
<1>6. /\ z \in ImplType /\ z.own = imp[i].own /\ z.ctl = imp[i].ctl /\ z.next = imp[i].next
      /\ z.socks5 = imp[i].socks5 /\ z.progress = imp[i].progress
      /\ z.replies \in Seq(GoodReplies(NoTor, p)) /\ z.out \in Seq(GoodCommands(NoTor))
  BY <1>1, <1>2, <1>3, <1>4, RepliesGood
<1> HIDE DEF z
<1>7. /\ y \in ImplType /\ y.own = imp[i].own /\ y.ctl = imp[i].ctl /\ y.next = imp[i].next
      /\ y.socks5 = imp[i].socks5 /\ y.progress = imp[i].progress
      /\ y.replies = z.replies /\ y.out = z.out
  BY <1>6 DEF ImplType
<1> HIDE DEF y
<1>8. Honest(y, NoTor, Port(i), p) BY <1>1, <1>3, <1>6, <1>7 DEF Honest
<1> QED BY <1>3, <1>5, <1>7, <1>8, ImplStep

LEMMA TorDiesInv == ASSUME IInv, NEW i \in Impls, TorDies(i) PROVE IInv'
<1> DEFINE y == [imp[i] EXCEPT !.eof = TRUE]
<1>1. PICK p \in Ports \cup {None} : Honest(imp[i], tor[i], Port(i), p) BY DEF IInv, DataInv
<1>2. imp[i] \in ImplType BY DEF IInv, TypeOK
<1>3. NoTor.state = "none" /\ NoTor \in TorType BY NewTypes DEF NoTor
<1>4. /\ y \in ImplType /\ y.own = imp[i].own /\ y.ctl = imp[i].ctl /\ y.next = imp[i].next
      /\ y.socks5 = imp[i].socks5 /\ y.progress = imp[i].progress
      /\ y.replies = imp[i].replies /\ y.out = imp[i].out
  BY <1>2 DEF ImplType
<1>5. imp' = [imp EXCEPT ![i] = y] /\ tor' = [tor EXCEPT ![i] = NoTor] /\ thr' = thr
      /\ UNCHANGED <<s_inst_mutex, ref, proxy, ctrl, aborted>>
  BY DEF TorDies
<1>6. events' \in 0 .. MaxEvents BY BoundsAssumption DEF TorDies, IInv, TypeOK
<1> HIDE DEF y
<1>7. Honest(y, NoTor, Port(i), p)
  <2>1. Honest(imp[i], NoTor, Port(i), p) BY <1>1, GoneHonest
  <2> QED BY <2>1, <1>4 DEF Honest
<1> QED BY <1>3, <1>4, <1>5, <1>6, <1>7, ImplStep

\* Whatever Tor does
LEMMA TorInv ==
  ASSUME IInv, NEW i \in Impls, TorStep(i) \/ TorBoots(i) \/ TorDies(i)
  PROVE  IInv'
<1>1. CASE Abort BY <1>1, AbortInv
<1>2. CASE ~Abort
  BY <1>2, TorUpInv, TorBootsInv, TorAnswersInv, TorHaltsInv, TorRefusesInv, TorDiesInv DEF TorStep
<1> QED BY <1>1, <1>2

-----------------------------------------------------------------------------
(* The calls.                                                              *)

\* Two calls have no controller in common with their impls
LEMMA OwnersDiffer ==
  ASSUME TypeOK, ThreadsInv, OwnersInv, NEW s \in Sessions, NEW u \in Sessions, s # u,
         Active(thr[s]), Active(thr[u])
  PROVE  imp[thr[s].i].own # imp[thr[u].i].own
  BY DEF ThreadsInv, ThreadInv, OwnersInv

\* A call that has m_ctrl_mutex, or the last reference, has the impl for itself
LEMMA ImplFree ==
  ASSUME TypeOK, ThreadsInv, OwnersInv, NEW s \in Sessions, NEW k \in Ctrls, ref[s] = k,
         ~Active(thr[s]), ctrl[k].m_ctrl # None,
         ctrl[k].lock = None \/ \A r \in Sessions : r # s => ref[r] # k
  PROVE  \A u \in Sessions : Active(thr[u]) => thr[u].i # ctrl[k].m_ctrl /\ imp[thr[u].i].own # k
<1> SUFFICES ASSUME NEW u \in Sessions, Active(thr[u])
             PROVE  thr[u].i # ctrl[k].m_ctrl /\ imp[thr[u].i].own # k
  OBVIOUS
<1>1. u # s /\ ThreadInv(u) BY DEF ThreadsInv
<1>2. Referenced(k) BY DEF Referenced
<1>3. ~(imp[thr[u].i].own = k) BY <1>1, <1>2, NoneAssumption DEF ThreadInv
<1>4. imp[ctrl[k].m_ctrl].own = k BY DEF OwnersInv
<1> QED BY <1>3, <1>4

\* The owners stay: no controller gains or loses its impl, or the sessions
LEMMA OwnersFrame ==
  ASSUME TypeOK, OwnersInv, tor' = tor, \A j \in Impls : imp'[j].own = imp[j].own,
         \A k \in Ctrls : ctrl'[k].m_ctrl = ctrl[k].m_ctrl,
         \A k \in Ctrls : Owned(k)' <=> Owned(k),
         \A i \in Impls : \A u \in Sessions : Destroying(u, i) => Destroying(u, i)'
  PROVE  OwnersInv'
<1>1. \A j \in Impls : Running(j)' <=> Running(j) BY DEF Running
<1>2. \A j \in Impls : imp[j].own \in Ctrls \cup {None} BY DEF TypeOK, ImplType
<1>3. \A k \in Ctrls : ctrl[k].m_ctrl \in Impls \cup {None} BY DEF TypeOK, CtrlType
<1>4. \A i \in Impls : Running(i)' => Owned(imp[i].own)' \/ \E u \in Sessions : Destroying(u, i)'
  <2> SUFFICES ASSUME NEW i \in Impls, Running(i)
               PROVE  Owned(imp[i].own)' \/ \E u \in Sessions : Destroying(u, i)'
    BY <1>1
  <2>1. imp[i].own \in Ctrls /\ imp'[i].own = imp[i].own BY <1>2 DEF OwnersInv
  <2> QED BY <2>1 DEF OwnersInv
<1>5. \A i \in Impls : imp'[i].own # None => ctrl'[imp'[i].own].m_ctrl = i BY <1>2 DEF OwnersInv
<1>6. \A k \in Ctrls : ctrl'[k].m_ctrl # None => imp'[ctrl'[k].m_ctrl].own = k
  BY <1>3 DEF OwnersInv
<1>7. \A i \in Impls : Running(i)' => tor'[i].own # None /\ imp'[i].own = tor'[i].own
  BY <1>1 DEF OwnersInv
<1>8. \A k, l \in Ctrls : Owned(k)' /\ Owned(l)' => k = l BY DEF OwnersInv
<1> QED BY <1>4, <1>5, <1>6, <1>7, <1>8 DEF OwnersInv

\* A call that is none of the destructor or get_shared_ref goes on without an impl
LEMMA Leaves ==
  ASSUME TypeOK, ThreadsInv, OwnersInv, NEW s \in Sessions, NEW c, thr' = [thr EXCEPT ![s] = c],
         ~Active(c), c.pc = "lock" => ref[s] # None, ~Alone(thr[s]),
         UNCHANGED <<s_inst_mutex, ref, tor>>, \A j \in Impls : imp'[j].own = imp[j].own,
         \A k \in Ctrls : /\ ctrl'[k].m_ctrl = ctrl[k].m_ctrl
                          /\ \/ ctrl'[k].lock = ctrl[k].lock
                             \/ Active(thr[s]) /\ k = imp[thr[s].i].own
  PROVE  ThreadsInv' /\ OwnersInv'
<1>1. \A u \in Sessions : thr'[u] = IF u = s THEN c ELSE thr[u] BY DEF TypeOK
<1>2. \A k : Referenced(k)' <=> Referenced(k) BY DEF Referenced
<1>3. \A u \in Sessions : ThreadInv(u)'
  <2> SUFFICES ASSUME NEW u \in Sessions PROVE ThreadInv(u)' OBVIOUS
  <2>1. CASE u = s
    <3>1. thr'[u] = c BY <1>1, <2>1
    <3> QED BY <2>1, <3>1 DEF ThreadInv, Active, Locked, Alone
  <2>2. CASE u # s
    <3>1. thr'[u] = thr[u] /\ ThreadInv(u) BY <1>1, <2>2 DEF ThreadsInv
    <3>2. CASE ~Active(thr[u])
      BY <3>1, <3>2 DEF ThreadInv, Active, Locked, Alone
    <3>3. CASE Active(thr[u])
      <4>1. thr[u].i \in Impls /\ imp'[thr[u].i].own = imp[thr[u].i].own /\ imp[thr[u].i].own \in Ctrls
        BY <3>1, <3>3 DEF ThreadInv, TypeOK, ImplType
      <4>2. ctrl'[imp[thr[u].i].own].lock = ctrl[imp[thr[u].i].own].lock
        BY <2>2, <3>3, <4>1, OwnersDiffer
      <4> QED BY <3>1, <3>3, <4>1, <4>2, <1>2 DEF ThreadInv
    <3> QED BY <3>2, <3>3
  <2> QED BY <2>1, <2>2
<1>4. ThreadsInv' BY <1>1, <1>3 DEF ThreadsInv
<1>5. \A k \in Ctrls : Owned(k)' <=> Owned(k)
  <2>1. \A u \in Sessions : thr[u].pc = "ctor" => thr[u].i \in Impls
    BY DEF ThreadsInv, ThreadInv, Active
  <2>2. \A u \in Sessions : thr'[u].pc = "ctor" /\ thr'[u].why = "connect"
                            <=> thr[u].pc = "ctor" /\ thr[u].why = "connect"
    BY <1>1 DEF Alone, Active
  <2>3. \A u \in Sessions : thr[u].pc = "ctor" /\ thr[u].why = "connect" => thr'[u] = thr[u]
    BY <1>1 DEF Alone, Active
  <2> QED BY <1>2, <2>1, <2>2, <2>3 DEF Owned
<1>6. \A i \in Impls : \A u \in Sessions : Destroying(u, i) => Destroying(u, i)'
  BY <1>1 DEF Destroying, Alone, Stops
<1>7. OwnersInv' BY <1>5, <1>6, OwnersFrame
<1> QED BY <1>4, <1>7

\* A step of a call that leaves the impls of waiting calls alone
LEMMA Unheard ==
  ASSUME TypeOK, NoLostWakeup, NEW s \in Sessions, NEW c, thr' = [thr EXCEPT ![s] = c],
         c.pc # "blocked",
         \A u \in Sessions : u # s /\ thr[u].pc = "blocked" =>
             LET i == thr[u].i
             IN  /\ imp'[i].socks5 = imp[i].socks5 /\ imp'[i].ctl = imp[i].ctl
                 /\ imp'[i].progress = imp[i].progress
  PROVE  NoLostWakeup'
<1>1. \A u \in Sessions : thr'[u] = IF u = s THEN c ELSE thr[u] BY DEF TypeOK
<1> SUFFICES ASSUME NEW u \in Sessions, thr'[u].pc = "blocked" /\ ~thr'[u].notified
             PROVE  /\ imp'[thr'[u].i].socks5 = None
                    /\ imp'[thr'[u].i].ctl = "notify" \/ imp'[thr'[u].i].progress = thr'[u].last
  BY DEF NoLostWakeup
<1>2. u # s /\ thr'[u] = thr[u] BY <1>1
<1> QED BY <1>2 DEF NoLostWakeup

LEMMA LeavesInv ==
  ASSUME IInv, NEW s \in Sessions, NEW c \in CallType, thr' = [thr EXCEPT ![s] = c],
         ~Active(c), c.pc = "lock" => ref[s] # None, ~Alone(thr[s]),
         UNCHANGED <<s_inst_mutex, ref, imp, tor, aborted>>, events' \in 0 .. MaxEvents,
         proxy' \in [Sessions -> Ports \cup {None}],
         \/ ctrl' = ctrl
         \/ Active(thr[s]) /\ ctrl' = [ctrl EXCEPT ![imp[thr[s].i].own].lock = None]
  PROVE  IInv'
<1>1. /\ ctrl' \in [Ctrls -> CtrlType]
      /\ \A k \in Ctrls : /\ ctrl'[k].m_ctrl = ctrl[k].m_ctrl
                          /\ ctrl'[k].m_socks5_port = ctrl[k].m_socks5_port
                          /\ \/ ctrl'[k].lock = ctrl[k].lock
                             \/ Active(thr[s]) /\ k = imp[thr[s].i].own
  BY DEF IInv, TypeOK, CtrlType
<1>2. TypeOK' BY <1>1 DEF IInv, TypeOK
<1>3. ThreadsInv' /\ OwnersInv' BY <1>1, Leaves DEF IInv
<1>4. DataInv'
  <2>1. \A j \in Impls : Port(j)' = Port(j) BY <1>1, PortFrame DEF IInv
  <2> QED BY <2>1 DEF IInv, DataInv
<1>5. NoLostWakeup'
  <2>1. c.pc # "blocked" BY DEF Active, Waits
  <2> QED BY <2>1, Unheard DEF IInv
<1> QED BY <1>2, <1>3, <1>4, <1>5 DEF IInv

LEMMA CallInv == ASSUME IInv, NEW s \in Sessions, NEW why \in Calls, Call(s, why) PROVE IInv'
<1> DEFINE c(l) == [thr[s] EXCEPT !.pc = l, !.why = why]
<1>1. thr[s] \in CallType /\ thr[s].pc = "idle" BY DEF IInv, TypeOK, Call
<1>2. PICK l \in {"ref", "lock"} : thr' = [thr EXCEPT ![s] = c(l)] /\ (l = "lock" => ref[s] # None)
  <2>1. CASE thr' = [thr EXCEPT ![s].pc = "ref", ![s].why = why] BY <2>1
  <2>2. CASE ref[s] # None /\ thr' = [thr EXCEPT ![s].pc = "lock", ![s].why = why] BY <2>2
  <2> QED BY <2>1, <2>2 DEF Call
<1>3. c(l) \in CallType /\ c(l).pc = l BY <1>1, <1>2 DEF CallType
<1> HIDE DEF c
<1>4. ~Active(c(l)) /\ ~Alone(thr[s]) BY <1>1, <1>3 DEF Active, Waits, Stops, Alone
<1>5. /\ UNCHANGED <<s_inst_mutex, ref, imp, tor, aborted, ctrl>>
      /\ proxy' \in [Sessions -> Ports \cup {None}]
  BY DEF Call, IInv, TypeOK
<1>6. events' \in 0 .. MaxEvents BY BoundsAssumption DEF Call, IInv, TypeOK
<1> QED BY <1>2, <1>3, <1>4, <1>5, <1>6, LeavesInv

\* The end of a wait, or of a call that found nothing to do
LEMMA NoCallInactive == NoCall \in CallType /\ NoCall.pc = "idle" /\ ~Active(NoCall)
  BY NewTypes DEF NoCall, Active, Waits, Stops

LEMMA AnswerType ==
  ASSUME IInv, NEW s \in Sessions, NEW port \in Ports \cup {None}, Answer(s, port), ref[s] # None
  PROVE  /\ proxy' \in [Sessions -> Ports \cup {None}]
         /\ \E c \in CallType : /\ thr' = [thr EXCEPT ![s] = c] /\ ~Active(c)
                                /\ c.pc = "lock" => ref[s] # None
<1>1. proxy' \in [Sessions -> Ports \cup {None}] BY DEF Answer, IInv, TypeOK
<1> DEFINE d == [NoCall EXCEPT !.pc = "lock", !.why = "wakeup"]
<1>2. d \in CallType /\ d.pc = "lock" BY NewTypes DEF CallType, NoCall, Calls
<1>3. ~Active(d) BY <1>2 DEF Active, Waits, Stops
<1>4. thr' = [thr EXCEPT ![s] = d] \/ thr' = [thr EXCEPT ![s] = NoCall] BY DEF Answer, Finish
<1> QED BY <1>1, <1>2, <1>3, <1>4, NoCallInactive

LEMMA TimesOutInv == ASSUME IInv, NEW s \in Sessions, TimesOut(s) PROVE IInv'
<1>1. thr[s].pc = "blocked" /\ ThreadInv(s) BY DEF TimesOut, IInv, ThreadsInv
<1>2. Active(thr[s]) /\ Locked(thr[s]) /\ ~Alone(thr[s]) BY <1>1 DEF Active, Locked, Alone, Waits, Stops
<1>3. thr[s].i \in Impls /\ ref[s] # None BY <1>1, <1>2 DEF ThreadInv
<1>4. imp[thr[s].i].socks5 \in Ports \cup {None} BY <1>3 DEF IInv, TypeOK, ImplType
<1>5. Answer(s, imp[thr[s].i].socks5) /\ ctrl' = [ctrl EXCEPT ![imp[thr[s].i].own].lock = None]
      /\ UNCHANGED <<s_inst_mutex, ref, imp, tor, events, aborted>>
  BY DEF TimesOut
<1>6. PICK c \in CallType : /\ thr' = [thr EXCEPT ![s] = c] /\ ~Active(c)
                            /\ c.pc = "lock" => ref[s] # None
  BY <1>3, <1>4, <1>5, AnswerType
<1>7. proxy' \in [Sessions -> Ports \cup {None}] BY <1>3, <1>4, <1>5, AnswerType
<1>8. events' \in 0 .. MaxEvents BY <1>5 DEF IInv, TypeOK
<1> QED BY <1>2, <1>5, <1>6, <1>7, <1>8, LeavesInv

\* A call goes on within its wait or its destructor
LEMMA ShiftInv ==
  ASSUME IInv, NEW s \in Sessions, NEW c \in CallType, thr' = [thr EXCEPT ![s] = c],
         c.why = thr[s].why, c.i = thr[s].i,
         (Waits(thr[s]) /\ Waits(c)) \/ (Stops(thr[s]) /\ Stops(c)),
         NEW y \in ImplType, imp' = [imp EXCEPT ![thr[s].i] = y], y.own = imp[thr[s].i].own,
         NEW p \in Ports \cup {None}, Honest(y, tor[thr[s].i], Port(thr[s].i), p),
         c.pc = "blocked" => y.socks5 = None /\ y.progress = c.last,
         UNCHANGED <<s_inst_mutex, ref, proxy, ctrl, tor, events, aborted>>
  PROVE  IInv'
<1>1. ThreadInv(s) /\ Active(thr[s]) BY DEF IInv, ThreadsInv, Active
<1>2. PICK i \in Impls : i = thr[s].i BY <1>1 DEF ThreadInv
<1>3. \A u \in Sessions : thr'[u] = IF u = s THEN c ELSE thr[u] BY DEF IInv, TypeOK
<1>4. imp' = [imp EXCEPT ![i] = y] /\ \A j \in Impls : imp'[j] = IF j = i THEN y ELSE imp[j]
  BY <1>2 DEF IInv, TypeOK
<1>5. \A j \in Impls : imp'[j].own = imp[j].own BY <1>2, <1>4
<1>6. \A j \in Impls : Port(j)' = Port(j) BY <1>5, PortFrame DEF IInv
<1>7. tor[i] \in TorType /\ tor' = [tor EXCEPT ![i] = tor[i]] BY <1>2 DEF IInv, TypeOK
<1>8. imp' \in [Impls -> ImplType] /\ DataInv'
  <2>1. Honest(y, tor[i], Port(i)', p) BY <1>2, <1>6
  <2> QED BY <1>4, <1>6, <1>7, <2>1, OneImpl DEF IInv
<1>9. TypeOK' BY <1>8 DEF IInv, TypeOK
<1>10. ThreadsInv' /\ OwnersInv'
  <2>1. \A j \in Impls : tor'[j].state \in {"starting", "up"} => Running(j) /\ tor'[j].own = tor[j].own
    BY DEF Running
  <2>2. \A u \in Sessions : /\ thr'[u].why = thr[u].why /\ thr'[u].i = thr[u].i
                            /\ thr'[u].pc = "ctor" <=> thr[u].pc = "ctor"
                            /\ thr'[u].pc = "lock" <=> thr[u].pc = "lock"
                            /\ Waits(thr'[u]) <=> Waits(thr[u])
                            /\ Stops(thr'[u]) <=> Stops(thr[u])
    BY <1>3 DEF Waits, Stops
  <2> QED BY <1>5, <2>1, <2>2, StructFrame DEF IInv
<1>11. NoLostWakeup'
  <2> SUFFICES ASSUME NEW u \in Sessions, thr'[u].pc = "blocked" /\ ~thr'[u].notified
               PROVE  /\ imp'[thr'[u].i].socks5 = None
                      /\ \/ imp'[thr'[u].i].ctl = "notify"
                         \/ imp'[thr'[u].i].progress = thr'[u].last
    BY DEF NoLostWakeup
  <2>1. CASE u = s BY <1>2, <1>3, <1>4, <2>1
  <2>2. CASE u # s
    <3>1. thr'[u] = thr[u] /\ Active(thr[u]) BY <1>3, <2>2 DEF Active, Waits
    <3>2. thr[u].i # i /\ thr[u].i \in Impls BY <1>1, <1>2, <2>2, <3>1 DEF IInv, ThreadsInv, ThreadInv
    <3>3. imp'[thr[u].i] = imp[thr[u].i] BY <1>4, <3>2
    <3> QED BY <3>1, <3>3 DEF IInv, NoLostWakeup
  <2> QED BY <2>1, <2>2
<1> QED BY <1>8, <1>9, <1>10, <1>11 DEF IInv

\* A call that only changes its place
LEMMA SameImpl ==
  ASSUME IInv, NEW s \in Sessions, Waits(thr[s]) \/ Stops(thr[s])
  PROVE  /\ thr[s].i \in Impls /\ imp[thr[s].i] \in ImplType /\ imp = [imp EXCEPT ![thr[s].i] = imp[thr[s].i]]
         /\ \E p \in Ports \cup {None} : Honest(imp[thr[s].i], tor[thr[s].i], Port(thr[s].i), p)
<1>1. thr[s].i \in Impls BY DEF IInv, ThreadsInv, ThreadInv, Active
<1> QED BY <1>1 DEF IInv, TypeOK, DataInv

LEMMA LookInv == ASSUME IInv, NEW s \in Sessions, Look(s) PROVE IInv'
<1> DEFINE i == thr[s].i
           c == [thr[s] EXCEPT !.pc = "blocked", !.last = imp[i].progress, !.notified = FALSE]
<1>1. thr[s].pc = "look" /\ ThreadInv(s) /\ thr[s] \in CallType
  BY DEF Look, IInv, ThreadsInv, TypeOK
<1>2. Active(thr[s]) /\ Locked(thr[s]) /\ ~Alone(thr[s]) /\ Waits(thr[s])
  BY <1>1 DEF Active, Locked, Alone, Waits, Stops
<1>3. i \in Impls /\ ref[s] # None BY <1>1, <1>2 DEF ThreadInv
<1>4. imp[i].socks5 \in Ports \cup {None} /\ imp[i].progress \in 0 .. Full
  BY <1>3 DEF IInv, TypeOK, ImplType
<1>5. CASE imp[i].socks5 # None
  <2>1. Answer(s, imp[i].socks5) /\ ctrl' = [ctrl EXCEPT ![imp[i].own].lock = None]
        /\ UNCHANGED <<s_inst_mutex, ref, imp, tor, events, aborted>>
    BY <1>5 DEF Look
  <2>2. PICK d \in CallType : /\ thr' = [thr EXCEPT ![s] = d] /\ ~Active(d)
                              /\ d.pc = "lock" => ref[s] # None
    BY <1>3, <1>4, <2>1, AnswerType
  <2>3. proxy' \in [Sessions -> Ports \cup {None}] BY <1>3, <1>4, <2>1, AnswerType
  <2>4. events' \in 0 .. MaxEvents BY <2>1 DEF IInv, TypeOK
  <2> QED BY <1>2, <2>1, <2>2, <2>3, <2>4, LeavesInv
<1>6. CASE imp[i].socks5 = None
  <2>1. /\ thr' = [thr EXCEPT ![s] = c]
        /\ UNCHANGED <<s_inst_mutex, ref, proxy, ctrl, imp, tor, events, aborted>>
    BY <1>6 DEF Look
  <2>2. c \in CallType /\ c.pc = "blocked" /\ c.why = thr[s].why /\ c.i = i /\ c.last = imp[i].progress
    <3>1. imp[i].progress \in 0 .. Full + 1 BY <1>4, BoundsAssumption
    <3> QED BY <1>1, <3>1 DEF CallType
  <2>3. Waits(c) BY <2>2 DEF Waits
  <2>4. PICK p \in Ports \cup {None} : Honest(imp[i], tor[i], Port(i), p) BY <1>2, SameImpl
  <2>5. imp[i] \in ImplType /\ imp' = [imp EXCEPT ![i] = imp[i]] BY <1>2, <2>1, SameImpl
  <2> HIDE DEF c
  <2> QED BY <1>2, <1>6, <2>1, <2>2, <2>3, <2>4, <2>5, ShiftInv
<1> QED BY <1>5, <1>6

LEMMA WakesInv == ASSUME IInv, NEW s \in Sessions, Wakes(s) PROVE IInv'
<1> DEFINE i == thr[s].i
           c == [thr[s] EXCEPT !.pc = "look"]
<1>1. thr[s].pc = "blocked" /\ thr[s] \in CallType BY DEF Wakes, IInv, TypeOK
<1>2. Waits(thr[s]) BY <1>1 DEF Waits
<1>3. /\ thr' = [thr EXCEPT ![s] = c]
      /\ UNCHANGED <<s_inst_mutex, ref, proxy, ctrl, imp, tor, events, aborted>>
  BY DEF Wakes, Goto
<1>4. c \in CallType /\ c.pc = "look" /\ c.why = thr[s].why /\ c.i = i BY <1>1 DEF CallType
<1>5. Waits(c) /\ c.pc # "blocked" BY <1>4 DEF Waits
<1>6. PICK p \in Ports \cup {None} : Honest(imp[i], tor[i], Port(i), p) BY <1>2, SameImpl
<1>7. imp[i] \in ImplType /\ imp' = [imp EXCEPT ![i] = imp[i]] BY <1>2, <1>3, SameImpl
<1> HIDE DEF c
<1> QED BY <1>2, <1>3, <1>4, <1>5, <1>6, <1>7, ShiftInv

LEMMA PushStoppedInv == ASSUME IInv, NEW s \in Sessions, PushStopped(s) PROVE IInv'
<1> DEFINE i == thr[s].i
           c == [thr[s] EXCEPT !.pc = "join"]
           hs == Append(imp[i].handlers, "HALT")
           y == [imp[i] EXCEPT !.handlers = hs]
<1>1. thr[s].pc = "push" /\ thr[s] \in CallType BY DEF PushStopped, IInv, TypeOK
<1>2. Stops(thr[s]) BY <1>1 DEF Stops
<1>3. /\ thr' = [thr EXCEPT ![s] = c] /\ imp' = [imp EXCEPT ![i] = y]
      /\ UNCHANGED <<s_inst_mutex, ref, proxy, ctrl, tor, events, aborted>>
  BY DEF PushStopped, Goto
<1>4. c \in CallType /\ c.pc = "join" /\ c.why = thr[s].why /\ c.i = i BY <1>1 DEF CallType
<1>5. Stops(c) /\ c.pc # "blocked" BY <1>4 DEF Stops
<1>6. PICK p \in Ports \cup {None} : Honest(imp[i], tor[i], Port(i), p) BY <1>2, SameImpl
<1>7. imp[i] \in ImplType BY <1>2, SameImpl
<1>8. hs \in Seq(Commands) BY <1>7, Commanded, Appended DEF ImplType
<1> HIDE DEF c, hs
<1>9. /\ y \in ImplType /\ y.own = imp[i].own /\ y.next = imp[i].next /\ y.socks5 = imp[i].socks5
      /\ y.progress = imp[i].progress /\ y.replies = imp[i].replies /\ y.out = imp[i].out
  BY <1>7, <1>8 DEF ImplType
<1> HIDE DEF y
<1>10. Honest(y, tor[i], Port(i), p) BY <1>6, <1>9 DEF Honest
<1> QED BY <1>2, <1>3, <1>4, <1>5, <1>9, <1>10, ShiftInv

LEMMA HaltInv == ASSUME IInv, NEW s \in Sessions, Halt(s) PROVE IInv'
<1> DEFINE i == thr[s].i
           c(l) == [thr[s] EXCEPT !.pc = l]
           o == Append(imp[i].out, "HALT")
           y == [imp[i] EXCEPT !.out = o]
<1>1. thr[s].pc = "halt" /\ thr[s] \in CallType BY DEF Halt, IInv, TypeOK
<1>2. Stops(thr[s]) BY <1>1 DEF Stops
<1>3. \A l \in {"push", "join"} :
         c(l) \in CallType /\ c(l).pc = l /\ c(l).why = thr[s].why /\ c(l).i = i
  BY <1>1 DEF CallType
<1>4. \A l \in {"push", "join"} : Stops(c(l)) /\ c(l).pc # "blocked" BY <1>3 DEF Stops
<1>5. PICK p \in Ports \cup {None} : Honest(imp[i], tor[i], Port(i), p) BY <1>2, SameImpl
<1>6. imp[i] \in ImplType /\ imp = [imp EXCEPT ![i] = imp[i]] BY <1>2, SameImpl
<1>7. UNCHANGED <<s_inst_mutex, ref, proxy, ctrl, tor, events, aborted>> BY DEF Halt
<1>8. CASE imp' = [imp EXCEPT ![i].out = Append(@, "HALT")] /\ Goto(s, "push")
  <2>1. o \in Seq(Commands) /\ o \in Seq(GoodCommands(tor[i]))
    <3>1. "HALT" \in Commands /\ "HALT" \in GoodCommands(tor[i]) BY Commanded DEF GoodCommands
    <3>2. imp[i].out \in Seq(Commands) /\ imp[i].out \in Seq(GoodCommands(tor[i]))
      BY <1>5, <1>6 DEF ImplType, Honest
    <3> QED BY <3>1, <3>2, Appended
  <2>2. imp' = [imp EXCEPT ![i] = y] /\ thr' = [thr EXCEPT ![s] = c("push")] BY <1>8 DEF Goto
  <2> HIDE DEF o, c
  <2>3. /\ y \in ImplType /\ y.own = imp[i].own /\ y.next = imp[i].next /\ y.socks5 = imp[i].socks5
        /\ y.progress = imp[i].progress /\ y.replies = imp[i].replies /\ y.out = o
    BY <1>6, <2>1 DEF ImplType
  <2> HIDE DEF y
  <2>4. Honest(y, tor[i], Port(i), p) BY <1>5, <2>1, <2>3 DEF Honest
  <2>5. "push" \in {"push", "join"} OBVIOUS
  <2> QED BY <1>2, <1>3, <1>4, <1>7, <2>2, <2>3, <2>4, <2>5, ShiftInv
<1>9. CASE imp' = imp /\ Goto(s, "join")
  <2>1. imp' = [imp EXCEPT ![i] = imp[i]] /\ thr' = [thr EXCEPT ![s] = c("join")]
    BY <1>6, <1>9 DEF Goto
  <2> HIDE DEF c
  <2>2. "join" \in {"push", "join"} OBVIOUS
  <2> QED BY <1>2, <1>3, <1>4, <1>5, <1>6, <1>7, <2>1, <2>2, ShiftInv
<1> QED BY <1>8, <1>9 DEF Halt

\* A call takes m_ctrl_mutex, and the impl with it
LEMMA Enters ==
  ASSUME TypeOK, ThreadsInv, OwnersInv, NEW s \in Sessions, NEW c, thr' = [thr EXCEPT ![s] = c],
         ~Active(thr[s]), Locked(c), c.pc # "ctor", NEW k \in Ctrls, ref[s] = k,
         ctrl[k].lock = None, ctrl[k].m_ctrl # None, c.i = ctrl[k].m_ctrl,
         NEW d, ctrl' = [ctrl EXCEPT ![k] = d], d.lock = s, d.m_ctrl = ctrl[k].m_ctrl,
         UNCHANGED <<s_inst_mutex, ref, tor>>, \A j \in Impls : imp'[j].own = imp[j].own
  PROVE  ThreadsInv' /\ OwnersInv'
<1>1. \A u \in Sessions : thr'[u] = IF u = s THEN c ELSE thr[u] BY DEF TypeOK
<1>2. \A l : Referenced(l)' <=> Referenced(l) BY DEF Referenced
<1>3. \A u \in Sessions : Active(thr[u]) => thr[u].i # ctrl[k].m_ctrl /\ imp[thr[u].i].own # k
  BY ImplFree
<1>4. \A l \in Ctrls : ctrl'[l] = IF l = k THEN d ELSE ctrl[l] BY DEF TypeOK
<1>5. Active(c) /\ ~Alone(c) /\ c.pc # "lock" BY DEF Active, Locked, Alone, Waits, Stops
<1>6. ctrl[k].m_ctrl \in Impls /\ imp[ctrl[k].m_ctrl].own = k BY DEF TypeOK, CtrlType, OwnersInv
<1>7. \A u \in Sessions : ThreadInv(u)'
  <2> SUFFICES ASSUME NEW u \in Sessions PROVE ThreadInv(u)' OBVIOUS
  <2>1. CASE u = s
    <3>1. thr'[u] = c /\ imp'[c.i].own = k /\ ctrl'[k].lock = s /\ ref'[u] = k
      BY <1>1, <1>4, <1>6, <2>1
    <3> QED BY <1>5, <1>6, <2>1, <3>1, NoneAssumption DEF ThreadInv
  <2>2. CASE u # s
    <3>1. thr'[u] = thr[u] /\ ThreadInv(u) BY <1>1, <2>2 DEF ThreadsInv
    <3>2. CASE ~Active(thr[u])
      BY <3>1, <3>2 DEF ThreadInv, Active, Locked, Alone
    <3>3. CASE Active(thr[u])
      <4>1. thr[u].i \in Impls /\ imp'[thr[u].i].own = imp[thr[u].i].own /\ imp[thr[u].i].own \in Ctrls
        BY <3>1, <3>3 DEF ThreadInv, TypeOK, ImplType
      <4>2. ctrl'[imp[thr[u].i].own] = ctrl[imp[thr[u].i].own] BY <1>3, <1>4, <3>3, <4>1
      <4> QED BY <3>1, <3>3, <4>1, <4>2, <1>2 DEF ThreadInv
    <3> QED BY <3>2, <3>3
  <2> QED BY <2>1, <2>2
<1>8. ThreadsInv' BY <1>1, <1>3, <1>7 DEF ThreadsInv
<1>9. \A l \in Ctrls : Owned(l)' <=> Owned(l)
  <2>1. \A u \in Sessions : thr[u].pc = "ctor" => thr[u].i \in Impls /\ thr'[u] = thr[u]
    BY <1>1 DEF ThreadsInv, ThreadInv, Active
  <2>2. \A u \in Sessions : thr'[u].pc = "ctor" => thr[u].pc = "ctor" BY <1>1
  <2> QED BY <1>2, <2>1, <2>2 DEF Owned
<1>10. \A i \in Impls : \A u \in Sessions : Destroying(u, i) => Destroying(u, i)'
  BY <1>1 DEF Destroying, Active, Stops
<1>11. OwnersInv' BY <1>4, <1>9, <1>10, OwnersFrame
<1> QED BY <1>8, <1>11

LEMMA StartWaitInv == ASSUME IInv, NEW s \in Sessions, StartWait(s) PROVE IInv'
<1>1. thr[s].pc = "lock" /\ thr[s] \in CallType /\ ref[s] # None
  BY DEF StartWait, IInv, TypeOK, ThreadsInv, ThreadInv
<1>2. ~Active(thr[s]) /\ ~Alone(thr[s]) BY <1>1 DEF Active, Alone, Waits, Stops
<1>3. PICK k \in Ctrls : k = ref[s] BY <1>1 DEF IInv, TypeOK
<1>4. CASE ctrl[k].m_ctrl = None
  <2>1. Answer(s, None) /\ UNCHANGED <<s_inst_mutex, ref, imp, tor, events, aborted, ctrl>>
    BY <1>3, <1>4 DEF StartWait
  <2>2. PICK d \in CallType : /\ thr' = [thr EXCEPT ![s] = d] /\ ~Active(d)
                              /\ d.pc = "lock" => ref[s] # None
    BY <1>1, <2>1, AnswerType
  <2>3. proxy' \in [Sessions -> Ports \cup {None}] BY <1>1, <2>1, AnswerType
  <2>4. events' \in 0 .. MaxEvents BY <2>1 DEF IInv, TypeOK
  <2> QED BY <1>2, <2>1, <2>2, <2>3, <2>4, LeavesInv
<1>5. CASE ctrl[k].m_ctrl # None
  <2> DEFINE c == [thr[s] EXCEPT !.pc = "look", !.i = ctrl[k].m_ctrl]
             d == [ctrl[k] EXCEPT !.lock = s]
  <2>1. /\ ctrl[k].lock = None /\ ctrl' = [ctrl EXCEPT ![k] = d] /\ thr' = [thr EXCEPT ![s] = c]
        /\ UNCHANGED <<s_inst_mutex, ref, proxy, imp, tor, events, aborted>>
    BY <1>3, <1>5 DEF StartWait
  <2>2. ctrl[k] \in CtrlType BY DEF IInv, TypeOK
  <2>3. /\ d \in CtrlType /\ d.lock = s /\ d.m_ctrl = ctrl[k].m_ctrl
        /\ d.m_socks5_port = ctrl[k].m_socks5_port
    BY <2>2 DEF CtrlType
  <2>4. c \in CallType /\ c.pc = "look" /\ c.i = ctrl[k].m_ctrl BY <1>1, <2>2 DEF CallType, CtrlType
  <2> HIDE DEF c, d
  <2>5. Locked(c) BY <2>4 DEF Locked, Waits
  <2>6. ThreadsInv' /\ OwnersInv' BY <1>2, <1>3, <1>5, <2>1, <2>3, <2>4, <2>5, Enters DEF IInv
  <2>7. TypeOK' BY <2>1, <2>3, <2>4 DEF IInv, TypeOK
  <2>8. \A l \in Ctrls : ctrl'[l].m_socks5_port = ctrl[l].m_socks5_port
    BY <2>1, <2>3 DEF IInv, TypeOK
  <2>9. DataInv'
    <3>1. \A j \in Impls : Port(j)' = Port(j) BY <2>1, <2>8, PortFrame DEF IInv
    <3> QED BY <2>1, <3>1 DEF IInv, DataInv
  <2>10. NoLostWakeup' BY <2>1, <2>4, Unheard DEF IInv
  <2> QED BY <2>6, <2>7, <2>9, <2>10 DEF IInv
<1> QED BY <1>4, <1>5

\* ~tor_controller_impl begins
Stopped(i) == [imp[i] EXCEPT !.stopping = TRUE, !.progress = 0]

LEMMA StoppedImpl ==
  ASSUME IInv, NEW i \in Impls
  PROVE  /\ Stopped(i) \in ImplType /\ Stopped(i).own = imp[i].own
         /\ \A q, p : Honest(imp[i], tor[i], q, p) => Honest(Stopped(i), tor[i], q, p)
         /\ Stopping(i) => /\ imp' = [imp EXCEPT ![i] = Stopped(i)]
                           /\ \A j \in Impls : imp'[j].own = imp[j].own /\ (j # i => imp'[j] = imp[j])
<1> DEFINE y == [imp[i] EXCEPT !.stopping = TRUE, !.progress = 0]
<1>1. imp[i] \in ImplType /\ 0 \in 0 .. Full /\ 0 # Full BY BoundsAssumption DEF IInv, TypeOK
<1>2. /\ y \in ImplType /\ y.own = imp[i].own /\ y.next = imp[i].next /\ y.socks5 = imp[i].socks5
      /\ y.progress = 0 /\ y.replies = imp[i].replies /\ y.out = imp[i].out
  BY <1>1 DEF ImplType
<1>3. Stopped(i) = y BY DEF Stopped
<1>4. Stopping(i) => imp' = [imp EXCEPT ![i] = y] BY DEF Stopping
<1> HIDE DEF y
<1>5. \A q, p : Honest(imp[i], tor[i], q, p) => Honest(y, tor[i], q, p) BY <1>1, <1>2 DEF Honest
<1>6. Stopping(i) => \A j \in Impls : imp'[j].own = imp[j].own /\ (j # i => imp'[j] = imp[j])
  BY <1>2, <1>4 DEF IInv, TypeOK
<1> QED BY <1>2, <1>3, <1>4, <1>5, <1>6

LEMMA sleepInv == ASSUME IInv, NEW s \in Sessions, sleep(s) PROVE IInv'
<1>1. thr[s].pc = "lock" /\ thr[s].why = "sleep" /\ thr[s] \in CallType /\ ref[s] # None
  BY DEF sleep, IInv, TypeOK, ThreadsInv, ThreadInv
<1>2. ~Active(thr[s]) /\ ~Alone(thr[s]) BY <1>1 DEF Active, Alone, Waits, Stops
<1>3. PICK k \in Ctrls : k = ref[s] BY <1>1 DEF IInv, TypeOK
<1>4. CASE ctrl[k].m_ctrl = None
  <2>1. thr' = [thr EXCEPT ![s] = NoCall]
        /\ UNCHANGED <<s_inst_mutex, ref, proxy, imp, tor, events, aborted, ctrl>>
    BY <1>3, <1>4 DEF sleep, Finish
  <2>2. events' \in 0 .. MaxEvents /\ proxy' \in [Sessions -> Ports \cup {None}]
    BY <2>1 DEF IInv, TypeOK
  <2>3. NoCall.pc # "lock" BY NoCallInactive
  <2> QED BY <1>2, <2>1, <2>2, <2>3, NoCallInactive, LeavesInv
<1>5. CASE ctrl[k].m_ctrl # None
  <2>1. PICK i \in Impls : i = ctrl[k].m_ctrl BY <1>5 DEF IInv, TypeOK, CtrlType
  <2> DEFINE c == [thr[s] EXCEPT !.pc = "halt", !.i = i]
             f == ctrl[k].forgot \/ (ctrl[k].m_socks5_port # None /\ imp[i].socks5 = None)
             d == [ctrl[k] EXCEPT !.lock = s, !.m_socks5_port = imp[i].socks5, !.forgot = f]
  <2>2. /\ ctrl[k].lock = None /\ ctrl' = [ctrl EXCEPT ![k] = d] /\ thr' = [thr EXCEPT ![s] = c]
        /\ Stopping(i) /\ UNCHANGED <<s_inst_mutex, ref, proxy, tor, events, aborted>>
    BY <1>3, <1>5, <2>1 DEF sleep
  <2>f. f \in BOOLEAN OBVIOUS
  <2> HIDE DEF f
  <2>3. ctrl[k] \in CtrlType /\ imp[i].socks5 \in Ports \cup {None} /\ imp[i].own = k
    BY <1>5, <2>1 DEF IInv, TypeOK, ImplType, OwnersInv
  <2>4. d \in CtrlType /\ d.lock = s /\ d.m_ctrl = i /\ d.m_socks5_port = imp[i].socks5
    BY <2>1, <2>3, <2>f DEF CtrlType
  <2>5. c \in CallType /\ c.pc = "halt" /\ c.i = i /\ c.why = "sleep" BY <1>1, <2>1 DEF CallType
  <2> HIDE DEF c, d
  <2>6. /\ imp' = [imp EXCEPT ![i] = Stopped(i)] /\ Stopped(i) \in ImplType
        /\ \A j \in Impls : imp'[j].own = imp[j].own /\ (j # i => imp'[j] = imp[j])
    BY <2>2, StoppedImpl
  <2>7. Locked(c) BY <2>5 DEF Locked, Stops
  <2>8. ThreadsInv' /\ OwnersInv'
    <3>1. c.pc # "ctor" /\ c.i = ctrl[k].m_ctrl /\ d.m_ctrl = ctrl[k].m_ctrl BY <2>1, <2>4, <2>5
    <3>2. \A j \in Impls : imp'[j].own = imp[j].own BY <2>6
    <3>3. TypeOK /\ ThreadsInv /\ OwnersInv /\ d.lock = s /\ ref[s] = k BY <1>3, <2>4 DEF IInv
    <3>4. UNCHANGED <<s_inst_mutex, ref, tor>> BY <2>2
    <3> QED BY <1>2, <1>5, <2>2, <2>7, <3>1, <3>2, <3>3, <3>4, Enters
  <2>9. imp' \in [Impls -> ImplType] /\ DataInv'
    <3>1. PICK p \in Ports \cup {None} : Honest(imp[i], tor[i], Port(i), p) BY DEF IInv, DataInv
    <3>2. Port(i)' = imp[i].socks5
      <4>1. imp'[i].own = k /\ ctrl'[k] = d BY <2>2, <2>3, <2>6 DEF IInv, TypeOK
      <4> QED BY <2>4, <4>1, NoneAssumption DEF Port
    <3>3. \A j \in Impls : j # i => Port(j)' = Port(j)
      <4> SUFFICES ASSUME NEW j \in Impls, j # i PROVE Port(j)' = Port(j) OBVIOUS
      <4>1. imp[j].own \in Ctrls \cup {None} /\ imp[j].own # k
        BY <2>1, NoneAssumption DEF IInv, TypeOK, ImplType, OwnersInv
      <4> QED BY <2>2, <2>6, <4>1 DEF Port, IInv, TypeOK
    <3>4. Honest(imp[i], tor[i], imp[i].socks5, p)
      <4>1. tor[i].state = "starting" => imp[i].socks5 = None
        BY <3>1, BoundsAssumption DEF Honest, Built
      <4> QED BY <3>1, <4>1 DEF Honest
    <3>5. Honest(Stopped(i), tor[i], Port(i)', p) BY <3>2, <3>4, StoppedImpl
    <3>6. tor[i] \in TorType /\ tor' = [tor EXCEPT ![i] = tor[i]] BY <2>2 DEF IInv, TypeOK
    <3> QED BY <2>6, <3>3, <3>5, <3>6, OneImpl DEF IInv
  <2>10. TypeOK' BY <2>2, <2>4, <2>5, <2>9 DEF IInv, TypeOK
  <2>11. NoLostWakeup'
    <3>1. \A u \in Sessions : thr[u].pc = "blocked" => thr[u].i \in Impls /\ thr[u].i # i
      <4>1. \A u \in Sessions : Active(thr[u]) => thr[u].i # i BY <1>2, <1>3, <1>5, <2>1, <2>2, ImplFree DEF IInv
      <4> QED BY <4>1 DEF Active, Waits, IInv, ThreadsInv, ThreadInv
    <3> QED BY <2>2, <2>5, <2>6, <3>1, Unheard DEF IInv
  <2> QED BY <2>8, <2>9, <2>10, <2>11 DEF IInv
<1> QED BY <1>4, <1>5

LEMMA JoinedInv == ASSUME IInv, NEW s \in Sessions, Joined(s) PROVE IInv'
<1>1. thr[s].pc = "join" /\ ThreadInv(s) BY DEF Joined, IInv, ThreadsInv
<1>2. Active(thr[s]) BY <1>1 DEF Active, Stops
<1>3. PICK i \in Impls : i = thr[s].i BY <1>1, <1>2 DEF ThreadInv
<1>4. PICK k \in Ctrls : k = imp[i].own BY <1>1, <1>2, <1>3 DEF ThreadInv, IInv, TypeOK, ImplType
<1> DEFINE d == [ctrl[k] EXCEPT !.m_ctrl = None, !.lock = None]
<1>5. /\ ~Running(i) /\ ctrl' = [ctrl EXCEPT ![k] = d] /\ imp' = [imp EXCEPT ![i] = NewImpl(None)]
      /\ thr' = [thr EXCEPT ![s] = NoCall]
      /\ UNCHANGED <<s_inst_mutex, ref, proxy, tor, events, aborted>>
  BY <1>3, <1>4 DEF Joined, ThreadsEnded, Finish
<1>6. ctrl[k] \in CtrlType /\ ctrl[k].m_ctrl = i BY <1>4, NoneAssumption DEF IInv, TypeOK, OwnersInv
<1>7. d \in CtrlType /\ d.m_ctrl = None /\ d.m_socks5_port = ctrl[k].m_socks5_port
  BY <1>6 DEF CtrlType
<1> HIDE DEF d
<1>8. /\ \A u \in Sessions : thr'[u] = IF u = s THEN NoCall ELSE thr[u]
      /\ \A j \in Impls : imp'[j] = IF j = i THEN NewImpl(None) ELSE imp[j]
      /\ \A l \in Ctrls : ctrl'[l] = IF l = k THEN d ELSE ctrl[l]
  BY <1>5 DEF IInv, TypeOK
<1>9. NewImpl(None).own = None /\ NewImpl(None) \in ImplType BY NewTypes DEF NewImpl
<1>10. TypeOK' BY <1>5, <1>7, <1>9, NewTypes DEF IInv, TypeOK
<1>11. \A u \in Sessions : u # s /\ Active(thr[u]) =>
          /\ thr[u].i \in Impls /\ thr[u].i # i /\ imp[thr[u].i].own \in Ctrls /\ imp[thr[u].i].own # k
  <2> SUFFICES ASSUME NEW u \in Sessions, u # s, Active(thr[u])
               PROVE  /\ thr[u].i \in Impls /\ thr[u].i # i
                      /\ imp[thr[u].i].own \in Ctrls /\ imp[thr[u].i].own # k
    OBVIOUS
  <2>1. ThreadInv(u) BY DEF IInv, ThreadsInv
  <2>2. imp[thr[u].i].own # k BY <1>2, <1>3, <1>4, OwnersDiffer DEF IInv
  <2> QED BY <1>4, <2>1, <2>2 DEF ThreadInv, IInv, TypeOK, ImplType
<1>12. ThreadsInv'
  <2>1. \A l : Referenced(l)' <=> Referenced(l) BY <1>5 DEF Referenced
  <2>2. \A u \in Sessions : ThreadInv(u)'
    <3> SUFFICES ASSUME NEW u \in Sessions PROVE ThreadInv(u)' OBVIOUS
    <3>1. CASE u = s
      BY <1>8, <3>1, NoCallInactive DEF ThreadInv, Active, Locked, Alone
    <3>2. CASE u # s
      <4>1. thr'[u] = thr[u] /\ ThreadInv(u) BY <1>8, <3>2 DEF IInv, ThreadsInv
      <4>2. CASE ~Active(thr[u])
        BY <1>5, <4>1, <4>2 DEF ThreadInv, Active, Locked, Alone
      <4>3. CASE Active(thr[u])
        <5>1. imp'[thr[u].i] = imp[thr[u].i] /\ ctrl'[imp[thr[u].i].own] = ctrl[imp[thr[u].i].own]
          BY <1>8, <1>11, <3>2, <4>3
        <5> QED BY <1>5, <1>11, <2>1, <3>2, <4>1, <4>3, <5>1 DEF ThreadInv
      <4> QED BY <4>2, <4>3
    <3> QED BY <3>1, <3>2
  <2> QED BY <1>5, <1>8, <2>2, NoCallInactive DEF IInv, ThreadsInv
<1>13. OwnersInv'
  <2>1. \A l \in Ctrls : Owned(l)' => Owned(l)
    <3> SUFFICES ASSUME NEW l \in Ctrls, Owned(l)' PROVE Owned(l) OBVIOUS
    <3>1. CASE Referenced(l)' BY <1>5, <3>1 DEF Owned, Referenced
    <3>2. CASE \E u \in Sessions : thr'[u].pc = "ctor" /\ thr'[u].why = "connect"
                                   /\ imp'[thr'[u].i].own = l
      <4>1. PICK u \in Sessions : thr'[u].pc = "ctor" /\ thr'[u].why = "connect"
                                   /\ imp'[thr'[u].i].own = l
        BY <3>2
      <4>2. u # s /\ thr'[u] = thr[u] BY <1>8, <4>1, NoCallInactive
      <4>3. imp'[thr[u].i] = imp[thr[u].i] BY <1>8, <1>11, <4>1, <4>2 DEF Active
      <4> QED BY <4>1, <4>2, <4>3 DEF Owned
    <3> QED BY <3>1, <3>2 DEF Owned
  <2>2. \A l \in Ctrls : l # k /\ Owned(l) => Owned(l)'
    <3> SUFFICES ASSUME NEW l \in Ctrls, l # k, Owned(l) PROVE Owned(l)' OBVIOUS
    <3>1. CASE Referenced(l) BY <1>5, <3>1 DEF Owned, Referenced
    <3>2. CASE \E u \in Sessions : thr[u].pc = "ctor" /\ thr[u].why = "connect"
                                   /\ imp[thr[u].i].own = l
      <4>1. PICK u \in Sessions : thr[u].pc = "ctor" /\ thr[u].why = "connect"
                                   /\ imp[thr[u].i].own = l
        BY <3>2
      <4>2. u # s BY <1>1, <4>1
      <4>3. thr'[u] = thr[u] /\ imp'[thr[u].i] = imp[thr[u].i] BY <1>8, <1>11, <4>1, <4>2 DEF Active
      <4> QED BY <4>1, <4>3 DEF Owned
    <3> QED BY <3>1, <3>2 DEF Owned
  <2>3. \A j \in Impls : Running(j)' => j # i /\ Running(j) /\ imp'[j] = imp[j] /\ imp[j].own \in Ctrls
                                        /\ imp[j].own # k
    <3> SUFFICES ASSUME NEW j \in Impls, Running(j)
                 PROVE  j # i /\ imp'[j] = imp[j] /\ imp[j].own \in Ctrls /\ imp[j].own # k
      BY <1>5 DEF Running
    <3>1. j # i BY <1>5
    <3>2. imp[j].own \in Ctrls
      <4>1. imp[j].own \in Ctrls \cup {None} BY DEF IInv, TypeOK, ImplType
      <4>2. imp[j].own # None BY DEF IInv, OwnersInv
      <4> QED BY <4>1, <4>2
    <3>3. imp[j].own # k BY <1>6, <3>1, <3>2, NoneAssumption DEF IInv, OwnersInv
    <3> QED BY <1>8, <3>1, <3>2, <3>3
  <2>4. \A j \in Impls : imp'[j].own # None => ctrl'[imp'[j].own].m_ctrl = j
    <3> SUFFICES ASSUME NEW j \in Impls, imp'[j].own # None PROVE ctrl'[imp'[j].own].m_ctrl = j
      OBVIOUS
    <3>1. j # i /\ imp'[j] = imp[j] BY <1>8, <1>9
    <3>2. imp[j].own \in Ctrls /\ ctrl[imp[j].own].m_ctrl = j
      BY <3>1 DEF IInv, OwnersInv, TypeOK, ImplType
    <3> QED BY <1>6, <1>8, <3>1, <3>2
  <2>5. \A l \in Ctrls : ctrl'[l].m_ctrl # None => imp'[ctrl'[l].m_ctrl].own = l
    <3> SUFFICES ASSUME NEW l \in Ctrls, ctrl'[l].m_ctrl # None PROVE imp'[ctrl'[l].m_ctrl].own = l
      OBVIOUS
    <3>1. l # k /\ ctrl'[l] = ctrl[l] BY <1>7, <1>8
    <3>2. ctrl[l].m_ctrl \in Impls /\ imp[ctrl[l].m_ctrl].own = l
      BY <3>1 DEF IInv, OwnersInv, TypeOK, CtrlType
    <3> QED BY <1>4, <1>8, <3>1, <3>2
  <2>6. \A j \in Impls : Running(j)' => tor'[j].own # None /\ imp'[j].own = tor'[j].own
    BY <1>5, <2>3 DEF IInv, OwnersInv
  <2>7. \A j \in Impls : Running(j)' => Owned(imp[j].own)' \/ \E u \in Sessions : Destroying(u, j)'
    <3> SUFFICES ASSUME NEW j \in Impls, Running(j)'
                 PROVE  Owned(imp[j].own)' \/ \E u \in Sessions : Destroying(u, j)'
      OBVIOUS
    <3>1. CASE Owned(imp[j].own) BY <2>2, <2>3, <3>1
    <3>2. CASE \E u \in Sessions : Destroying(u, j)
      <4>1. PICK u \in Sessions : Destroying(u, j) BY <3>2
      <4>2. u # s BY <1>3, <2>3, <4>1 DEF Destroying
      <4> QED BY <1>8, <4>1, <4>2 DEF Destroying
    <3> QED BY <2>3, <3>1, <3>2 DEF IInv, OwnersInv
  <2>8. \A l, m \in Ctrls : Owned(l)' /\ Owned(m)' => l = m BY <2>1 DEF IInv, OwnersInv
  <2> QED BY <2>4, <2>5, <2>6, <2>7, <2>8 DEF OwnersInv
<1>14. DataInv'
  <2>1. \A j \in Impls : j # i => Port(j)' = Port(j)
    <3> SUFFICES ASSUME NEW j \in Impls, j # i PROVE Port(j)' = Port(j) OBVIOUS
    <3>1. imp'[j].own = imp[j].own BY <1>8
    <3>2. \A l \in Ctrls : ctrl'[l].m_socks5_port = ctrl[l].m_socks5_port BY <1>7, <1>8
    <3> QED BY <3>1, <3>2, PortFrame DEF IInv
  <2>2. Port(i)' = None BY <1>8, <1>9 DEF Port
  <2>3. tor[i] \in TorType /\ tor' = [tor EXCEPT ![i] = tor[i]] /\ tor[i].state = "none"
    BY <1>5 DEF IInv, TypeOK, TorType, Running
  <2>4. Honest(NewImpl(None), tor[i], None, None) BY <2>3, NewHonest
  <2>5. Honest(NewImpl(None), tor[i], Port(i)', None) BY <2>2, <2>4
  <2> QED BY <1>5, <1>9, <2>1, <2>3, <2>5, OneImpl DEF IInv
<1>15. NoLostWakeup'
  <2>1. NoCall.pc # "blocked" BY NoCallInactive
  <2>2. \A u \in Sessions : u # s /\ thr[u].pc = "blocked" => imp'[thr[u].i] = imp[thr[u].i]
    BY <1>8, <1>11 DEF Active, Waits
  <2> QED BY <1>5, <2>1, <2>2, Unheard DEF IInv
<1> QED BY <1>10, <1>12, <1>13, <1>14, <1>15 DEF IInv

\* The control thread is started, and the constructor's lock released
LEMMA ConstructedInv == ASSUME IInv, NEW s \in Sessions, Constructed(s) PROVE IInv'
<1>1. thr[s].pc = "ctor" /\ ThreadInv(s) /\ thr[s] \in CallType
  BY DEF Constructed, IInv, ThreadsInv, TypeOK
<1>2. Active(thr[s]) BY <1>1 DEF Active
<1>3. PICK i \in Impls : i = thr[s].i BY <1>1, <1>2 DEF ThreadInv
<1>4. PICK k \in Ctrls : k = imp[i].own BY <1>1, <1>2, <1>3 DEF ThreadInv, IInv, TypeOK, ImplType
<1> DEFINE y == [imp[i] EXCEPT !.conn = "connecting", !.ctl = "loop"]
           c == [thr[s] EXCEPT !.pc = "lock"]
           d == [ctrl[k] EXCEPT !.lock = None]
<1>5. imp' = [imp EXCEPT ![i] = y] /\ UNCHANGED <<proxy, tor, events, aborted>>
  BY <1>3 DEF Constructed
<1>6. \/ /\ thr[s].why = "connect" /\ s_inst_mutex' = None /\ ref' = [ref EXCEPT ![s] = k]
         /\ thr' = [thr EXCEPT ![s] = c] /\ ctrl' = ctrl
      \/ /\ thr[s].why = "wakeup" /\ ctrl' = [ctrl EXCEPT ![k] = d]
         /\ thr' = [thr EXCEPT ![s] = NoCall] /\ UNCHANGED <<s_inst_mutex, ref>>
  BY <1>3, <1>4 DEF Constructed, Goto, Finish
<1>7. imp[i] \in ImplType /\ ctrl[k] \in CtrlType /\ tor[i] \in TorType BY DEF IInv, TypeOK
<1>8. /\ y \in ImplType /\ y.own = imp[i].own /\ y.next = imp[i].next /\ y.socks5 = imp[i].socks5
      /\ y.progress = imp[i].progress /\ y.replies = imp[i].replies /\ y.out = imp[i].out
  BY <1>7 DEF ImplType
<1>9. c \in CallType /\ c.pc = "lock" BY <1>1 DEF CallType
<1>10. d \in CtrlType /\ d.m_ctrl = ctrl[k].m_ctrl /\ d.m_socks5_port = ctrl[k].m_socks5_port
  BY <1>7 DEF CtrlType
<1> HIDE DEF y, c, d
<1>11. \A j \in Impls : imp'[j].own = imp[j].own /\ (j # i => imp'[j] = imp[j])
  BY <1>5, <1>8 DEF IInv, TypeOK
<1>12. \A l \in Ctrls : /\ ctrl'[l].m_ctrl = ctrl[l].m_ctrl
                        /\ ctrl'[l].m_socks5_port = ctrl[l].m_socks5_port
                        /\ l # k => ctrl'[l] = ctrl[l]
  BY <1>6, <1>10 DEF IInv, TypeOK
<1>13. imp' \in [Impls -> ImplType] /\ DataInv'
  <2>1. PICK p \in Ports \cup {None} : Honest(imp[i], tor[i], Port(i), p) BY DEF IInv, DataInv
  <2>2. \A j \in Impls : Port(j)' = Port(j) BY <1>11, <1>12, PortFrame DEF IInv
  <2>3. Honest(y, tor[i], Port(i), p) BY <1>8, <2>1 DEF Honest
  <2>4. Honest(y, tor[i], Port(i)', p) BY <2>2, <2>3
  <2>5. tor' = [tor EXCEPT ![i] = tor[i]] BY <1>5 DEF IInv, TypeOK
  <2> QED BY <1>5, <1>7, <1>8, <2>2, <2>4, <2>5, OneImpl DEF IInv
<1>14. \A u \in Sessions : u # s /\ thr[u].pc = "blocked" => imp'[thr[u].i] = imp[thr[u].i]
  <2> SUFFICES ASSUME NEW u \in Sessions, u # s, thr[u].pc = "blocked"
               PROVE  imp'[thr[u].i] = imp[thr[u].i]
    OBVIOUS
  <2>1. Active(thr[u]) BY DEF Active, Waits
  <2>2. thr[u].i \in Impls /\ thr[u].i # i BY <1>2, <1>3, <2>1 DEF IInv, ThreadsInv, ThreadInv
  <2> QED BY <1>11, <2>2
<1>15. CASE thr[s].why = "connect"
  <2>1. /\ s_inst_mutex' = None /\ ref' = [ref EXCEPT ![s] = k]
        /\ thr' = [thr EXCEPT ![s] = c] /\ ctrl' = ctrl
    BY <1>6, <1>15
  <2>2. s_inst_mutex = s /\ s # None BY <1>1, <1>15, NoneAssumption DEF ThreadInv
  <2>3. \A u \in Sessions : ref[u] = None BY <2>2 DEF IInv, ThreadsInv
  <2>4. \A u \in Sessions : /\ thr'[u] = IF u = s THEN c ELSE thr[u]
                            /\ ref'[u] = IF u = s THEN k ELSE None
    BY <2>1, <2>3 DEF IInv, TypeOK
  <2>5. k # None BY NoneAssumption
  <2>6. \A l \in Ctrls : Referenced(l)' <=> l = k BY <2>4, NoneAssumption DEF Referenced
  <2>7. ~Active(c) /\ ~Locked(c) /\ ~Alone(c) BY <1>9 DEF Active, Locked, Alone, Waits, Stops
  <2>8. \A u \in Sessions : u # s => ~(thr[u].pc = "ctor" /\ thr[u].why = "connect")
    BY <2>2 DEF IInv, ThreadsInv, ThreadInv
  <2>9. \A u \in Sessions : ThreadInv(u)'
    <3> SUFFICES ASSUME NEW u \in Sessions PROVE ThreadInv(u)' OBVIOUS
    <3>1. CASE u = s
      <4>1. thr'[u] = c /\ ref'[u] = k BY <2>4, <3>1
      <4> QED BY <1>9, <2>5, <2>7, <4>1 DEF ThreadInv
    <3>2. CASE u # s
      <4>1. thr'[u] = thr[u] /\ ThreadInv(u) /\ ref[u] = None BY <2>3, <2>4, <3>2 DEF IInv, ThreadsInv
      <4>2. thr[u].pc # "lock" BY <4>1 DEF ThreadInv
      <4>3. CASE ~Active(thr[u])
        BY <4>1, <4>2, <4>3 DEF ThreadInv, Active, Locked, Alone
      <4>4. CASE Active(thr[u])
        <5>1. /\ thr[u].i \in Impls /\ imp'[thr[u].i].own = imp[thr[u].i].own
              /\ imp[thr[u].i].own # None
          BY <1>11, <4>1, <4>4 DEF ThreadInv
        <5>2. imp[thr[u].i].own \in Ctrls BY <5>1 DEF IInv, TypeOK, ImplType
        <5>3. imp[thr[u].i].own # k BY <1>2, <1>3, <1>4, <3>2, <4>4, OwnersDiffer DEF IInv
        <5>4. ~Locked(thr[u]) /\ Alone(thr[u]) BY <4>1, <4>4, <5>1 DEF ThreadInv
        <5>5. ~Referenced(imp[thr[u].i].own)'
          <6>1. PICK l \in Ctrls : l = imp[thr[u].i].own BY <5>2
          <6>2. l # k /\ imp'[thr'[u].i].own = l BY <4>1, <5>1, <5>3, <6>1
          <6> QED BY <2>6, <6>2 DEF Referenced
        <5> QED BY <2>8, <3>2, <4>1, <4>2, <5>1, <5>4, <5>5 DEF ThreadInv
      <4> QED BY <4>3, <4>4
    <3> QED BY <3>1, <3>2
  <2>10. ThreadsInv' BY <2>1, <2>4, <2>7, <2>9 DEF IInv, ThreadsInv
  <2>11. \A l \in Ctrls : Owned(l)' <=> Owned(l)
    <3>1. Owned(k) BY <1>1, <1>3, <1>4, <1>15 DEF Owned
    <3>2. \A l \in Ctrls : Owned(l) => l = k BY <3>1 DEF IInv, OwnersInv
    <3>3. \A l \in Ctrls : Owned(l)' => l = k
      <4>1. \A u \in Sessions : ~(thr'[u].pc = "ctor" /\ thr'[u].why = "connect")
        BY <1>9, <2>4, <2>8
      <4> QED BY <2>6, <4>1 DEF Owned
    <3>4. Owned(k)' BY <2>6 DEF Owned
    <3> QED BY <3>1, <3>2, <3>3, <3>4
  <2>12. \A j \in Impls : \A u \in Sessions : Destroying(u, j) => Destroying(u, j)'
    BY <1>1, <2>4 DEF Destroying
  <2>13. OwnersInv' BY <1>5, <1>11, <1>12, <2>11, <2>12, OwnersFrame DEF IInv
  <2>14. ref' \in [Sessions -> Ctrls \cup {None}] /\ thr' \in [Sessions -> CallType]
    BY <1>9, <2>1 DEF IInv, TypeOK
  <2>15. TypeOK' BY <1>5, <1>13, <2>1, <2>14 DEF IInv, TypeOK
  <2>16. NoLostWakeup' BY <1>9, <1>14, <2>1, Unheard DEF IInv
  <2> QED BY <1>13, <2>10, <2>13, <2>15, <2>16 DEF IInv
<1>16. CASE thr[s].why = "wakeup"
  <2>1. /\ ctrl' = [ctrl EXCEPT ![k] = d] /\ thr' = [thr EXCEPT ![s] = NoCall]
        /\ UNCHANGED <<s_inst_mutex, ref>>
    BY <1>6, <1>16
  <2>2. ~Alone(thr[s]) /\ NoCall.pc # "lock" /\ NoCall.pc # "blocked"
    BY <1>1, <1>16, NoCallInactive DEF Alone, Stops
  <2>3. \A l \in Ctrls : /\ ctrl'[l].m_ctrl = ctrl[l].m_ctrl
                         /\ \/ ctrl'[l].lock = ctrl[l].lock
                            \/ Active(thr[s]) /\ l = imp[thr[s].i].own
    BY <1>2, <1>3, <1>4, <1>12
  <2>4. ThreadsInv' /\ OwnersInv'
    BY <1>5, <1>11, <2>1, <2>2, <2>3, NoCallInactive, Leaves DEF IInv
  <2>5. TypeOK' BY <1>5, <1>10, <1>13, <2>1, NewTypes DEF IInv, TypeOK
  <2>6. NoLostWakeup' BY <1>14, <2>1, <2>2, Unheard DEF IInv
  <2> QED BY <1>13, <2>4, <2>5, <2>6 DEF IInv
<1> QED BY <1>6, <1>15, <1>16

-----------------------------------------------------------------------------
(* A session is destroyed.                                                 *)

\* References only go away
LEMMA Forgets ==
  ASSUME IInv, NEW s \in Sessions, ref' = [ref EXCEPT ![s] = None]
  PROVE  /\ \A u \in Sessions : ref'[u] = IF u = s THEN None ELSE ref[u]
         /\ \A l \in Ctrls : Referenced(l)' => Referenced(l)
         /\ \A l \in Ctrls : Referenced(l) /\ l # ref[s] => Referenced(l)'
<1>1. \A u \in Sessions : ref'[u] = IF u = s THEN None ELSE ref[u] BY DEF IInv, TypeOK
<1> QED BY <1>1, NoneAssumption DEF Referenced

LEMMA DestroyInv == ASSUME IInv, NEW s \in Sessions, Destroy(s) PROVE IInv'
<1>1. thr[s].pc = "idle" /\ thr[s] \in CallType /\ ref[s] # None BY DEF Destroy, IInv, TypeOK
<1>2. ~Active(thr[s]) BY <1>1 DEF Active, Waits, Stops
<1>3. PICK k \in Ctrls : k = ref[s] BY <1>1 DEF IInv, TypeOK
<1>4. /\ ref' = [ref EXCEPT ![s] = None] /\ proxy' = [proxy EXCEPT ![s] = None]
      /\ UNCHANGED <<s_inst_mutex, ctrl, tor, aborted>>
  BY DEF Destroy
<1>5. events' \in 0 .. MaxEvents BY BoundsAssumption DEF Destroy, IInv, TypeOK
<1>6. /\ \A u \in Sessions : ref'[u] = IF u = s THEN None ELSE ref[u]
      /\ \A l \in Ctrls : Referenced(l)' => Referenced(l)
      /\ \A l \in Ctrls : Referenced(l) /\ l # k => Referenced(l)'
  BY <1>3, <1>4, Forgets
<1>7. /\ ref' \in [Sessions -> Ctrls \cup {None}] /\ proxy' \in [Sessions -> Ports \cup {None}]
  BY <1>4 DEF IInv, TypeOK
<1>8. \A j \in Impls : Running(j)' <=> Running(j) BY <1>4 DEF Running
<1>9. \A j \in Impls : Running(j) => imp[j].own \in Ctrls /\ ctrl[imp[j].own].m_ctrl = j
  <2> SUFFICES ASSUME NEW j \in Impls, Running(j)
               PROVE  imp[j].own \in Ctrls /\ ctrl[imp[j].own].m_ctrl = j
    OBVIOUS
  <2>1. imp[j].own \in Ctrls \cup {None} BY DEF IInv, TypeOK, ImplType
  <2>2. imp[j].own # None BY DEF IInv, OwnersInv
  <2> QED BY <2>1, <2>2 DEF IInv, OwnersInv
<1>10. CASE ctrl[k].m_ctrl = None \/ \E r \in Sessions \ {s} : ref[r] = k
  <2>1. imp' = imp /\ thr' = thr BY <1>3, <1>10 DEF Destroy
  <2>2. \A u \in Sessions : ThreadInv(u)'
    <3> SUFFICES ASSUME NEW u \in Sessions PROVE ThreadInv(u)' OBVIOUS
    <3>1. ThreadInv(u) BY DEF IInv, ThreadsInv
    <3>2. CASE u = s BY <1>1, <2>1, <3>2 DEF ThreadInv, Active, Locked, Alone, Waits, Stops
    <3>3. CASE u # s
      <4>1. ref'[u] = ref[u] BY <1>6, <3>3
      <4>2. CASE ~Active(thr[u])
        BY <2>1, <3>1, <4>1, <4>2 DEF ThreadInv, Active, Locked, Alone
      <4>3. CASE Active(thr[u])
        <5>1. imp[thr[u].i].own \in Ctrls BY <3>1, <4>3 DEF ThreadInv, IInv, TypeOK, ImplType
        <5>2. Referenced(imp[thr[u].i].own)' => Referenced(imp[thr[u].i].own)
          <6>1. PICK l \in Ctrls : l = imp[thr[u].i].own BY <5>1
          <6> QED BY <1>6, <2>1, <6>1 DEF Referenced
        <5> QED BY <1>4, <2>1, <3>1, <4>1, <5>2 DEF ThreadInv
      <4> QED BY <4>2, <4>3
    <3> QED BY <3>2, <3>3
  <2>3. ThreadsInv' BY <1>4, <1>6, <2>1, <2>2 DEF IInv, ThreadsInv
  <2>4. \A l \in Ctrls : Owned(l)' => Owned(l) BY <1>6, <2>1 DEF Owned
  <2>5. \A j \in Impls : Running(j)' => Owned(imp[j].own)' \/ \E u \in Sessions : Destroying(u, j)'
    <3> SUFFICES ASSUME NEW j \in Impls, Running(j)
                 PROVE  Owned(imp[j].own)' \/ \E u \in Sessions : Destroying(u, j)'
      BY <1>8
    <3>1. PICK l \in Ctrls : l = imp[j].own BY <1>9
    <3>2. CASE \E u \in Sessions : Destroying(u, j) BY <2>1, <3>2 DEF Destroying
    <3>3. CASE Owned(l)
      <4>1. CASE Referenced(l)
        <5>1. Referenced(l)'
          <6>1. CASE l # k BY <1>6, <4>1, <6>1
          <6>2. CASE l = k
            <7>0. ctrl[k].m_ctrl = j /\ j # None BY <1>9, <3>1, <6>2, NoneAssumption
            <7>1. PICK r \in Sessions \ {s} : ref[r] = k BY <1>10, <7>0
            <7> QED BY <1>6, <6>2, <7>1 DEF Referenced
          <6> QED BY <6>1, <6>2
        <5> QED BY <2>1, <3>1, <5>1 DEF Owned, Referenced
      <4>2. CASE ~Referenced(l) BY <2>1, <3>1, <3>3, <4>2 DEF Owned
      <4> QED BY <4>1, <4>2
    <3> QED BY <3>1, <3>2, <3>3 DEF IInv, OwnersInv
  <2>6. \A l, m \in Ctrls : Owned(l)' /\ Owned(m)' => l = m BY <2>4 DEF IInv, OwnersInv
  <2>7. OwnersInv' BY <1>4, <1>8, <2>1, <2>5, <2>6 DEF IInv, OwnersInv
  <2>8. DataInv' BY <1>4, <2>1 DEF IInv, DataInv, Port
  <2>9. NoLostWakeup' BY <2>1 DEF IInv, NoLostWakeup
  <2>10. TypeOK' BY <1>4, <1>5, <1>7, <2>1 DEF IInv, TypeOK
  <2> QED BY <2>3, <2>7, <2>8, <2>9, <2>10 DEF IInv
<1>11. CASE ctrl[k].m_ctrl # None /\ ~\E r \in Sessions \ {s} : ref[r] = k
  <2>1. PICK i \in Impls : i = ctrl[k].m_ctrl BY <1>11 DEF IInv, TypeOK, CtrlType
  <2> DEFINE c == [thr[s] EXCEPT !.pc = "halt", !.why = "destroy", !.i = i]
  <2>2. Stopping(i) /\ thr' = [thr EXCEPT ![s] = c] BY <1>3, <1>11, <2>1 DEF Destroy
  <2>3. c \in CallType /\ c.pc = "halt" /\ c.why = "destroy" /\ c.i = i
    BY <1>1, <2>1 DEF CallType, Calls
  <2> HIDE DEF c
  <2>4. Active(c) /\ Alone(c) /\ ~Locked(c) BY <2>3 DEF Active, Alone, Locked, Waits, Stops
  <2>5. /\ imp' = [imp EXCEPT ![i] = Stopped(i)] /\ Stopped(i) \in ImplType
        /\ \A j \in Impls : imp'[j].own = imp[j].own /\ (j # i => imp'[j] = imp[j])
    BY <2>2, StoppedImpl
  <2>6. imp[i].own = k /\ k # None BY <1>11, <2>1, NoneAssumption DEF IInv, OwnersInv
  <2>7. \A u \in Sessions : thr'[u] = IF u = s THEN c ELSE thr[u] BY <2>2 DEF IInv, TypeOK
  <2>8. \A u \in Sessions : Active(thr[u]) => thr[u].i # i /\ imp[thr[u].i].own # k
    <3>1. \A r \in Sessions : r # s => ref[r] # k BY <1>11
    <3> QED BY <1>2, <1>3, <1>11, <2>1, <3>1, ImplFree DEF IInv
  <2>9. \A u \in Sessions : ThreadInv(u)'
    <3> SUFFICES ASSUME NEW u \in Sessions PROVE ThreadInv(u)' OBVIOUS
    <3>1. CASE u = s
      <4>1. thr'[u] = c /\ imp'[i].own = k BY <2>5, <2>6, <2>7, <3>1
      <4>2. \A r \in Sessions : ref'[r] # k BY <1>6, <1>11, <2>6
      <4>3. ~Referenced(imp[thr[u].i].own)' BY <2>3, <4>1, <4>2 DEF Referenced
      <4> QED BY <2>3, <2>4, <2>6, <4>1, <4>3 DEF ThreadInv
    <3>2. CASE u # s
      <4>1. thr'[u] = thr[u] /\ ref'[u] = ref[u] /\ ThreadInv(u) BY <1>6, <2>7, <3>2 DEF IInv, ThreadsInv
      <4>2. CASE ~Active(thr[u])
        BY <4>1, <4>2 DEF ThreadInv, Active, Locked, Alone
      <4>3. CASE Active(thr[u])
        <5>1. thr[u].i \in Impls /\ imp[thr[u].i].own \in Ctrls
          BY <4>1, <4>3 DEF ThreadInv, IInv, TypeOK, ImplType
        <5>2. imp'[thr'[u].i].own = imp[thr[u].i].own BY <2>5, <4>1, <5>1
        <5>3. Referenced(imp[thr[u].i].own)' => Referenced(imp[thr[u].i].own)
          <6>1. PICK l \in Ctrls : l = imp[thr[u].i].own BY <5>1
          <6> QED BY <1>6, <5>2, <6>1 DEF Referenced
        <5> QED BY <1>4, <4>1, <5>1, <5>2, <5>3 DEF ThreadInv
      <4> QED BY <4>2, <4>3
    <3> QED BY <3>1, <3>2
  <2>10. ThreadsInv' BY <1>4, <1>6, <2>3, <2>7, <2>8, <2>9 DEF IInv, ThreadsInv
  <2>11. \A u \in Sessions : (thr'[u].pc = "ctor" <=> thr[u].pc = "ctor") /\ (thr[u].pc = "ctor" => thr'[u] = thr[u])
    BY <1>1, <2>3, <2>7
  <2>12. \A u \in Sessions : thr[u].pc = "ctor" => thr[u].i \in Impls
    BY DEF IInv, ThreadsInv, ThreadInv, Active
  <2>13. /\ \A l \in Ctrls : Owned(l)' => Owned(l)
         /\ \A l \in Ctrls : Owned(l) /\ l # k => Owned(l)'
    BY <1>6, <2>5, <2>11, <2>12 DEF Owned
  <2>14. \A j \in Impls : Running(j)' => Owned(imp[j].own)' \/ \E u \in Sessions : Destroying(u, j)'
    <3> SUFFICES ASSUME NEW j \in Impls, Running(j)
                 PROVE  Owned(imp[j].own)' \/ \E u \in Sessions : Destroying(u, j)'
      BY <1>8
    <3>1. CASE j = i BY <2>3, <2>7, <3>1 DEF Destroying
    <3>2. CASE j # i
      <4>1. PICK l \in Ctrls : l = imp[j].own BY <1>9
      <4>2. l # k /\ imp'[j].own = l BY <1>9, <2>1, <2>5, <3>2, <4>1
      <4>3. CASE Owned(l)
        <5>1. Owned(l)' BY <2>13, <4>2, <4>3
        <5> QED BY <4>2, <5>1 DEF Owned, Referenced
      <4>4. CASE \E u \in Sessions : Destroying(u, j)
        <5>1. PICK u \in Sessions : Destroying(u, j) BY <4>4
        <5>2. u # s BY <1>1, <5>1 DEF Destroying
        <5> QED BY <2>7, <5>1, <5>2 DEF Destroying
      <4> QED BY <4>1, <4>3, <4>4 DEF IInv, OwnersInv
    <3> QED BY <3>1, <3>2
  <2>15. \A l, m \in Ctrls : Owned(l)' /\ Owned(m)' => l = m BY <2>13 DEF IInv, OwnersInv
  <2>16. OwnersInv'
    <3>1. \A j \in Impls : imp'[j].own # None => ctrl'[imp'[j].own].m_ctrl = j
      BY <1>4, <2>5 DEF IInv, OwnersInv
    <3>2. \A l \in Ctrls : ctrl'[l].m_ctrl # None => imp'[ctrl'[l].m_ctrl].own = l
      <4>1. \A l \in Ctrls : ctrl[l].m_ctrl \in Impls \cup {None} BY DEF IInv, TypeOK, CtrlType
      <4> QED BY <1>4, <2>5, <4>1 DEF IInv, OwnersInv
    <3>3. \A j \in Impls : Running(j)' => tor'[j].own # None /\ imp'[j].own = tor'[j].own
      BY <1>4, <1>8, <2>5 DEF IInv, OwnersInv
    <3> QED BY <2>14, <2>15, <3>1, <3>2, <3>3 DEF OwnersInv
  <2>17. imp' \in [Impls -> ImplType] /\ DataInv'
    <3>1. PICK p \in Ports \cup {None} : Honest(imp[i], tor[i], Port(i), p) BY DEF IInv, DataInv
    <3>2. \A j \in Impls : Port(j)' = Port(j) BY <1>4, <2>5, PortFrame DEF IInv
    <3>3. Honest(Stopped(i), tor[i], Port(i)', p) BY <3>1, <3>2, StoppedImpl
    <3>4. tor[i] \in TorType /\ tor' = [tor EXCEPT ![i] = tor[i]] BY <1>4 DEF IInv, TypeOK
    <3> QED BY <2>5, <3>2, <3>3, <3>4, OneImpl DEF IInv
  <2>18. thr' \in [Sessions -> CallType] BY <2>2, <2>3 DEF IInv, TypeOK
  <2>19. TypeOK' BY <1>4, <1>5, <1>7, <2>17, <2>18 DEF IInv, TypeOK
  <2>20. NoLostWakeup'
    <3>1. \A u \in Sessions : thr[u].pc = "blocked" => thr[u].i \in Impls /\ thr[u].i # i
      BY <2>8 DEF Active, Waits, IInv, ThreadsInv, ThreadInv
    <3> QED BY <2>2, <2>3, <2>5, <3>1, Unheard DEF IInv
  <2> QED BY <2>10, <2>16, <2>17, <2>19, <2>20 DEF IInv
<1> QED BY <1>10, <1>11

-----------------------------------------------------------------------------
(* A tor_controller_impl is made, by get_shared_ref or by wakeup.          *)

LEMMA Starts ==
  ASSUME IInv, NEW s \in Sessions, NEW k \in Ctrls, NEW c \in CtrlType, StartImpl(s, k, c),
         ~Active(thr[s]), ctrl[k].m_ctrl = None, UNCHANGED <<ref, proxy, events, aborted>>,
         \/ /\ thr[s].why = "connect" /\ s_inst_mutex = None /\ s_inst_mutex' = s
            /\ \A l \in Ctrls : ~Referenced(l)
         \/ /\ thr[s].why = "wakeup" /\ s_inst_mutex' = s_inst_mutex
            /\ ref[s] = k /\ c.lock = s
  PROVE  IInv'
<1>1. \E i \in Impls :
         /\ Unused(i)
         /\ tor' = [tor EXCEPT ![i] = [NoTor EXCEPT !.state = "starting", !.own = k,
                                                    !.conf = c.m_socks5_port]]
         /\ imp' = [imp EXCEPT ![i] = NewImpl(k)]
         /\ ctrl' = [ctrl EXCEPT ![k] = [c EXCEPT !.m_ctrl = i]]
         /\ thr' = [thr EXCEPT ![s].pc = "ctor", ![s].i = i]
  <2> DEFINE i == CHOOSE i \in Impls : Unused(i)
  <2>1. i \in Impls /\ Unused(i) BY DEF StartImpl
  <2>2. /\ tor' = [tor EXCEPT ![i] = [NoTor EXCEPT !.state = "starting", !.own = k,
                                                   !.conf = c.m_socks5_port]]
        /\ imp' = [imp EXCEPT ![i] = NewImpl(k)]
        /\ ctrl' = [ctrl EXCEPT ![k] = [c EXCEPT !.m_ctrl = i]]
        /\ thr' = [thr EXCEPT ![s].pc = "ctor", ![s].i = i]
    BY DEF StartImpl, conf_socks_port
  <2> HIDE DEF i
  <2> QED BY <2>1, <2>2
<1>2. PICK i \in Impls :
         /\ Unused(i)
         /\ tor' = [tor EXCEPT ![i] = [NoTor EXCEPT !.state = "starting", !.own = k,
                                                    !.conf = c.m_socks5_port]]
         /\ imp' = [imp EXCEPT ![i] = NewImpl(k)]
         /\ ctrl' = [ctrl EXCEPT ![k] = [c EXCEPT !.m_ctrl = i]]
         /\ thr' = [thr EXCEPT ![s].pc = "ctor", ![s].i = i]
  BY <1>1
<1> DEFINE t == [NoTor EXCEPT !.state = "starting", !.own = k, !.conf = c.m_socks5_port]
           d == [c EXCEPT !.m_ctrl = i]
           e == [thr[s] EXCEPT !.pc = "ctor", !.i = i]
<1>3. /\ tor' = [tor EXCEPT ![i] = t] /\ ctrl' = [ctrl EXCEPT ![k] = d]
      /\ thr' = [thr EXCEPT ![s] = e]
  BY <1>2
<1>4. d \in CtrlType /\ d.lock = c.lock /\ d.m_ctrl = i /\ d.m_socks5_port = c.m_socks5_port
  BY DEF CtrlType
<1>5. /\ t \in TorType /\ t.state = "starting" /\ t.own = k /\ t.conf = c.m_socks5_port /\ t.boot = 0
      /\ c.m_socks5_port \in Ports \cup {None}
  <2>1. c.m_socks5_port \in Ports \cup {None} BY DEF CtrlType
  <2>2. NoTor \in TorType /\ NoTor.boot = 0 BY NewTypes DEF NoTor
  <2> QED BY <2>1, <2>2 DEF TorType
<1>6. thr[s] \in CallType BY DEF IInv, TypeOK
<1>7. e \in CallType /\ e.pc = "ctor" /\ e.i = i /\ e.why = thr[s].why BY <1>6 DEF CallType
<1> HIDE DEF t, d, e
<1>8. NewImpl(k) \in ImplType /\ NewImpl(k).own = k /\ k # None BY NewTypes, NoneAssumption DEF NewImpl
<1>9. /\ \A u \in Sessions : thr'[u] = IF u = s THEN e ELSE thr[u]
      /\ \A j \in Impls : imp'[j] = IF j = i THEN NewImpl(k) ELSE imp[j]
      /\ \A j \in Impls : tor'[j] = IF j = i THEN t ELSE tor[j]
      /\ \A l \in Ctrls : ctrl'[l] = IF l = k THEN d ELSE ctrl[l]
  BY <1>2, <1>3 DEF IInv, TypeOK
<1>10. imp[i].own = None /\ ~Running(i) BY <1>2 DEF Unused
<1>11. \A j \in Impls : imp[j].own \in Ctrls \cup {None} /\ imp[j].own # k
  <2>1. \A j \in Impls : imp[j].own \in Ctrls \cup {None} BY DEF IInv, TypeOK, ImplType
  <2>2. \A j \in Impls : imp[j].own # k BY <1>8, NoneAssumption DEF IInv, OwnersInv
  <2> QED BY <2>1, <2>2
<1>12. \A u \in Sessions : Active(thr[u]) =>
          /\ u # s /\ thr[u].i \in Impls /\ thr[u].i # i /\ imp[thr[u].i].own \in Ctrls
          /\ imp[thr[u].i].own # k /\ imp'[thr[u].i] = imp[thr[u].i]
          /\ ctrl'[imp[thr[u].i].own] = ctrl[imp[thr[u].i].own]
  <2> SUFFICES ASSUME NEW u \in Sessions, Active(thr[u])
               PROVE  /\ u # s /\ thr[u].i \in Impls /\ thr[u].i # i /\ imp[thr[u].i].own \in Ctrls
                      /\ imp[thr[u].i].own # k /\ imp'[thr[u].i] = imp[thr[u].i]
                      /\ ctrl'[imp[thr[u].i].own] = ctrl[imp[thr[u].i].own]
    OBVIOUS
  <2>1. u # s /\ thr[u].i \in Impls /\ imp[thr[u].i].own # None
    BY DEF IInv, ThreadsInv, ThreadInv
  <2>2. thr[u].i # i /\ imp[thr[u].i].own \in Ctrls /\ imp[thr[u].i].own # k
    BY <1>10, <1>11, <2>1
  <2> QED BY <1>9, <2>1, <2>2
<1>13. \A l : Referenced(l)' <=> Referenced(l) BY DEF Referenced
<1>14. Active(e) /\ e.pc # "lock" /\ e.pc # "blocked" BY <1>7 DEF Active
<1>15. thr[s].why = "connect" => Alone(e) /\ ~Locked(e) BY <1>7 DEF Alone, Locked, Waits, Stops
<1>16. thr[s].why = "wakeup" => Locked(e) /\ ~Alone(e) BY <1>7 DEF Alone, Locked, Waits, Stops
<1>17. \A u \in Sessions : thr[u].pc = "ctor" /\ thr[u].why = "connect" => s_inst_mutex = u /\ u # None
  BY NoneAssumption DEF IInv, ThreadsInv, ThreadInv
<1>18. \A u \in Sessions : ThreadInv(u)'
  <2> SUFFICES ASSUME NEW u \in Sessions PROVE ThreadInv(u)' OBVIOUS
  <2>1. CASE u = s
    <3>1. thr'[u] = e /\ imp'[e.i].own = k /\ ctrl'[k].lock = c.lock BY <1>4, <1>7, <1>8, <1>9, <2>1
    <3>2. ~Referenced(imp[thr[u].i].own)' \/ thr[s].why = "wakeup"
      BY <3>1 DEF Referenced
    <3>3. thr[s].why = "connect" => s_inst_mutex' = s BY <1>16
    <3>4. thr[s].why = "wakeup" => ref'[s] = k /\ c.lock = s OBVIOUS
    <3>5. CASE thr[s].why = "connect"
      BY <1>7, <1>8, <1>14, <1>15, <2>1, <3>1, <3>2, <3>3, <3>5 DEF ThreadInv
    <3>6. CASE thr[s].why = "wakeup"
      BY <1>7, <1>8, <1>14, <1>16, <2>1, <3>1, <3>4, <3>6 DEF ThreadInv
    <3> QED BY <3>5, <3>6
  <2>2. CASE u # s
    <3>1. thr'[u] = thr[u] /\ ThreadInv(u) /\ ref'[u] = ref[u] BY <1>9, <2>2 DEF IInv, ThreadsInv
    <3>2. CASE ~Active(thr[u])
      BY <3>1, <3>2 DEF ThreadInv, Active, Locked, Alone
    <3>3. CASE Active(thr[u])
      <4>1. thr'[u].pc = "ctor" /\ thr'[u].why = "connect" => s_inst_mutex' = u
        BY <1>17, <3>1
      <4>2. /\ thr[u].i \in Impls /\ imp'[thr[u].i] = imp[thr[u].i]
            /\ ctrl'[imp[thr[u].i].own] = ctrl[imp[thr[u].i].own]
        BY <1>12, <3>3
      <4> QED BY <1>13, <3>1, <3>3, <4>1, <4>2 DEF ThreadInv
    <3> QED BY <3>2, <3>3
  <2> QED BY <2>1, <2>2
<1>19. ThreadsInv'
  <2>1. s_inst_mutex' # None => \A u \in Sessions : ref'[u] = None
    <3>1. CASE \A l \in Ctrls : ~Referenced(l) BY <3>1 DEF Referenced, IInv, TypeOK
    <3>2. CASE s_inst_mutex' = s_inst_mutex BY <3>2 DEF IInv, ThreadsInv
    <3> QED BY <3>1, <3>2
  <2> QED BY <1>7, <1>9, <1>12, <1>18, <2>1 DEF IInv, ThreadsInv
<1>20. \A l \in Ctrls : Owned(l) => Owned(l)'
  <2> SUFFICES ASSUME NEW l \in Ctrls, Owned(l) PROVE Owned(l)' OBVIOUS
  <2>1. CASE Referenced(l) BY <1>13, <2>1 DEF Owned
  <2>2. CASE \E u \in Sessions : thr[u].pc = "ctor" /\ thr[u].why = "connect" /\ imp[thr[u].i].own = l
    <3>1. PICK u \in Sessions : thr[u].pc = "ctor" /\ thr[u].why = "connect" /\ imp[thr[u].i].own = l
      BY <2>2
    <3>2. Active(thr[u]) BY <3>1 DEF Active
    <3>3. thr'[u] = thr[u] /\ imp'[thr[u].i] = imp[thr[u].i] BY <1>9, <1>12, <3>2
    <3> QED BY <3>1, <3>3 DEF Owned
  <2> QED BY <2>1, <2>2 DEF Owned
<1>21. Owned(k)'
  <2>1. CASE thr[s].why = "connect" BY <1>7, <1>8, <1>9, <2>1 DEF Owned
  <2>2. CASE thr[s].why = "wakeup" BY <2>2 DEF Owned, Referenced
  <2> QED BY <2>1, <2>2
<1>22. \A l, m \in Ctrls : Owned(l)' /\ Owned(m)' => l = m
  <2>1. CASE thr[s].why = "connect"
    <3>1. /\ s_inst_mutex = None /\ \A l \in Ctrls : ~Referenced(l) BY <2>1
    <3>2. \A u \in Sessions : u # s => ~(thr'[u].pc = "ctor" /\ thr'[u].why = "connect")
      BY <1>9, <1>17, <3>1
    <3>3. imp'[thr'[s].i].own = k BY <1>7, <1>8, <1>9
    <3>4. \A l \in Ctrls : Owned(l)' => l = k BY <1>13, <3>1, <3>2, <3>3 DEF Owned
    <3> QED BY <3>4
  <2>2. CASE thr[s].why = "wakeup"
    <3> SUFFICES ASSUME NEW l \in Ctrls, Owned(l)' PROVE Owned(l)
      BY DEF IInv, OwnersInv
    <3>1. CASE Referenced(l)' BY <1>13, <3>1 DEF Owned
    <3>2. CASE \E u \in Sessions : thr'[u].pc = "ctor" /\ thr'[u].why = "connect"
                                   /\ imp'[thr'[u].i].own = l
      <4>1. PICK u \in Sessions : thr'[u].pc = "ctor" /\ thr'[u].why = "connect"
                                   /\ imp'[thr'[u].i].own = l
        BY <3>2
      <4>2. u # s /\ thr'[u] = thr[u] BY <1>7, <1>9, <2>2, <4>1
      <4>3. Active(thr[u]) BY <4>1, <4>2 DEF Active
      <4>4. imp'[thr[u].i] = imp[thr[u].i] BY <1>12, <4>3
      <4> QED BY <4>1, <4>2, <4>4 DEF Owned
    <3> QED BY <3>1, <3>2 DEF Owned
  <2> QED BY <2>1, <2>2
<1>23. \A j \in Impls : Running(j)' /\ j # i => Running(j) /\ imp'[j] = imp[j] /\ tor'[j] = tor[j]
  BY <1>9 DEF Running
<1>24. \A j \in Impls : Running(j)' => Owned(imp[j].own)' \/ \E u \in Sessions : Destroying(u, j)'
  <2> SUFFICES ASSUME NEW j \in Impls, Running(j)'
               PROVE  Owned(imp[j].own)' \/ \E u \in Sessions : Destroying(u, j)'
    OBVIOUS
  <2>1. CASE j = i
    <3>1. imp'[j].own = k BY <1>8, <1>9, <2>1
    <3> QED BY <1>21, <3>1 DEF Owned, Referenced
  <2>2. CASE j # i
    <3>1. Running(j) /\ imp'[j] = imp[j] BY <1>23, <2>2
    <3>2. CASE Owned(imp[j].own)
      <4>1. imp[j].own # None BY <3>1 DEF IInv, OwnersInv
      <4>2. PICK l \in Ctrls : l = imp[j].own BY <1>11, <4>1
      <4>3. Owned(l)' BY <1>20, <3>2, <4>2
      <4> QED BY <3>1, <4>2, <4>3 DEF Owned, Referenced
    <3>3. CASE \E u \in Sessions : Destroying(u, j)
      <4>1. PICK u \in Sessions : Destroying(u, j) BY <3>3
      <4>2. u # s BY <4>1 DEF Destroying, Active, Stops
      <4> QED BY <1>9, <4>1, <4>2 DEF Destroying
    <3> QED BY <3>1, <3>2, <3>3 DEF IInv, OwnersInv
  <2> QED BY <2>1, <2>2
<1>25. OwnersInv'
  <2>1. \A j \in Impls : imp'[j].own # None => ctrl'[imp'[j].own].m_ctrl = j
    <3> SUFFICES ASSUME NEW j \in Impls, imp'[j].own # None PROVE ctrl'[imp'[j].own].m_ctrl = j
      OBVIOUS
    <3>1. CASE j = i BY <1>4, <1>8, <1>9, <3>1
    <3>2. CASE j # i
      <4>1. imp'[j] = imp[j] /\ imp[j].own \in Ctrls /\ imp[j].own # k BY <1>9, <1>11, <3>2
      <4> QED BY <1>9, <4>1 DEF IInv, OwnersInv
    <3> QED BY <3>1, <3>2
  <2>2. \A l \in Ctrls : ctrl'[l].m_ctrl # None => imp'[ctrl'[l].m_ctrl].own = l
    <3> SUFFICES ASSUME NEW l \in Ctrls, ctrl'[l].m_ctrl # None PROVE imp'[ctrl'[l].m_ctrl].own = l
      OBVIOUS
    <3>1. CASE l = k BY <1>4, <1>8, <1>9, <3>1
    <3>2. CASE l # k
      <4>1. ctrl'[l] = ctrl[l] BY <1>9, <3>2
      <4>2. ctrl[l].m_ctrl \in Impls BY <4>1 DEF IInv, TypeOK, CtrlType
      <4>3. imp[ctrl[l].m_ctrl].own = l BY <4>1 DEF IInv, OwnersInv
      <4>4. ctrl[l].m_ctrl # i BY <1>10, <4>3, NoneAssumption
      <4> QED BY <1>9, <4>1, <4>2, <4>3, <4>4
    <3> QED BY <3>1, <3>2
  <2>3. \A j \in Impls : Running(j)' => tor'[j].own # None /\ imp'[j].own = tor'[j].own
    <3> SUFFICES ASSUME NEW j \in Impls, Running(j)'
                 PROVE  tor'[j].own # None /\ imp'[j].own = tor'[j].own
      OBVIOUS
    <3>1. CASE j = i BY <1>5, <1>8, <1>9, <3>1
    <3>2. CASE j # i BY <1>23, <3>2 DEF IInv, OwnersInv
    <3> QED BY <3>1, <3>2
  <2> QED BY <1>22, <1>24, <2>1, <2>2, <2>3 DEF OwnersInv
<1>26. imp' \in [Impls -> ImplType] /\ tor' \in [Impls -> TorType] /\ DataInv'
  <2>1. PICK q \in Ports \cup {None} : q = c.m_socks5_port BY <1>5
  <2>2. Honest(NewImpl(k), t, q, q) BY <1>5, <2>1, NewHonest
  <2>3. Port(i)' = q BY <1>4, <1>8, <1>9, <2>1 DEF Port
  <2>4. \A j \in Impls : j # i => Port(j)' = Port(j) BY <1>9, <1>11 DEF Port
  <2>5. Honest(NewImpl(k), t, Port(i)', q) BY <2>2, <2>3
  <2> QED BY <1>2, <1>3, <1>5, <1>8, <2>4, <2>5, OneImpl DEF IInv
<1>27. ctrl' \in [Ctrls -> CtrlType] /\ thr' \in [Sessions -> CallType]
  BY <1>3, <1>4, <1>7 DEF IInv, TypeOK
<1>28. s_inst_mutex' \in Sessions \cup {None} BY DEF IInv, TypeOK
<1>29. TypeOK' BY <1>26, <1>27, <1>28 DEF IInv, TypeOK
<1>30. NoLostWakeup'
  <2>1. \A u \in Sessions : thr[u].pc = "blocked" => imp'[thr[u].i] = imp[thr[u].i]
    BY <1>12 DEF Active, Waits
  <2> QED BY <1>3, <1>14, <2>1, Unheard DEF IInv
<1> QED BY <1>19, <1>25, <1>26, <1>29, <1>30 DEF IInv

\* Only connect asks for the shared controller
RefInv == \A s \in Sessions : thr[s].pc = "ref" => thr[s].why = "connect"

LEMMA get_shared_refInv == ASSUME IInv, RefInv, NEW s \in Sessions, get_shared_ref(s) PROVE IInv'
<1>1. /\ thr[s].pc = "ref" /\ thr[s].why = "connect" /\ thr[s] \in CallType /\ s_inst_mutex = None
      /\ UNCHANGED <<proxy, events, aborted>>
  BY DEF get_shared_ref, RefInv, IInv, TypeOK
<1>2. ~Active(thr[s]) BY <1>1 DEF Active, Waits, Stops
<1>3. CASE \E k \in Ctrls : /\ Referenced(k) /\ ref' = [ref EXCEPT ![s] = k] /\ Goto(s, "lock")
                           /\ UNCHANGED <<s_inst_mutex, ctrl, imp, tor>>
  <2> DEFINE c == [thr[s] EXCEPT !.pc = "lock"]
  <2>1. PICK k \in Ctrls : /\ Referenced(k) /\ ref' = [ref EXCEPT ![s] = k]
                          /\ thr' = [thr EXCEPT ![s] = c] /\ UNCHANGED <<s_inst_mutex, ctrl, imp, tor>>
    BY <1>3 DEF Goto
  <2>2. c \in CallType /\ c.pc = "lock" BY <1>1 DEF CallType
  <2> HIDE DEF c
  <2>3. \A u \in Sessions : /\ thr'[u] = IF u = s THEN c ELSE thr[u]
                            /\ ref'[u] = IF u = s THEN k ELSE ref[u]
    BY <2>1 DEF IInv, TypeOK
  <2>4. \A l \in Ctrls : Referenced(l)' <=> Referenced(l)
    <3>1. \A l \in Ctrls : Referenced(l) => l = k BY <2>1 DEF Owned, IInv, OwnersInv
    <3>2. \A l \in Ctrls : Referenced(l)' => Referenced(l) BY <2>1, <2>3 DEF Referenced
    <3>3. Referenced(k)' BY <2>3 DEF Referenced
    <3> QED BY <2>1, <3>1, <3>2, <3>3
  <2>5. ~Active(c) /\ c.pc # "blocked" BY <2>2 DEF Active, Waits, Stops
  <2>6. \A u \in Sessions : ThreadInv(u)'
    <3> SUFFICES ASSUME NEW u \in Sessions PROVE ThreadInv(u)' OBVIOUS
    <3>1. CASE u = s
      <4>1. thr'[u] = c /\ ref'[u] = k /\ k # None BY <2>3, <3>1, NoneAssumption
      <4> QED BY <2>5, <4>1 DEF ThreadInv, Active, Locked, Alone
    <3>2. CASE u # s
      <4>1. thr'[u] = thr[u] /\ ref'[u] = ref[u] /\ ThreadInv(u) BY <2>3, <3>2 DEF IInv, ThreadsInv
      <4>2. CASE ~Active(thr[u])
        BY <4>1, <4>2 DEF ThreadInv, Active, Locked, Alone
      <4>3. CASE Active(thr[u])
        <5>1. imp[thr[u].i].own \in Ctrls BY <4>1, <4>3 DEF ThreadInv, IInv, TypeOK, ImplType
        <5>2. Referenced(imp[thr[u].i].own)' => Referenced(imp[thr[u].i].own)
          <6>1. PICK l \in Ctrls : l = imp[thr[u].i].own BY <5>1
          <6> QED BY <2>1, <2>4, <4>1, <6>1 DEF Referenced
        <5> QED BY <2>1, <4>1, <5>2 DEF ThreadInv
      <4> QED BY <4>2, <4>3
    <3> QED BY <3>1, <3>2
  <2>7. ThreadsInv' BY <1>1, <2>1, <2>3, <2>5, <2>6 DEF IInv, ThreadsInv
  <2>8. \A l \in Ctrls : Owned(l)' <=> Owned(l)
    <3>1. \A u \in Sessions : /\ thr'[u].pc = "ctor" <=> thr[u].pc = "ctor"
                              /\ thr[u].pc = "ctor" => thr'[u] = thr[u]
      BY <1>1, <2>2, <2>3
    <3> QED BY <2>1, <2>4, <3>1 DEF Owned
  <2>9. \A j \in Impls : \A u \in Sessions : Destroying(u, j) => Destroying(u, j)'
    BY <1>1, <2>3 DEF Destroying
  <2>10. OwnersInv' BY <2>1, <2>8, <2>9, OwnersFrame DEF IInv
  <2>11. DataInv' BY <2>1 DEF IInv, DataInv, Port
  <2>12. NoLostWakeup' BY <2>1, <2>5, Unheard DEF IInv
  <2>13. ref' \in [Sessions -> Ctrls \cup {None}] /\ thr' \in [Sessions -> CallType]
    BY <2>1, <2>2 DEF IInv, TypeOK
  <2>14. TypeOK' BY <1>1, <2>1, <2>13 DEF IInv, TypeOK
  <2> QED BY <2>7, <2>10, <2>11, <2>12, <2>14 DEF IInv
<1>4. CASE /\ ~\E k \in Ctrls : Referenced(k)
           /\ \E k \in Ctrls : ctrl[k].m_ctrl = None
           /\ StartImpl(s, CHOOSE k \in Ctrls : ctrl[k].m_ctrl = None, NewCtrl)
           /\ s_inst_mutex' = s /\ ref' = ref
  <2>1. PICK k \in Ctrls : ctrl[k].m_ctrl = None /\ StartImpl(s, k, NewCtrl) BY <1>4
  <2>2. \A l \in Ctrls : ~Referenced(l) BY <1>4
  <2> QED BY <1>1, <1>2, <1>4, <2>1, <2>2, NewTypes, Starts
<1> QED BY <1>3, <1>4 DEF get_shared_ref

LEMMA wakeupInv == ASSUME IInv, NEW s \in Sessions, wakeup(s) PROVE IInv'
<1>1. /\ thr[s].pc = "lock" /\ thr[s].why = "wakeup" /\ ref[s] # None
      /\ UNCHANGED <<s_inst_mutex, ref, proxy, events, aborted>>
  BY DEF wakeup, IInv, ThreadsInv, ThreadInv
<1>2. ~Active(thr[s]) /\ ~Alone(thr[s]) BY <1>1 DEF Active, Alone, Waits, Stops
<1>3. PICK k \in Ctrls : k = ref[s] BY <1>1 DEF IInv, TypeOK
<1>4. CASE ctrl[k].m_ctrl # None
  <2>1. thr' = [thr EXCEPT ![s] = NoCall] /\ UNCHANGED <<imp, tor, ctrl>>
    BY <1>3, <1>4 DEF wakeup, Finish
  <2>2. events' \in 0 .. MaxEvents /\ proxy' \in [Sessions -> Ports \cup {None}]
    BY <1>1 DEF IInv, TypeOK
  <2>3. NoCall.pc # "lock" BY NoCallInactive
  <2> QED BY <1>1, <1>2, <2>1, <2>2, <2>3, NoCallInactive, LeavesInv
<1>5. CASE ctrl[k].m_ctrl = None
  <2> DEFINE c == [ctrl[k] EXCEPT !.lock = s]
  <2>1. StartImpl(s, k, c) BY <1>3, <1>5 DEF wakeup
  <2>2. c \in CtrlType /\ c.lock = s
    <3>1. ctrl[k] \in CtrlType BY DEF IInv, TypeOK
    <3> QED BY <3>1 DEF CtrlType
  <2> HIDE DEF c
  <2> QED BY <1>1, <1>2, <1>3, <1>5, <2>1, <2>2, Starts
<1> QED BY <1>4, <1>5

-----------------------------------------------------------------------------
(* All steps.                                                              *)

LEMMA CallStepInv == ASSUME IInv, RefInv, NEW s \in Sessions, CallStep(s) PROVE IInv'
<1>1. CASE Abort BY <1>1, AbortInv
<1>2. CASE ~Abort
  BY <1>2, get_shared_refInv, ConstructedInv, StartWaitInv, LookInv, WakesInv, TimesOutInv, sleepInv,
     wakeupInv, HaltInv, PushStoppedInv, JoinedInv
  DEF CallStep, ConstructionFails, HaltOnFreed
<1> QED BY <1>1, <1>2

LEMMA OtherPlace ==
  ASSUME TypeOK, RefInv, NEW s \in Sessions, NEW c, thr' = [thr EXCEPT ![s] = c],
         c.pc = "ref" => c.why = "connect"
  PROVE  RefInv'
<1>1. \A u \in Sessions : thr'[u] = IF u = s THEN c ELSE thr[u] BY DEF TypeOK
<1> QED BY <1>1 DEF RefInv

LEMMA Notified == ASSUME TypeOK, RefInv, NEW i \in Impls, notify_all(i) PROVE RefInv'
  BY DEF TypeOK, RefInv, notify_all, CallType

LEMMA AbortRef == Abort => RefInv'
  BY DEF Abort, NoCalls, NoCall, RefInv

LEMMA CallRef ==
  ASSUME TypeOK, RefInv, NEW s \in Sessions,
         CallStep(s) \/ Destroy(s) \/ \E why \in Calls : Call(s, why)
  PROVE  RefInv'
<1>0. thr[s] \in CallType BY DEF TypeOK
<1>1. CASE Abort BY <1>1, AbortRef
<1>2. CASE UNCHANGED thr BY <1>2 DEF RefInv
<1>3. CASE \E c : thr' = [thr EXCEPT ![s] = c] /\ (c.pc = "ref" => c.why = "connect")
  BY <1>3, OtherPlace
<1>4. \A l : [thr EXCEPT ![s].pc = l] = [thr EXCEPT ![s] = [thr[s] EXCEPT !.pc = l]] OBVIOUS
<1>6. CASE \E l \in {"lock", "look", "push", "join"} : Goto(s, l)
  <2>1. PICK l \in {"lock", "look", "push", "join"} : Goto(s, l) BY <1>6
  <2>2. thr' = [thr EXCEPT ![s] = [thr[s] EXCEPT !.pc = l]] BY <2>1, <1>4 DEF Goto
  <2>3. [thr[s] EXCEPT !.pc = l].pc # "ref" BY <1>0, <2>1 DEF CallType
  <2> QED BY <1>3, <2>2, <2>3
<1>7. CASE Finish(s)
  <2>1. NoCall.pc # "ref" BY NoCallInactive
  <2> QED BY <1>3, <1>7, <2>1 DEF Finish
<1>8. CASE \E port : Answer(s, port)
  <2>1. [NoCall EXCEPT !.pc = "lock", !.why = "wakeup"].pc = "lock" BY DEF NoCall
  <2> QED BY <1>3, <1>7, <1>8, <2>1 DEF Answer
<1>9. CASE \E k, c : StartImpl(s, k, c)
  <2>1. PICK j : thr' = [thr EXCEPT ![s].pc = "ctor", ![s].i = j] BY <1>9 DEF StartImpl
  <2>2. thr' = [thr EXCEPT ![s] = [thr[s] EXCEPT !.pc = "ctor", !.i = j]] BY <2>1
  <2>3. [thr[s] EXCEPT !.pc = "ctor", !.i = j].pc = "ctor" BY <1>0 DEF CallType
  <2> QED BY <1>3, <2>2, <2>3
<1>10. CASE \E j, m : \E l \in {"look", "halt"} :
                thr' = [thr EXCEPT ![s] = [thr[s] EXCEPT !.pc = l, !.i = j]]
                \/ thr' = [thr EXCEPT ![s] = [thr[s] EXCEPT !.pc = l, !.why = m, !.i = j]]
  <2>1. PICK j, m : \E l \in {"look", "halt"} :
           thr' = [thr EXCEPT ![s] = [thr[s] EXCEPT !.pc = l, !.i = j]]
           \/ thr' = [thr EXCEPT ![s] = [thr[s] EXCEPT !.pc = l, !.why = m, !.i = j]]
    BY <1>10
  <2>2. \A l \in {"look", "halt"} :
           /\ [thr[s] EXCEPT !.pc = l, !.i = j].pc = l
           /\ [thr[s] EXCEPT !.pc = l, !.why = m, !.i = j].pc = l
    BY <1>0 DEF CallType
  <2> QED BY <1>3, <2>1, <2>2
<1>11. CASE Look(s)
  <2>1. CASE \E port : Answer(s, port) BY <1>8, <2>1
  <2>2. CASE ~\E port : Answer(s, port)
    <3> DEFINE c == [thr[s] EXCEPT !.pc = "blocked", !.last = imp[thr[s].i].progress, !.notified = FALSE]
    <3>1. thr' = [thr EXCEPT ![s] = c] BY <1>11, <2>2 DEF Look
    <3>2. c.pc = "blocked" BY <1>0 DEF CallType
    <3> QED BY <1>3, <3>1, <3>2
  <2> QED BY <2>1, <2>2
<1>12. CASE \E why \in Calls : Call(s, why)
  <2>1. PICK why \in Calls : Call(s, why) BY <1>12
  <2>2. CASE why = "connect" /\ thr' = [thr EXCEPT ![s].pc = "ref", ![s].why = why]
    <3>1. thr' = [thr EXCEPT ![s] = [thr[s] EXCEPT !.pc = "ref", !.why = why]] BY <2>2
    <3>2. [thr[s] EXCEPT !.pc = "ref", !.why = why].why = "connect" BY <1>0, <2>2 DEF CallType
    <3> QED BY <1>3, <3>1, <3>2
  <2>3. CASE thr' = [thr EXCEPT ![s].pc = "lock", ![s].why = why]
    <3>1. thr' = [thr EXCEPT ![s] = [thr[s] EXCEPT !.pc = "lock", !.why = why]] BY <2>3
    <3>2. [thr[s] EXCEPT !.pc = "lock", !.why = why].pc = "lock" BY <1>0 DEF CallType
    <3> QED BY <1>3, <3>1, <3>2
  <2> QED BY <2>1, <2>2, <2>3 DEF Call
<1>13. CASE Destroy(s)
  <2>1. CASE UNCHANGED thr BY <1>2, <2>1
  <2>2. CASE ~UNCHANGED thr
    <3>1. thr' = [thr EXCEPT ![s] = [thr[s] EXCEPT !.pc = "halt", !.why = "destroy",
                                                  !.i = ctrl[ref[s]].m_ctrl]]
      BY <1>13, <2>2 DEF Destroy
    <3> QED BY <1>10, <3>1
  <2> QED BY <2>1, <2>2
<1>14. CASE StartWait(s)
  <2>1. CASE \E port : Answer(s, port) BY <1>8, <2>1
  <2>2. CASE ~\E port : Answer(s, port)
    <3>1. thr' = [thr EXCEPT ![s] = [thr[s] EXCEPT !.pc = "look", !.i = ctrl[ref[s]].m_ctrl]]
      BY <1>14, <2>2 DEF StartWait
    <3> QED BY <1>10, <3>1
  <2> QED BY <2>1, <2>2
<1>15. CASE sleep(s)
  <2>1. CASE Finish(s) BY <1>7, <2>1
  <2>2. CASE ~Finish(s)
    <3>1. thr' = [thr EXCEPT ![s] = [thr[s] EXCEPT !.pc = "halt", !.i = ctrl[ref[s]].m_ctrl]]
      BY <1>15, <2>2 DEF sleep
    <3> QED BY <1>10, <3>1
  <2> QED BY <2>1, <2>2
<1>16. CASE get_shared_ref(s) BY <1>6, <1>9, <1>16 DEF get_shared_ref
<1>17. CASE wakeup(s) BY <1>7, <1>9, <1>17 DEF wakeup
<1>18. CASE Constructed(s) BY <1>6, <1>7, <1>18 DEF Constructed
<1>19. CASE Halt(s) \/ PushStopped(s) \/ Wakes(s) BY <1>6, <1>19 DEF Halt, PushStopped, Wakes
<1>20. CASE Joined(s) BY <1>7, <1>20 DEF Joined
<1>21. CASE TimesOut(s) BY <1>8, <1>21 DEF TimesOut
<1>22. CASE ConstructionFails(s) \/ HaltOnFreed(s) BY <1>1, <1>22 DEF ConstructionFails, HaltOnFreed
<1> QED
  BY <1>11, <1>12, <1>13, <1>14, <1>15, <1>16, <1>17, <1>18, <1>19, <1>20, <1>21, <1>22 DEF CallStep

LEMMA ImplRef ==
  ASSUME TypeOK, RefInv, NEW i \in Impls, ControlStep(i) \/ TorStep(i) \/ TorBoots(i) \/ TorDies(i)
  PROVE  RefInv'
<1>1. Abort \/ UNCHANGED thr \/ notify_all(i)
  <2>1. CASE ControlStep(i)
    BY <2>1 DEF ControlStep, connected_cb, Send, Push, UnexpectedReply, AssertionFails, authenticate_cb,
       bootstrap_phase_cb, NotifyPhase, Decide, socks_cb, NotifySocks, stopped_cb, EndOfStream,
       disconnected_cb
  <2>2. CASE TorStep(i) \/ TorBoots(i) \/ TorDies(i)
    BY <2>2 DEF TorStep, TorUp, TorAnswers, TorHalts, TorRefuses, TorBoots, TorDies
  <2> QED BY <2>1, <2>2
<1>2. CASE UNCHANGED thr BY <1>2 DEF RefInv
<1> QED BY <1>1, <1>2, AbortRef, Notified

\* The invariant is inductive
LEMMA NextInv == ASSUME IInv, RefInv, [Next]_vars PROVE IInv' /\ RefInv'
<1>1. CASE Next
  <2>1. CASE \E s \in Sessions : CallStep(s) \/ Destroy(s) \/ \E why \in Calls : Call(s, why)
    BY <2>1, CallStepInv, DestroyInv, CallInv, CallRef DEF IInv
  <2>2. CASE \E i \in Impls : ControlStep(i) \/ TorStep(i) \/ TorBoots(i) \/ TorDies(i)
    BY <2>2, ControlInv, TorInv, ImplRef DEF IInv
  <2> QED BY <1>1, <2>1, <2>2 DEF Next
<1>2. CASE UNCHANGED vars
  <2>1. TypeOK' BY <1>2 DEF IInv, vars, TypeOK
  <2>2. ThreadsInv'
    BY <1>2 DEF IInv, vars, ThreadsInv, ThreadInv, Referenced
  <2>3. OwnersInv'
    BY <1>2 DEF IInv, vars, OwnersInv, Owned, Referenced, Running, Destroying
  <2>4. DataInv' BY <1>2 DEF IInv, vars, DataInv, Port
  <2>5. NoLostWakeup' /\ RefInv' BY <1>2 DEF IInv, vars, NoLostWakeup, RefInv
  <2> QED BY <2>1, <2>2, <2>3, <2>4, <2>5 DEF IInv
<1> QED BY <1>1, <1>2

-----------------------------------------------------------------------------
(* The port the sessions know.                                             *)

Known(s) == ref[s] # None /\ proxy[s] # None /\ ~ctrl[ref[s]].forgot
\* Impl i, which nobody is about to destroy, has the address of s
Told(i, s) ==
    /\ imp[i].own = ref[s] /\ imp[i].socks5 = proxy[s]
    /\ \A u \in Sessions : ~(Stops(thr[u]) /\ thr[u].i = i)
\* Unless it was forgotten, the controller has the sessions' address: in
\* m_socks5_port, or in an impl from which the next sleep takes it
ProxyInv ==
    \A s \in Sessions :
        /\ ref[s] = None => proxy[s] = None
        /\ Known(s) => ctrl[ref[s]].m_socks5_port = proxy[s] \/ \E i \in Impls : Told(i, s)

\* Steps that take the address from nobody
LEMMA ProxyFrame ==
  ASSUME TypeOK, ProxyInv, UNCHANGED <<ref, proxy>>,
         \A k \in Ctrls : /\ ctrl'[k].m_socks5_port = ctrl[k].m_socks5_port
                          /\ ctrl'[k].forgot <=> ctrl[k].forgot,
         \A i \in Impls : imp[i].own # None =>
             imp'[i].own = imp[i].own /\ (imp[i].socks5 # None => imp'[i].socks5 = imp[i].socks5),
         \A u \in Sessions : Stops(thr'[u]) => Stops(thr[u]) /\ thr'[u].i = thr[u].i
  PROVE  ProxyInv'
<1> SUFFICES ASSUME NEW s \in Sessions
             PROVE  /\ ref'[s] = None => proxy'[s] = None
                    /\ Known(s)' => \/ ctrl'[ref'[s]].m_socks5_port = proxy'[s]
                                    \/ \E i \in Impls : Told(i, s)'
  BY DEF ProxyInv
<1>1. ref'[s] = None => proxy'[s] = None BY DEF ProxyInv
<1>2. ASSUME Known(s)'
      PROVE  ctrl'[ref'[s]].m_socks5_port = proxy'[s] \/ \E i \in Impls : Told(i, s)'
  <2>1. ref[s] \in Ctrls /\ Known(s) BY <1>2 DEF Known, TypeOK
  <2>2. CASE ctrl[ref[s]].m_socks5_port = proxy[s] BY <2>1, <2>2
  <2>3. CASE \E i \in Impls : Told(i, s)
    <3>1. PICK i \in Impls : Told(i, s) BY <2>3
    <3>2. imp'[i].own = ref'[s] /\ imp'[i].socks5 = proxy'[s] BY <2>1, <3>1 DEF Told, Known
    <3>3. \A u \in Sessions : ~(Stops(thr'[u]) /\ thr'[u].i = i) BY <3>1 DEF Told
    <3> QED BY <3>2, <3>3 DEF Told
  <2> QED BY <2>1, <2>2, <2>3 DEF ProxyInv
<1> QED BY <1>1, <1>2

LEMMA AbortProxy == Abort => ProxyInv'
<1> SUFFICES ASSUME Abort PROVE ProxyInv' OBVIOUS
<1>1. \A s \in Sessions : ref'[s] = None /\ proxy'[s] = None BY DEF Abort, NoRefs
<1> QED BY <1>1 DEF ProxyInv, Known

LEMMA ImplProxy ==
  ASSUME IInv, ProxyInv, NEW i \in Impls, ControlStep(i) \/ TorStep(i) \/ TorBoots(i) \/ TorDies(i)
  PROVE  ProxyInv'
<1>1. CASE Abort BY <1>1, AbortProxy
<1>2. CASE ~Abort
  <2>1. imp[i] \in ImplType /\ TypeOK /\ imp \in [Impls -> ImplType] BY DEF IInv, TypeOK
  <2>2. UNCHANGED <<ref, proxy, ctrl>> /\ (UNCHANGED thr \/ notify_all(i))
    <3>1. CASE ControlStep(i)
      BY <1>2, <3>1 DEF ControlStep, connected_cb, Send, Push, UnexpectedReply, AssertionFails,
         authenticate_cb, bootstrap_phase_cb, NotifyPhase, Decide, socks_cb, NotifySocks, stopped_cb,
         EndOfStream, disconnected_cb
    <3>2. CASE TorStep(i) \/ TorBoots(i) \/ TorDies(i)
      BY <1>2, <3>2 DEF TorStep, TorUp, TorAnswers, TorHalts, TorRefuses, TorBoots, TorDies
    <3> QED BY <3>1, <3>2
  <2>3. \A j \in Impls : /\ imp'[j].own = imp[j].own
                         /\ imp[j].socks5 # None => imp'[j].socks5 = imp[j].socks5
    <3>1. CASE connected_cb(i)
      BY <2>1, <3>1 DEF connected_cb, GoOnWith, ImplType
    <3>2. CASE Send(i) BY <2>1, <3>2 DEF Send, ImplType
    <3>3. CASE Push(i) BY <2>1, <3>3 DEF Push, ImplType
    <3>4. CASE UnexpectedReply(i) BY <2>1, <3>4 DEF UnexpectedReply, Read, ImplType
    <3>5. CASE \E h \in {"PROTOCOLINFO", "AUTHCHALLENGE", "AUTHENTICATE"} : authenticate_cb(i, h)
      BY <2>1, <3>5 DEF authenticate_cb, GoOnWith, ImplType
    <3>6. CASE bootstrap_phase_cb(i) BY <2>1, <3>6 DEF bootstrap_phase_cb, Read, ImplType
    <3>7. CASE NotifyPhase(i) BY <2>1, <3>7 DEF NotifyPhase, ImplType
    <3>8. CASE Decide(i) BY <2>1, <3>8 DEF Decide, GoOnWith, ImplType
    <3>9. CASE socks_cb(i)
      <4> DEFINE y == [Popped(i) EXCEPT !.socks5 = Reply(i).val]
      <4>1. PICK p \in Ports \cup {None} : Honest(imp[i], tor[i], Port(i), p) BY DEF IInv, DataInv
      <4>2. Reads(i) /\ Asserts("SOCKS", Reply(i)) BY <3>9 DEF socks_cb, Handles
      <4>3. Reply(i) \in GoodReplies(tor[i], p) BY <4>1, <4>2, ReadsGood
      <4>4. Reply(i).val = p BY <4>2, <4>3 DEF Asserts, GoodReplies
      <4>5. imp' = [imp EXCEPT ![i] = y] BY <3>9 DEF socks_cb
      <4>6. y.own = imp[i].own /\ y.socks5 = p BY <2>1, <4>4 DEF ImplType, Popped, Read
      <4> HIDE DEF y
      <4>7. imp[i].socks5 \in {None, p} BY <4>1 DEF Honest
      <4> QED BY <2>1, <4>5, <4>6, <4>7
    <3>10. CASE stopped_cb(i) BY <2>1, <3>10 DEF stopped_cb, Popped, Read, ImplType
    <3>11. CASE EndOfStream(i) BY <2>1, <3>11 DEF EndOfStream, ImplType
    <3>12. CASE disconnected_cb(i)
      <4>1. imp' = [imp EXCEPT ![i].conn = "null", ![i].ctl = "ended"]
        BY <1>2, <3>12 DEF disconnected_cb
      <4> QED BY <2>1, <4>1 DEF ImplType
    <3>13. CASE TorUp(i) \/ TorBoots(i)
      <4>1. imp' = imp BY <1>2, <3>13 DEF TorUp, TorBoots
      <4> QED BY <4>1
    <3>14. CASE TorAnswers(i) BY <2>1, <3>14 DEF TorAnswers, Replied, ImplType
    <3>15. CASE TorHalts(i) BY <2>1, <3>15 DEF TorHalts, Replied, ImplType
    <3>16. CASE TorRefuses(i) BY <2>1, <3>16 DEF TorRefuses, Replied, ImplType
    <3>17. CASE TorDies(i) BY <2>1, <3>17 DEF TorDies, ImplType
    <3> QED
      BY <1>2, <3>1, <3>2, <3>3, <3>4, <3>5, <3>6, <3>7, <3>8, <3>9, <3>10, <3>11, <3>12, <3>13,
         <3>14, <3>15, <3>16, <3>17 DEF ControlStep, TorStep, AssertionFails
  <2>6. \A u \in Sessions : Stops(thr'[u]) => Stops(thr[u]) /\ thr'[u].i = thr[u].i
    BY <2>1, <2>2 DEF notify_all, TypeOK, CallType, Stops
  <2> QED BY <2>1, <2>2, <2>3, <2>6, ProxyFrame
<1> QED BY <1>1, <1>2

LEMMA AnswerStops ==
  ASSUME thr \in [Sessions -> CallType], NEW s \in Sessions, NEW port, Answer(s, port)
  PROVE  \A u \in Sessions : Stops(thr'[u]) => Stops(thr[u]) /\ thr'[u].i = thr[u].i
<1> DEFINE c == [NoCall EXCEPT !.pc = "lock", !.why = "wakeup"]
<1>1. thr' = [thr EXCEPT ![s] = NoCall] \/ thr' = [thr EXCEPT ![s] = c] BY DEF Answer, Finish
<1>2. ~Stops(c) BY DEF NoCall, Stops
<1>3. ~Stops(NoCall) BY NoCallInactive DEF Stops
<1> HIDE DEF c
<1> QED BY <1>1, <1>2, <1>3

\* A call goes on, and only an address that was told is stored
LEMMA StepsProxy ==
  ASSUME IInv, ProxyInv, NEW s \in Sessions,
         \/ \E why \in Calls : Call(s, why)
         \/ StartWait(s) \/ Wakes(s) \/ Halt(s) \/ PushStopped(s),
         UNCHANGED proxy
  PROVE  ProxyInv'
<1>1. TypeOK /\ thr[s] \in CallType /\ thr \in [Sessions -> CallType] /\ imp \in [Impls -> ImplType]
      /\ ctrl \in [Ctrls -> CtrlType]
  BY DEF IInv, TypeOK
<1>2. UNCHANGED ref BY DEF Call, StartWait, Wakes, Halt, PushStopped
<1>3. \A k \in Ctrls : /\ ctrl'[k].m_socks5_port = ctrl[k].m_socks5_port
                       /\ ctrl'[k].forgot <=> ctrl[k].forgot
  <2>1. CASE UNCHANGED ctrl BY <2>1
  <2>2. CASE \E k : ctrl' = [ctrl EXCEPT ![k].lock = s] BY <1>1, <2>2 DEF CtrlType
  <2> QED BY <2>1, <2>2 DEF Call, StartWait, Wakes, Halt, PushStopped
<1>4. \A i \in Impls : imp'[i].own = imp[i].own /\ imp'[i].socks5 = imp[i].socks5
  <2>1. CASE UNCHANGED imp BY <2>1
  <2>2. CASE \E o : imp' = [imp EXCEPT ![thr[s].i].out = o] BY <1>1, <2>2 DEF ImplType
  <2>3. CASE PushStopped(s) BY <1>1, <2>3 DEF PushStopped, ImplType
  <2> QED BY <2>1, <2>2, <2>3 DEF Call, StartWait, Wakes, Halt
<1>5. \A u \in Sessions : Stops(thr'[u]) => Stops(thr[u]) /\ thr'[u].i = thr[u].i
  <2>1. CASE \E why \in Calls : Call(s, why) BY <1>1, <2>1 DEF Call, CallType, Stops
  <2>2. CASE StartWait(s)
    <3>1. CASE \E port : Answer(s, port)
      BY <1>1, <3>1, AnswerStops
    <3>2. CASE ~\E port : Answer(s, port)
      <4>1. thr' = [thr EXCEPT ![s].pc = "look", ![s].i = ctrl[ref[s]].m_ctrl]
        BY <2>2, <3>2 DEF StartWait
      <4> QED BY <1>1, <4>1 DEF CallType, Stops
    <3> QED BY <3>1, <3>2
  <2>3. CASE Wakes(s) BY <1>1, <2>3 DEF Wakes, Goto, CallType, Stops
  <2>4. CASE Halt(s) BY <1>1, <2>4 DEF Halt, Goto, CallType, Stops
  <2>5. CASE PushStopped(s) BY <1>1, <2>5 DEF PushStopped, Goto, CallType, Stops
  <2> QED BY <2>1, <2>2, <2>3, <2>4, <2>5
<1> QED BY <1>1, <1>2, <1>3, <1>4, <1>5, ProxyFrame

\* The caller of wait_for_socks5 is given no address, or that of the impl whose
\* mutex it holds
LEMMA AnswerProxy ==
  ASSUME IInv, ProxyInv, NEW s \in Sessions, ref[s] # None, NEW port, Answer(s, port),
         port = None \/ (Waits(thr[s]) /\ port = imp[thr[s].i].socks5),
         UNCHANGED <<ref, imp>>,
         \A k \in Ctrls : /\ ctrl'[k].m_socks5_port = ctrl[k].m_socks5_port
                          /\ ctrl'[k].forgot <=> ctrl[k].forgot
  PROVE  ProxyInv'
<1>1. TypeOK /\ thr \in [Sessions -> CallType] BY DEF IInv, TypeOK
<1>2. \A u \in Sessions : Stops(thr'[u]) => Stops(thr[u]) /\ thr'[u].i = thr[u].i
  BY <1>1, AnswerStops
<1>3. \A u \in Sessions : proxy'[u] = proxy[u] \/ (u = s /\ proxy'[u] = port)
  BY <1>1 DEF Answer, TypeOK
<1> SUFFICES ASSUME NEW u \in Sessions
             PROVE  /\ ref'[u] = None => proxy'[u] = None
                    /\ Known(u)' => \/ ctrl'[ref'[u]].m_socks5_port = proxy'[u]
                                    \/ \E i \in Impls : Told(i, u)'
  BY DEF ProxyInv
<1>4. ref'[u] = None => proxy'[u] = None BY <1>3 DEF ProxyInv
<1>5. ASSUME Known(u)'
      PROVE  ctrl'[ref'[u]].m_socks5_port = proxy'[u] \/ \E i \in Impls : Told(i, u)'
  <2>1. ref[u] \in Ctrls /\ ref'[u] = ref[u] /\ ~ctrl[ref[u]].forgot /\ proxy'[u] # None
    BY <1>1, <1>5 DEF Known, TypeOK
  <2>2. CASE proxy'[u] = proxy[u]
    <3>1. Known(u) BY <2>1, <2>2, NoneAssumption DEF Known
    <3>2. CASE ctrl[ref[u]].m_socks5_port = proxy[u] BY <2>1, <2>2, <3>2
    <3>3. CASE \E i \in Impls : Told(i, u) BY <1>2, <2>1, <2>2, <3>3 DEF Told
    <3> QED BY <3>1, <3>2, <3>3 DEF ProxyInv
  <2>3. CASE u = s /\ proxy'[u] = port
    <3>1. Waits(thr[s]) /\ port = imp[thr[s].i].socks5 BY <2>1, <2>3
    <3>2. Active(thr[s]) /\ ~Stops(thr[s]) /\ Locked(thr[s]) BY <3>1 DEF Active, Waits, Stops, Locked
    <3>3. thr[s].i \in Impls /\ imp[thr[s].i].own = ref[s] BY <3>2 DEF IInv, ThreadsInv, ThreadInv
    <3>4. \A v \in Sessions : Stops(thr[v]) => thr[v].i # thr[s].i
      BY <3>2 DEF IInv, ThreadsInv, Active
    <3>5. PICK i \in Impls : i = thr[s].i BY <3>3
    <3>6. \A v \in Sessions : ~(Stops(thr'[v]) /\ thr'[v].i = i) BY <1>2, <3>4, <3>5
    <3>7. Told(i, u)' BY <2>1, <2>3, <3>1, <3>3, <3>5, <3>6 DEF Told
    <3> QED BY <3>7
  <2> QED BY <1>3, <2>2, <2>3
<1> QED BY <1>4, <1>5

LEMMA WaitProxy ==
  ASSUME IInv, ProxyInv, NEW s \in Sessions, StartWait(s) \/ Look(s) \/ TimesOut(s)
  PROVE  ProxyInv'
<1>1. TypeOK /\ thr \in [Sessions -> CallType] /\ ctrl \in [Ctrls -> CtrlType] /\ thr[s] \in CallType
      /\ UNCHANGED <<ref, imp>>
  BY DEF IInv, TypeOK, StartWait, Look, TimesOut
<1>2. ref[s] # None
  <2>1. CASE StartWait(s) BY <2>1 DEF StartWait, IInv, ThreadsInv, ThreadInv
  <2>2. CASE Waits(thr[s]) BY <2>2 DEF IInv, ThreadsInv, ThreadInv, Active, Locked
  <2> QED BY <2>1, <2>2 DEF Look, TimesOut, Waits
<1>3. CASE StartWait(s)
  <2>1. CASE Answer(s, None) /\ UNCHANGED ctrl BY <1>1, <1>2, <2>1, AnswerProxy
  <2>2. CASE UNCHANGED proxy BY <1>3, <2>2, StepsProxy
  <2> QED BY <1>3, <2>1, <2>2 DEF StartWait
<1>4. CASE Look(s) \/ TimesOut(s)
  <2>1. Waits(thr[s]) BY <1>4 DEF Look, TimesOut, Waits
  <2>2. \A k \in Ctrls : /\ ctrl'[k].m_socks5_port = ctrl[k].m_socks5_port
                         /\ ctrl'[k].forgot <=> ctrl[k].forgot
    <3>1. CASE UNCHANGED ctrl BY <3>1
    <3>2. CASE \E k : ctrl' = [ctrl EXCEPT ![k].lock = None] BY <1>1, <3>2 DEF CtrlType
    <3> QED BY <1>4, <3>1, <3>2 DEF Look, TimesOut
  <2>3. CASE Answer(s, imp[thr[s].i].socks5) BY <1>1, <1>2, <2>1, <2>2, <2>3, AnswerProxy
  <2>4. CASE ~Answer(s, imp[thr[s].i].socks5)
    <3>1. /\ thr' = [thr EXCEPT ![s].pc = "blocked", ![s].last = imp[thr[s].i].progress,
                                ![s].notified = FALSE]
          /\ UNCHANGED <<proxy, ctrl>>
      BY <1>4, <2>4 DEF Look, TimesOut
    <3>2. \A u \in Sessions : Stops(thr'[u]) => Stops(thr[u]) /\ thr'[u].i = thr[u].i
      BY <1>1, <3>1 DEF CallType, Stops
    <3> QED BY <1>1, <3>1, <3>2, ProxyFrame
  <2> QED BY <2>3, <2>4
<1> QED BY <1>3, <1>4

\* sleep takes the address from the impl before it destroys it
LEMMA sleepProxy == ASSUME IInv, ProxyInv, NEW s \in Sessions, sleep(s) PROVE ProxyInv'
<1>1. TypeOK /\ thr \in [Sessions -> CallType] /\ ctrl \in [Ctrls -> CtrlType]
      /\ imp \in [Impls -> ImplType] /\ UNCHANGED <<ref, proxy>> /\ thr[s] \in CallType
  BY DEF IInv, TypeOK, sleep
<1>2. PICK k \in Ctrls : k = ref[s] BY DEF sleep, IInv, TypeOK, ThreadsInv, ThreadInv
<1>3. CASE ctrl[k].m_ctrl = None
  <2>1. thr' = [thr EXCEPT ![s] = NoCall] /\ UNCHANGED <<ctrl, imp>> BY <1>2, <1>3 DEF sleep, Finish
  <2>2. \A u \in Sessions : Stops(thr'[u]) => Stops(thr[u]) /\ thr'[u].i = thr[u].i
    BY <1>1, <2>1, NoCallInactive DEF Stops
  <2> QED BY <1>1, <2>1, <2>2, ProxyFrame
<1>4. CASE ctrl[k].m_ctrl # None
  <2>1. PICK i \in Impls : i = ctrl[k].m_ctrl /\ imp[i].own = k
    BY <1>1, <1>4 DEF CtrlType, IInv, OwnersInv
  <2>2. /\ ctrl' = [ctrl EXCEPT ![k].lock = s, ![k].m_socks5_port = imp[i].socks5,
                       ![k].forgot = @ \/ (ctrl[k].m_socks5_port # None /\ imp[i].socks5 = None)]
        /\ Stopping(i) /\ thr' = [thr EXCEPT ![s].pc = "halt", ![s].i = i]
    BY <1>2, <1>4, <2>1 DEF sleep
  <2>3. \A j \in Impls : imp'[j].own = imp[j].own /\ imp'[j].socks5 = imp[j].socks5
    BY <1>1, <2>2 DEF Stopping, ImplType
  <2>4. \A u \in Sessions : Stops(thr'[u]) => \/ Stops(thr[u]) /\ thr'[u].i = thr[u].i
                                              \/ thr'[u].i = i
    BY <1>1, <2>2 DEF CallType, Stops
  <2>5. \A l \in Ctrls : l # k => ctrl'[l] = ctrl[l] BY <1>1, <2>2
  <2>6. /\ ctrl'[k].m_socks5_port = imp[i].socks5
        /\ ~ctrl'[k].forgot => /\ ~ctrl[k].forgot
                               /\ ctrl[k].m_socks5_port = None \/ imp[i].socks5 # None
    BY <1>1, <2>2 DEF CtrlType
  <2> SUFFICES ASSUME NEW u \in Sessions
               PROVE  /\ ref'[u] = None => proxy'[u] = None
                      /\ Known(u)' => \/ ctrl'[ref'[u]].m_socks5_port = proxy'[u]
                                      \/ \E j \in Impls : Told(j, u)'
    BY DEF ProxyInv
  <2>7. ref'[u] = None => proxy'[u] = None BY <1>1 DEF ProxyInv
  <2>8. ASSUME Known(u)'
        PROVE  ctrl'[ref'[u]].m_socks5_port = proxy'[u] \/ \E j \in Impls : Told(j, u)'
    <3>1. ref'[u] = ref[u] /\ proxy'[u] = proxy[u] /\ ref[u] \in Ctrls BY <1>1, <2>8 DEF Known, TypeOK
    <3>2. CASE ref[u] # k
      <4>1. Known(u) BY <1>1, <2>5, <2>8, <3>1, <3>2 DEF Known
      <4>2. CASE ctrl[ref[u]].m_socks5_port = proxy[u] BY <2>5, <3>1, <3>2, <4>2
      <4>3. CASE \E j \in Impls : Told(j, u)
        <5>1. PICK j \in Impls : Told(j, u) BY <4>3
        <5>2. j # i BY <2>1, <3>2, <5>1 DEF Told
        <5>3. Told(j, u)' BY <2>3, <2>4, <3>1, <5>1, <5>2 DEF Told
        <5> QED BY <5>3
      <4> QED BY <4>1, <4>2, <4>3 DEF ProxyInv
    <3>3. CASE ref[u] = k
      <4>1. Known(u) BY <1>1, <2>6, <2>8, <3>1, <3>3 DEF Known
      <4>2. ctrl[k].m_socks5_port = None \/ imp[i].socks5 # None BY <2>6, <2>8, <3>1, <3>3 DEF Known
      <4>3. PICK p \in Ports \cup {None} : Honest(imp[i], tor[i], Port(i), p) BY DEF IInv, DataInv
      <4>4. Port(i) = ctrl[k].m_socks5_port BY <2>1, NoneAssumption DEF Port
      <4>5. imp[i].socks5 \in {None, p} /\ ctrl[k].m_socks5_port \in {None, p} BY <4>3, <4>4 DEF Honest
      <4>6. CASE ctrl[k].m_socks5_port = proxy[u]
        <5>1. imp[i].socks5 = proxy[u] BY <4>1, <4>2, <4>5, <4>6 DEF Known
        <5> QED BY <2>6, <3>1, <3>3, <5>1
      <4>7. CASE \E j \in Impls : Told(j, u)
        <5>1. PICK j \in Impls : Told(j, u) BY <4>7
        <5>2. j = i BY <2>1, <3>3, <5>1, NoneAssumption DEF Told, IInv, OwnersInv
        <5> QED BY <2>6, <3>1, <3>3, <5>1, <5>2 DEF Told
      <4> QED BY <3>3, <4>1, <4>6, <4>7 DEF ProxyInv
    <3> QED BY <3>2, <3>3
  <2> QED BY <2>7, <2>8
<1> QED BY <1>3, <1>4

LEMMA JoinedProxy == ASSUME IInv, ProxyInv, NEW s \in Sessions, Joined(s) PROVE ProxyInv'
<1>1. TypeOK /\ thr \in [Sessions -> CallType] /\ ctrl \in [Ctrls -> CtrlType]
      /\ imp \in [Impls -> ImplType] /\ UNCHANGED <<ref, proxy>> /\ ThreadInv(s)
  BY DEF IInv, TypeOK, Joined, ThreadsInv
<1>2. Stops(thr[s]) /\ Active(thr[s]) BY DEF Joined, Stops, Active
<1>3. PICK i \in Impls : i = thr[s].i BY <1>1, <1>2 DEF ThreadInv
<1>4. /\ ctrl' = [ctrl EXCEPT ![imp[i].own].m_ctrl = None, ![imp[i].own].lock = None]
      /\ imp' = [imp EXCEPT ![i] = NewImpl(None)] /\ thr' = [thr EXCEPT ![s] = NoCall]
  BY <1>3 DEF Joined, Finish
<1>5. \A k \in Ctrls : /\ ctrl'[k].m_socks5_port = ctrl[k].m_socks5_port
                       /\ ctrl'[k].forgot <=> ctrl[k].forgot
  BY <1>1, <1>4 DEF CtrlType
<1>6. \A u \in Sessions : Stops(thr'[u]) => Stops(thr[u]) /\ thr'[u].i = thr[u].i
  BY <1>1, <1>4, NoCallInactive DEF Stops
<1> SUFFICES ASSUME NEW u \in Sessions
             PROVE  /\ ref'[u] = None => proxy'[u] = None
                    /\ Known(u)' => \/ ctrl'[ref'[u]].m_socks5_port = proxy'[u]
                                    \/ \E j \in Impls : Told(j, u)'
  BY DEF ProxyInv
<1>7. ref'[u] = None => proxy'[u] = None BY <1>1 DEF ProxyInv
<1>8. ASSUME Known(u)'
      PROVE  ctrl'[ref'[u]].m_socks5_port = proxy'[u] \/ \E j \in Impls : Told(j, u)'
  <2>1. ref'[u] = ref[u] /\ proxy'[u] = proxy[u] /\ ref[u] \in Ctrls BY <1>1, <1>8 DEF Known, TypeOK
  <2>2. Known(u) BY <1>5, <1>8, <2>1 DEF Known
  <2>3. CASE ctrl[ref[u]].m_socks5_port = proxy[u] BY <1>5, <2>1, <2>3
  <2>4. CASE \E j \in Impls : Told(j, u)
    <3>1. PICK j \in Impls : Told(j, u) BY <2>4
    <3>2. j # i BY <1>2, <1>3, <3>1 DEF Told
    <3>3. imp'[j] = imp[j] BY <1>1, <1>4, <3>2
    <3>4. Told(j, u)' BY <1>6, <2>1, <3>1, <3>3 DEF Told
    <3> QED BY <3>4
  <2> QED BY <2>2, <2>3, <2>4 DEF ProxyInv
<1> QED BY <1>7, <1>8

\* A new impl is of a new controller, or of one whose port is kept
LEMMA StartsProxy ==
  ASSUME IInv, ProxyInv, NEW s \in Sessions, NEW k \in Ctrls, NEW c \in CtrlType, StartImpl(s, k, c),
         UNCHANGED <<ref, proxy>>,
         ~Referenced(k) \/ (c.m_socks5_port = ctrl[k].m_socks5_port /\ (c.forgot <=> ctrl[k].forgot))
  PROVE  ProxyInv'
<1>1. TypeOK /\ thr \in [Sessions -> CallType] /\ ctrl \in [Ctrls -> CtrlType]
      /\ imp \in [Impls -> ImplType]
  BY DEF IInv, TypeOK
<1>2. PICK i \in Impls : /\ imp[i].own = None /\ imp' = [imp EXCEPT ![i] = NewImpl(k)]
                         /\ ctrl' = [ctrl EXCEPT ![k] = [c EXCEPT !.m_ctrl = i]]
                         /\ thr' = [thr EXCEPT ![s].pc = "ctor", ![s].i = i]
  <2>1. PICK i \in Impls : i = (CHOOSE j \in Impls : Unused(j)) /\ Unused(i) BY DEF StartImpl
  <2> QED BY <2>1 DEF StartImpl, Unused
<1>3. \A u \in Sessions : Stops(thr'[u]) => Stops(thr[u]) /\ thr'[u].i = thr[u].i
  BY <1>1, <1>2 DEF CallType, Stops
<1>4. \A l \in Ctrls : Referenced(l) => /\ ctrl'[l].m_socks5_port = ctrl[l].m_socks5_port
                                        /\ ctrl'[l].forgot <=> ctrl[l].forgot
  BY <1>1, <1>2 DEF CtrlType
<1> SUFFICES ASSUME NEW u \in Sessions
             PROVE  /\ ref'[u] = None => proxy'[u] = None
                    /\ Known(u)' => \/ ctrl'[ref'[u]].m_socks5_port = proxy'[u]
                                    \/ \E j \in Impls : Told(j, u)'
  BY DEF ProxyInv
<1>7. ref'[u] = None => proxy'[u] = None BY DEF ProxyInv
<1>8. ASSUME Known(u)'
      PROVE  ctrl'[ref'[u]].m_socks5_port = proxy'[u] \/ \E j \in Impls : Told(j, u)'
  <2>1. ref'[u] = ref[u] /\ proxy'[u] = proxy[u] /\ ref[u] \in Ctrls /\ Referenced(ref[u])
    BY <1>1, <1>8 DEF Known, TypeOK, Referenced
  <2>2. Known(u) BY <1>4, <1>8, <2>1 DEF Known
  <2>3. CASE ctrl[ref[u]].m_socks5_port = proxy[u] BY <1>4, <2>1, <2>3
  <2>4. CASE \E j \in Impls : Told(j, u)
    <3>1. PICK j \in Impls : Told(j, u) BY <2>4
    <3>2. j # i BY <1>2, <2>1, <3>1, NoneAssumption DEF Told
    <3>3. imp'[j] = imp[j] BY <1>1, <1>2, <3>2
    <3>4. Told(j, u)' BY <1>3, <2>1, <3>1, <3>3 DEF Told
    <3> QED BY <3>4
  <2> QED BY <2>2, <2>3, <2>4 DEF ProxyInv
<1> QED BY <1>7, <1>8

\* The controller that is found is the one the session has, if it has one
LEMMA FoundProxy ==
  ASSUME IInv, ProxyInv, NEW s \in Sessions, NEW k \in Ctrls, Referenced(k),
         thr[s].pc = "ref", ref' = [ref EXCEPT ![s] = k], Goto(s, "lock"),
         UNCHANGED <<proxy, ctrl, imp>>
  PROVE  ProxyInv'
<1>1. TypeOK /\ thr \in [Sessions -> CallType] BY DEF IInv, TypeOK
<1>2. \A u \in Sessions : Stops(thr'[u]) => Stops(thr[u]) /\ thr'[u].i = thr[u].i
  BY <1>1 DEF Goto, CallType, Stops
<1>3. \A u \in Sessions : ref'[u] = ref[u] \/ (ref[u] = None /\ ref'[u] = k)
  <2>1. ref[s] # None => ref[s] = k
    <3>1. ref[s] # None => ref[s] \in Ctrls /\ Referenced(ref[s]) BY <1>1 DEF TypeOK, Referenced
    <3> QED BY <3>1 DEF IInv, OwnersInv, Owned
  <2> QED BY <1>1, <2>1 DEF TypeOK
<1> SUFFICES ASSUME NEW u \in Sessions
             PROVE  /\ ref'[u] = None => proxy'[u] = None
                    /\ Known(u)' => \/ ctrl'[ref'[u]].m_socks5_port = proxy'[u]
                                    \/ \E j \in Impls : Told(j, u)'
  BY DEF ProxyInv
<1>4. ref'[u] = None => proxy'[u] = None BY <1>3, NoneAssumption DEF ProxyInv
<1>5. ASSUME Known(u)'
      PROVE  ctrl'[ref'[u]].m_socks5_port = proxy'[u] \/ \E j \in Impls : Told(j, u)'
  <2>1. ref'[u] = ref[u] /\ Known(u) BY <1>3, <1>5 DEF Known, ProxyInv
  <2>2. CASE ctrl[ref[u]].m_socks5_port = proxy[u] BY <2>1, <2>2
  <2>3. CASE \E j \in Impls : Told(j, u) BY <1>2, <2>1, <2>3 DEF Told
  <2> QED BY <2>1, <2>2, <2>3 DEF ProxyInv
<1> QED BY <1>4, <1>5

LEMMA get_shared_refProxy ==
  ASSUME IInv, ProxyInv, NEW s \in Sessions, get_shared_ref(s) PROVE ProxyInv'
<1>1. CASE \E k \in Ctrls : Referenced(k) /\ ref' = [ref EXCEPT ![s] = k] /\ Goto(s, "lock")
                            /\ UNCHANGED <<s_inst_mutex, ctrl, imp, tor>>
  BY <1>1, FoundProxy DEF get_shared_ref
<1>2. CASE /\ ~\E k \in Ctrls : Referenced(k)
           /\ \E k \in Ctrls : ctrl[k].m_ctrl = None
           /\ StartImpl(s, CHOOSE k \in Ctrls : ctrl[k].m_ctrl = None, NewCtrl)
           /\ ref' = ref
  <2>1. PICK k \in Ctrls : StartImpl(s, k, NewCtrl) BY <1>2
  <2>2. UNCHANGED <<ref, proxy>> BY <1>2 DEF get_shared_ref
  <2> QED BY <1>2, <2>1, <2>2, NewTypes, StartsProxy
<1> QED BY <1>1, <1>2 DEF get_shared_ref

LEMMA wakeupProxy == ASSUME IInv, ProxyInv, NEW s \in Sessions, wakeup(s) PROVE ProxyInv'
<1>1. TypeOK /\ thr \in [Sessions -> CallType] /\ ctrl \in [Ctrls -> CtrlType] /\ UNCHANGED <<ref, proxy>>
  BY DEF IInv, TypeOK, wakeup
<1>2. PICK k \in Ctrls : k = ref[s] BY DEF wakeup, IInv, TypeOK, ThreadsInv, ThreadInv
<1>3. CASE ctrl[k].m_ctrl # None
  <2>1. thr' = [thr EXCEPT ![s] = NoCall] /\ UNCHANGED <<ctrl, imp>> BY <1>2, <1>3 DEF wakeup, Finish
  <2>2. \A u \in Sessions : Stops(thr'[u]) => Stops(thr[u]) /\ thr'[u].i = thr[u].i
    BY <1>1, <2>1, NoCallInactive DEF Stops
  <2> QED BY <1>1, <2>1, <2>2, ProxyFrame
<1>4. CASE ctrl[k].m_ctrl = None
  <2> DEFINE c == [ctrl[k] EXCEPT !.lock = s]
  <2>1. StartImpl(s, k, c) BY <1>2, <1>4 DEF wakeup
  <2>2. c \in CtrlType /\ c.m_socks5_port = ctrl[k].m_socks5_port /\ (c.forgot <=> ctrl[k].forgot)
    BY <1>1 DEF CtrlType
  <2> HIDE DEF c
  <2> QED BY <1>1, <2>1, <2>2, StartsProxy
<1> QED BY <1>3, <1>4

LEMMA ConstructedProxy == ASSUME IInv, ProxyInv, NEW s \in Sessions, Constructed(s) PROVE ProxyInv'
<1>1. TypeOK /\ thr \in [Sessions -> CallType] /\ ctrl \in [Ctrls -> CtrlType]
      /\ imp \in [Impls -> ImplType] /\ UNCHANGED proxy /\ ThreadInv(s)
  BY DEF IInv, TypeOK, Constructed, ThreadsInv
<1>2. CASE thr[s].why = "connect" /\ ref' = [ref EXCEPT ![s] = imp[thr[s].i].own]
  <2>1. s_inst_mutex = s BY <1>1, <1>2 DEF Constructed, ThreadInv
  <2>2. \A u \in Sessions : proxy'[u] = None
    BY <1>1, <2>1, NoneAssumption DEF IInv, ThreadsInv, ProxyInv
  <2> QED BY <2>2 DEF ProxyInv, Known
<1>3. CASE /\ ctrl' = [ctrl EXCEPT ![imp[thr[s].i].own].lock = None]
           /\ thr' = [thr EXCEPT ![s] = NoCall] /\ ref' = ref
  <2>1. \A u \in Sessions : Stops(thr'[u]) => Stops(thr[u]) /\ thr'[u].i = thr[u].i
    BY <1>1, <1>3, NoCallInactive DEF Stops
  <2>2. \A k \in Ctrls : /\ ctrl'[k].m_socks5_port = ctrl[k].m_socks5_port
                         /\ ctrl'[k].forgot <=> ctrl[k].forgot
    BY <1>1, <1>3 DEF CtrlType
  <2>3. \A j \in Impls : imp'[j].own = imp[j].own /\ imp'[j].socks5 = imp[j].socks5
    BY <1>1 DEF Constructed, ImplType
  <2> QED BY <1>1, <1>3, <2>1, <2>2, <2>3, ProxyFrame
<1> QED BY <1>2, <1>3 DEF Constructed, Finish

\* Nobody else knows the controller whose impl goes with a session
LEMMA DestroyProxy == ASSUME IInv, ProxyInv, NEW s \in Sessions, Destroy(s) PROVE ProxyInv'
<1>1. TypeOK /\ thr \in [Sessions -> CallType] /\ ctrl \in [Ctrls -> CtrlType]
      /\ imp \in [Impls -> ImplType] /\ UNCHANGED ctrl
  BY DEF IInv, TypeOK, Destroy
<1>2. PICK k \in Ctrls : k = ref[s] BY DEF Destroy, IInv, TypeOK
<1>3. \A u \in Sessions : /\ ref'[u] = IF u = s THEN None ELSE ref[u]
                          /\ proxy'[u] = IF u = s THEN None ELSE proxy[u]
  BY <1>1 DEF Destroy, TypeOK
<1>4. \A j \in Impls : imp'[j].own = imp[j].own /\ imp'[j].socks5 = imp[j].socks5
  <2>1. CASE UNCHANGED imp BY <2>1
  <2>2. CASE \E i : Stopping(i) BY <1>1, <2>2 DEF Stopping, ImplType
  <2> QED BY <2>1, <2>2 DEF Destroy
<1>5. \A v \in Sessions : Stops(thr'[v]) =>
          \/ Stops(thr[v]) /\ thr'[v].i = thr[v].i
          \/ /\ thr'[v].i = ctrl[k].m_ctrl /\ ctrl[k].m_ctrl # None
             /\ \A r \in Sessions \ {s} : ref[r] # k
  <2>1. CASE UNCHANGED thr BY <2>1
  <2>2. CASE ~UNCHANGED thr
    <3>1. /\ thr' = [thr EXCEPT ![s].pc = "halt", ![s].why = "destroy", ![s].i = ctrl[k].m_ctrl]
          /\ ctrl[k].m_ctrl # None /\ \A r \in Sessions \ {s} : ref[r] # k
      BY <1>2, <2>2 DEF Destroy
    <3> QED BY <1>1, <3>1 DEF CallType
  <2> QED BY <2>1, <2>2
<1> SUFFICES ASSUME NEW u \in Sessions
             PROVE  /\ ref'[u] = None => proxy'[u] = None
                    /\ Known(u)' => \/ ctrl'[ref'[u]].m_socks5_port = proxy'[u]
                                    \/ \E j \in Impls : Told(j, u)'
  BY DEF ProxyInv
<1>6. ref'[u] = None => proxy'[u] = None BY <1>3 DEF ProxyInv
<1>7. ASSUME Known(u)'
      PROVE  ctrl'[ref'[u]].m_socks5_port = proxy'[u] \/ \E j \in Impls : Told(j, u)'
  <2>1. u # s /\ ref'[u] = ref[u] /\ proxy'[u] = proxy[u] /\ ref[u] # None BY <1>3, <1>7 DEF Known
  <2>2. Known(u) BY <1>1, <1>7, <2>1 DEF Known
  <2>3. CASE ctrl[ref[u]].m_socks5_port = proxy[u] BY <1>1, <2>1, <2>3
  <2>4. CASE \E j \in Impls : Told(j, u)
    <3>1. PICK j \in Impls : Told(j, u) BY <2>4
    <3>2. \A v \in Sessions : ~(Stops(thr'[v]) /\ thr'[v].i = j)
      <4> SUFFICES ASSUME NEW v \in Sessions, Stops(thr'[v]), thr'[v].i = j PROVE FALSE OBVIOUS
      <4>1. ~(Stops(thr[v]) /\ thr'[v].i = thr[v].i) BY <3>1 DEF Told
      <4>2. j = ctrl[k].m_ctrl /\ ctrl[k].m_ctrl # None /\ ref[u] # k BY <1>5, <2>1, <4>1
      <4>3. imp[j].own = k BY <4>2 DEF IInv, OwnersInv
      <4> QED BY <3>1, <4>2, <4>3 DEF Told
    <3>3. Told(j, u)' BY <1>4, <2>1, <3>1, <3>2 DEF Told
    <3> QED BY <3>3
  <2> QED BY <2>2, <2>3, <2>4 DEF ProxyInv
<1> QED BY <1>6, <1>7

LEMMA NextProxy == ASSUME IInv, ProxyInv, [Next]_vars PROVE ProxyInv'
<1>1. CASE \E s \in Sessions : CallStep(s) \/ Destroy(s) \/ \E why \in Calls : Call(s, why)
  <2>1. PICK s \in Sessions : CallStep(s) \/ Destroy(s) \/ \E why \in Calls : Call(s, why) BY <1>1
  <2>2. CASE (\E why \in Calls : Call(s, why)) \/ Wakes(s) \/ Halt(s) \/ PushStopped(s)
    <3>1. UNCHANGED proxy BY <2>2 DEF Call, Wakes, Halt, PushStopped
    <3> QED BY <2>2, <3>1, StepsProxy
  <2>3. CASE ConstructionFails(s) \/ HaltOnFreed(s)
    BY <2>3, AbortProxy DEF ConstructionFails, HaltOnFreed
  <2> QED BY <2>1, <2>2, <2>3, WaitProxy, sleepProxy, JoinedProxy, get_shared_refProxy, wakeupProxy,
             ConstructedProxy, DestroyProxy DEF CallStep
<1>2. CASE \E i \in Impls : ControlStep(i) \/ TorStep(i) \/ TorBoots(i) \/ TorDies(i)
  BY <1>2, ImplProxy
<1>3. CASE UNCHANGED vars
  BY <1>3 DEF vars, ProxyInv, Known, Told
<1> QED BY <1>1, <1>2, <1>3 DEF Next

\* The calls have their impls to themselves, every controller its impl, and what
\* is read from a control connection is what the Tor behind it has said
THEOREM Invariance == Spec => []IInv
<1>1. Init => RefInv BY DEF Init, NoCalls, NoCall, RefInv
<1>2. Init => IInv /\ RefInv BY <1>1, InitInv
<1>3. IInv /\ RefInv /\ [Next]_vars => (IInv /\ RefInv)' BY NextInv
<1> QED BY <1>2, <1>3, PTL DEF Spec

\* Every reply reaches a handler that can read it, for any number of sessions and
\* whatever their calls (the handlers of tor_controller_impl)
THEOREM TypeCorrect == Spec => []TypeOK
<1>1. IInv => TypeOK BY DEF IInv
<1> QED BY <1>1, Invariance, PTL

\* Two Tors run at once only while the destructor of a controller that nobody
\* refers to is at work: sleep, wakeup and connect never start a second one
\* next to one that they can reach (~tor_controller_impl, get_shared_ref)
THEOREM OneTorRuns == Spec => []OneTor
<1>1. IInv => OneTor
  <2> SUFFICES ASSUME IInv, NEW i \in Impls, NEW j \in Impls, Running(i), Running(j), i # j
               PROVE  /\ tor[i].own # tor[j].own
                      /\ \E s \in Sessions : Destroying(s, i) \/ Destroying(s, j)
    BY DEF OneTor
  <2>1. /\ imp[i].own = tor[i].own /\ imp[j].own = tor[j].own
        /\ imp[i].own # None /\ imp[j].own # None
    BY DEF IInv, OwnersInv
  <2>2. imp[i].own # imp[j].own BY <2>1 DEF IInv, OwnersInv
  <2>3. imp[i].own \in Ctrls /\ imp[j].own \in Ctrls BY <2>1 DEF IInv, TypeOK, ImplType
  <2>4. ~(Owned(imp[i].own) /\ Owned(imp[j].own)) BY <2>2, <2>3 DEF IInv, OwnersInv
  <2> QED BY <2>1, <2>2, <2>4 DEF IInv, OwnersInv
<1> QED BY <1>1, Invariance, PTL

\* wait_for_socks5 hands out the address where the Tor that runs listens, and
\* only once its circuit is built (bootstrap_phase_cb, socks_cb)
THEOREM LiveAddress == Spec => []SocksLive
<1>1. IInv => SocksLive
  <2> SUFFICES ASSUME IInv, NEW i \in Impls, imp[i].socks5 # None, Running(i)
               PROVE  imp[i].socks5 = tor[i].listen /\ tor[i].boot = Full
    BY DEF SocksLive
  <2>1. PICK p \in Ports \cup {None} : Honest(imp[i], tor[i], Port(i), p) BY DEF IInv, DataInv
  <2>2. tor[i].boot = Full BY <2>1 DEF Honest, Built, Running
  <2>3. tor[i].state = "up" BY <2>1, <2>2, BoundsAssumption DEF Honest, Running
  <2> QED BY <2>1, <2>2, <2>3 DEF Honest
<1> QED BY <1>1, Invariance, PTL

\* Tor listens where the sessions that use it send their traffic, however often
\* it sleeps and wakes up, unless it was put to sleep again before it had told
\* its address (sleep, wakeup, the constructor's SocksPort)
THEOREM PortIsKept == Spec => []PortKept
<1>1. IInv /\ ProxyInv => PortKept
  <2> SUFFICES ASSUME IInv, ProxyInv, NEW s \in Sessions, NEW i \in Impls,
                      proxy[s] # None, ref[s] # None, ~ctrl[ref[s]].forgot,
                      imp[i].own = ref[s], tor[i].state = "up"
               PROVE  tor[i].listen = proxy[s]
    BY DEF PortKept
  <2>1. PICK p \in Ports \cup {None} : Honest(imp[i], tor[i], Port(i), p) BY DEF IInv, DataInv
  <2>2. Port(i) = ctrl[ref[s]].m_socks5_port BY DEF Port
  <2>3. CASE ctrl[ref[s]].m_socks5_port = proxy[s] BY <2>1, <2>2, <2>3 DEF Honest
  <2>4. CASE \E j \in Impls : Told(j, s)
    <3>1. PICK j \in Impls : Told(j, s) BY <2>4
    <3>2. imp[i].socks5 = proxy[s] BY <3>1 DEF Told, IInv, OwnersInv
    <3> QED BY <2>1, <3>2 DEF Honest
  <2> QED BY <2>3, <2>4 DEF ProxyInv, Known
<1>2. Init => ProxyInv
  <2> SUFFICES ASSUME Init PROVE ProxyInv OBVIOUS
  <2>1. \A s \in Sessions : ref[s] = None /\ proxy[s] = None BY DEF Init, NoRefs
  <2> QED BY <2>1 DEF ProxyInv, Known
<1>3. IInv /\ ProxyInv /\ [Next]_vars => ProxyInv' BY NextProxy
<1> QED BY <1>1, <1>2, <1>3, Invariance, PTL DEF Spec

\* No notification of a phase or of the address passes a waiting thread by,
\* though bootstrap_phase_cb notifies after it has released the mutex
THEOREM NoWakeupLost == Spec => []NoLostWakeup
<1>1. IInv => NoLostWakeup BY DEF IInv
<1> QED BY <1>1, Invariance, PTL
=============================================================================
