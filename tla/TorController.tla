--------------------------- MODULE TorController ---------------------------
(***************************************************************************)
(* The Tor that the sessions of a process share (ga_tor.cpp): the          *)
(* tor_controller behind get_shared_ref, which sleep and wakeup make drop  *)
(* and make again its tor_controller_impl; the impl's two threads, the one *)
(* in tor_run_main and the one of the control connection with its chain of *)
(* callbacks; wait_for_socks5 and the destructor that sends HALT and joins *)
(* both; and their callers in ga_session and ga_rust.                      *)
(*                                                                         *)
(* A session stands for the thread that calls it.  A step is one access to *)
(* state that another thread reaches; evbuffer_add and push_back on the    *)
(* deque of handlers, which no mutex protects, are atomic steps here.      *)
(* Once the process has died (an exception leaves a thread, Tor asserts)   *)
(* nothing happens any more.                                               *)
(***************************************************************************)
EXTENDS Integers, Sequences, FiniteSets

CONSTANTS
    Sessions,   \* the sessions that use Tor
    Electrum,   \* those of them that are a ga_rust, not a ga_session
    Ctrls,      \* identities of tor_controller objects
    Impls,      \* identities of tor_controller_impl objects
    Ports,      \* where Tor may listen
    Full,       \* the progress that stands for 100
    MaxEvents,  \* bound: calls of the sessions, and times Tor exits by itself
    None        \* no session, controller, impl or port

ASSUME KindsAssumption == Electrum \subseteq Sessions
ASSUME NoneAssumption == None \notin Sessions \cup Ctrls \cup Impls \cup Ports
ASSUME BoundsAssumption == Full \in Nat \ {0} /\ MaxEvents \in Nat

VARIABLES
    s_inst_mutex,  \* its holder
    ref,           \* m_tor_ctrl of each session
    proxy,         \* m_proxy, or the socks5 of the network parameters
    ctrl,          \* the tor_controller objects
    imp,           \* the tor_controller_impl objects
    tor,           \* external: what runs in m_tor_run_thread
    thr,           \* the calls of the sessions
    events,        \* how many calls were made and Tors exited by themselves
    aborted        \* the process has died

vars == <<s_inst_mutex, ref, proxy, ctrl, imp, tor, thr, events, aborted>>

Calls == {"connect", "query", "sleep", "wakeup", "destroy"}
Commands == {"PROTOCOLINFO", "AUTHCHALLENGE", "AUTHENTICATE", "PHASE", "SOCKS", "HALT"}

\* A tor_controller_impl with its tor_control_connection before connect():
\* conn stands for m_b_conn, out and replies for its buffers and eof for the
\* end of the stream; handlers names a handler by its command; ctl is where the
\* control thread is, and next the command it gives next
NewImpl(k) ==
    [own |-> k, conn |-> "null", out |-> <<>>, replies |-> <<>>, eof |-> FALSE,
     handlers |-> <<>>, ctl |-> "none", next |-> "PROTOCOLINFO",
     stopping |-> FALSE, progress |-> 0, socks5 |-> None]
\* forgot is a history: m_socks5_port was overwritten before Tor had told it again
NewCtrl == [lock |-> None, m_ctrl |-> None, m_socks5_port |-> None, forgot |-> FALSE]
NoTor == [state |-> "none", own |-> None, conf |-> None, boot |-> 0, listen |-> None, authed |-> FALSE]
\* i is the impl of the call, last the progress it has reported (last_progress)
NoCall == [pc |-> "idle", why |-> "query", i |-> None, last |-> Full + 1, notified |-> FALSE]

NoRefs == [s \in Sessions |-> None]
NoCtrls == [k \in Ctrls |-> NewCtrl]
NoImpls == [i \in Impls |-> NewImpl(None)]
NoTors == [i \in Impls |-> NoTor]
NoCalls == [s \in Sessions |-> NoCall]

Init ==
    /\ s_inst_mutex = None /\ ref = NoRefs /\ proxy = NoRefs
    /\ ctrl = NoCtrls /\ imp = NoImpls /\ tor = NoTors /\ thr = NoCalls
    /\ events = 0 /\ aborted = FALSE

\* std::terminate, or Tor's abort(): nothing is left of the process
Abort ==
    /\ aborted' = TRUE
    /\ s_inst_mutex' = None /\ ref' = NoRefs /\ proxy' = NoRefs
    /\ ctrl' = NoCtrls /\ imp' = NoImpls /\ tor' = NoTors /\ thr' = NoCalls
    /\ events' = 0

Running(i) == tor[i].state \in {"starting", "up"}
Goto(s, l) == thr' = [thr EXCEPT ![s].pc = l]
Finish(s) == thr' = [thr EXCEPT ![s] = NoCall]

-----------------------------------------------------------------------------
(* Constructor and destructor of tor_controller_impl                       *)

\* Mutant: Tor chooses a port at each start
AnyPort(port) == None
conf_socks_port(port) == port

Unused(i) == imp[i].own = None /\ ~Running(i)

\* Tor's thread is started, and the constructor waits for the control port;
\* m_ctrl, which nobody else reads meanwhile, is set at once
StartImpl(s, k, c) ==
    LET i == CHOOSE i \in Impls : Unused(i)
    IN  /\ \E j \in Impls : Unused(j)
        /\ tor' = [tor EXCEPT ![i] = [NoTor EXCEPT !.state = "starting", !.own = k,
                                                   !.conf = conf_socks_port(c.m_socks5_port)]]
        /\ imp' = [imp EXCEPT ![i] = NewImpl(k)]
        /\ ctrl' = [ctrl EXCEPT ![k] = [c EXCEPT !.m_ctrl = i]]
        /\ thr' = [thr EXCEPT ![s].pc = "ctor", ![s].i = i]

\* The control port is known: connect, and start the control thread.  The
\* lock of get_shared_ref or of wakeup is released with the constructor's end
Constructed(s) ==
    LET i == thr[s].i
        k == imp[i].own
    IN  /\ thr[s].pc = "ctor" /\ tor[i].state = "up"
        /\ imp' = [imp EXCEPT ![i].conn = "connecting", ![i].ctl = "loop"]
        /\ \/ /\ thr[s].why = "connect"
              /\ s_inst_mutex' = None /\ ref' = [ref EXCEPT ![s] = k]
              /\ Goto(s, "lock")
              /\ UNCHANGED ctrl
           \/ /\ thr[s].why = "wakeup"
              /\ ctrl' = [ctrl EXCEPT ![k].lock = None]
              /\ Finish(s)
              /\ UNCHANGED <<s_inst_mutex, ref>>
        /\ UNCHANGED <<proxy, tor, events, aborted>>

\* No control port after ten attempts, or no connection to it: the assertion
\* unwinds a constructor whose thread is still joinable
ConstructionFails(s) == thr[s].pc = "ctor" /\ Abort

\* The destructor begins: nothing but m_stopping and the phase are its own
Stopping(i) == imp' = [imp EXCEPT ![i].stopping = TRUE, ![i].progress = 0]

\* command("SIGNAL HALT"), if there is a connection
Halt(s) ==
    LET i == thr[s].i
    IN  /\ thr[s].pc = "halt"
        /\ \/ /\ imp[i].conn \in {"connecting", "open"}
              /\ imp' = [imp EXCEPT ![i].out = Append(@, "HALT")]
              /\ Goto(s, "push")
           \/ /\ imp[i].conn = "null"
              /\ Goto(s, "join")
              /\ UNCHANGED imp
        /\ UNCHANGED <<s_inst_mutex, ref, proxy, ctrl, tor, events, aborted>>

\* The control thread has freed the connection and not yet forgotten it: what
\* writing to it does is undefined, and a crash is what the model takes for it
HaltOnFreed(s) ==
    /\ thr[s].pc = "halt" /\ imp[thr[s].i].conn = "freed"
    /\ Abort

PushStopped(s) ==
    /\ thr[s].pc = "push"
    /\ imp' = [imp EXCEPT ![thr[s].i].handlers = Append(@, "HALT")]
    /\ Goto(s, "join")
    /\ UNCHANGED <<s_inst_mutex, ref, proxy, ctrl, tor, events, aborted>>

\* Mutant: only the control thread is joined
ControlEnded(i) == imp[i].ctl = "ended"
ThreadsEnded(i) == imp[i].ctl = "ended" /\ ~Running(i)

\* Both threads are joined; the mutex of sleep is released.  (Nobody holds
\* the one of a controller that is destroyed.)
Joined(s) ==
    LET i == thr[s].i
    IN  /\ thr[s].pc = "join" /\ ThreadsEnded(i)
        /\ ctrl' = [ctrl EXCEPT ![imp[i].own].m_ctrl = None, ![imp[i].own].lock = None]
        /\ imp' = [imp EXCEPT ![i] = NewImpl(None)]
        /\ Finish(s)
        /\ UNCHANGED <<s_inst_mutex, ref, proxy, tor, events, aborted>>

-----------------------------------------------------------------------------
(* The calls of the sessions                                               *)

Referenced(k) == \E s \in Sessions : ref[s] = k

\* ga_rust::connect keeps the address it was given once
Connects(s) == s \notin Electrum \/ proxy[s] = None

\* A session connects, asks for the address, or passes a hint on
Call(s, why) ==
    /\ thr[s].pc = "idle" /\ events < MaxEvents
    /\ \/ why = "connect" /\ Connects(s) /\ thr' = [thr EXCEPT ![s].pc = "ref", ![s].why = why]
       \/ /\ why \in {"query", "sleep", "wakeup"} /\ ref[s] # None
          /\ thr' = [thr EXCEPT ![s].pc = "lock", ![s].why = why]
    /\ events' = events + 1
    /\ UNCHANGED <<s_inst_mutex, ref, proxy, ctrl, imp, tor, aborted>>

\* The session is destroyed; with the last reference goes the controller, and
\* with it an impl that is not asleep
Destroy(s) ==
    LET k == ref[s]
        i == ctrl[k].m_ctrl
    IN  /\ thr[s].pc = "idle" /\ events < MaxEvents /\ k # None
        /\ events' = events + 1
        /\ ref' = [ref EXCEPT ![s] = None]
        /\ proxy' = [proxy EXCEPT ![s] = None]
        /\ IF i = None \/ \E r \in Sessions \ {s} : ref[r] = k
           THEN UNCHANGED <<imp, thr>>
           ELSE /\ Stopping(i)
                /\ thr' = [thr EXCEPT ![s].pc = "halt", ![s].why = "destroy", ![s].i = i]
        /\ UNCHANGED <<s_inst_mutex, ctrl, tor, aborted>>

\* get_shared_ref finds the controller, or makes one while it holds the mutex
get_shared_ref(s) ==
    /\ thr[s].pc = "ref" /\ s_inst_mutex = None
    /\ \/ \E k \in Ctrls :
            /\ Referenced(k)
            /\ ref' = [ref EXCEPT ![s] = k]
            /\ Goto(s, "lock")
            /\ UNCHANGED <<s_inst_mutex, ctrl, imp, tor>>
       \/ /\ ~\E k \in Ctrls : Referenced(k)
          /\ \E k \in Ctrls : ctrl[k].m_ctrl = None
          /\ StartImpl(s, CHOOSE k \in Ctrls : ctrl[k].m_ctrl = None, NewCtrl)
          /\ s_inst_mutex' = s
          /\ UNCHANGED ref
    /\ UNCHANGED <<proxy, events, aborted>>

\* What the caller of wait_for_socks5 does with the address: connect stores it,
\* and a ga_session that got none wakes Tor up before it gives up
Answer(s, port) ==
    /\ proxy' = IF thr[s].why = "connect" THEN [proxy EXCEPT ![s] = port] ELSE proxy
    /\ IF thr[s].why = "connect" /\ port = None /\ s \notin Electrum
       THEN thr' = [thr EXCEPT ![s] = [NoCall EXCEPT !.pc = "lock", !.why = "wakeup"]]
       ELSE Finish(s)

\* wait_for_socks5 takes m_ctrl_mutex, and keeps it while it waits
StartWait(s) ==
    LET k == ref[s]
    IN  /\ thr[s].pc = "lock" /\ thr[s].why \in {"connect", "query"} /\ ctrl[k].lock = None
        /\ IF ctrl[k].m_ctrl = None
           THEN Answer(s, None) /\ UNCHANGED ctrl
           ELSE /\ ctrl' = [ctrl EXCEPT ![k].lock = s]
                /\ thr' = [thr EXCEPT ![s].pc = "look", ![s].i = ctrl[k].m_ctrl]
                /\ UNCHANGED proxy
        /\ UNCHANGED <<s_inst_mutex, ref, imp, tor, events, aborted>>

\* The loop of wait_for_socks5 under m_init_mutex: return the address, or
\* report the phase if it has changed and wait on m_init_cv
Look(s) ==
    LET i == thr[s].i
    IN  /\ thr[s].pc = "look"
        /\ IF imp[i].socks5 # None
           THEN /\ Answer(s, imp[i].socks5)
                /\ ctrl' = [ctrl EXCEPT ![imp[i].own].lock = None]
           ELSE /\ thr' = [thr EXCEPT ![s].pc = "blocked", ![s].last = imp[i].progress,
                                      ![s].notified = FALSE]
                /\ UNCHANGED <<proxy, ctrl>>
        /\ UNCHANGED <<s_inst_mutex, ref, imp, tor, events, aborted>>

Wakes(s) ==
    /\ thr[s].pc = "blocked" /\ thr[s].notified
    /\ Goto(s, "look")
    /\ UNCHANGED <<s_inst_mutex, ref, proxy, ctrl, imp, tor, events, aborted>>

\* tstop is reached: whatever is there by then is returned
TimesOut(s) ==
    LET i == thr[s].i
    IN  /\ thr[s].pc = "blocked"
        /\ Answer(s, imp[i].socks5)
        /\ ctrl' = [ctrl EXCEPT ![imp[i].own].lock = None]
        /\ UNCHANGED <<s_inst_mutex, ref, imp, tor, events, aborted>>

\* sleep() keeps the port that this impl was told, none if it was told none,
\* and destroys the impl
sleep(s) ==
    LET k == ref[s]
        i == ctrl[k].m_ctrl
    IN  /\ thr[s].pc = "lock" /\ thr[s].why = "sleep" /\ ctrl[k].lock = None
        /\ IF i = None
           THEN Finish(s) /\ UNCHANGED <<ctrl, imp>>
           ELSE /\ ctrl' = [ctrl EXCEPT ![k].lock = s, ![k].m_socks5_port = imp[i].socks5,
                                        ![k].forgot = @ \/ (ctrl[k].m_socks5_port # None
                                                            /\ imp[i].socks5 = None)]
                /\ Stopping(i)
                /\ thr' = [thr EXCEPT ![s].pc = "halt", ![s].i = i]
        /\ UNCHANGED <<s_inst_mutex, ref, proxy, tor, events, aborted>>

wakeup(s) ==
    LET k == ref[s]
    IN  /\ thr[s].pc = "lock" /\ thr[s].why = "wakeup" /\ ctrl[k].lock = None
        /\ IF ctrl[k].m_ctrl # None
           THEN Finish(s) /\ UNCHANGED <<ctrl, imp, tor>>
           ELSE StartImpl(s, k, [ctrl[k] EXCEPT !.lock = s])
        /\ UNCHANGED <<s_inst_mutex, ref, proxy, events, aborted>>

-----------------------------------------------------------------------------
(* The control thread                                                      *)

\* command(): the bytes, then the handler of the reply
GoOnWith(i, cmd) == [imp[i] EXCEPT !.next = cmd, !.ctl = "send"]

connected_cb(i) ==
    /\ imp[i].ctl = "loop" /\ imp[i].conn = "connecting" /\ ~imp[i].eof
    /\ imp' = [imp EXCEPT ![i] = [GoOnWith(i, "PROTOCOLINFO") EXCEPT !.conn = "open"]]
    /\ UNCHANGED <<s_inst_mutex, ref, proxy, ctrl, tor, thr, events, aborted>>

Send(i) ==
    /\ imp[i].ctl = "send"
    /\ imp' = [imp EXCEPT ![i].out = Append(@, imp[i].next), ![i].ctl = "push"]
    /\ UNCHANGED <<s_inst_mutex, ref, proxy, ctrl, tor, thr, events, aborted>>

\* The handler that gave the command returns and is popped; connected_cb is
\* no reply handler
Push(i) ==
    /\ imp[i].ctl = "push"
    /\ imp' = [imp EXCEPT ![i].ctl = "loop",
                  ![i].handlers = LET all == Append(@, imp[i].next)
                                  IN  IF imp[i].next = "PROTOCOLINFO" THEN all ELSE Tail(all)]
    /\ UNCHANGED <<s_inst_mutex, ref, proxy, ctrl, tor, thr, events, aborted>>

\* m_init_cv.notify_all()
notify_all(i) ==
    thr' = [s \in Sessions |-> IF thr[s].pc = "blocked" /\ thr[s].i = i
                               THEN [thr[s] EXCEPT !.notified = TRUE] ELSE thr[s]]

\* readcb has a whole reply r
Reads(i) == imp[i].ctl = "loop" /\ imp[i].conn = "open" /\ imp[i].replies # <<>>
Reply(i) == Head(imp[i].replies)
Read(i) == [imp[i] EXCEPT !.replies = Tail(@)]
Handles(i, h) == Reads(i) /\ imp[i].handlers # <<>> /\ Head(imp[i].handlers) = h
Popped(i) == [Read(i) EXCEPT !.handlers = Tail(@)]

\* Mutant: an empty mapping is accepted
AssertsCode(h, r) == r.code = 250
\* A handler's assertions on the reply it is given.  Those of protocolinfo_cb
\* and auth_cb are content with any success
Asserts(h, r) == r.code = 250 /\ (h \in {"PROTOCOLINFO", "AUTHENTICATE"} \/ r.cmd = h)

UnexpectedReply(i) ==
    /\ Reads(i) /\ imp[i].handlers = <<>>
    /\ imp' = [imp EXCEPT ![i] = Read(i)]
    /\ UNCHANGED <<s_inst_mutex, ref, proxy, ctrl, tor, thr, events, aborted>>

AssertionFails(i) ==
    /\ \E h \in Commands \ {"HALT"} : Handles(i, h) /\ ~Asserts(h, Reply(i))
    /\ Abort

Follow(h) == CASE h = "PROTOCOLINFO" -> "AUTHCHALLENGE"
               [] h = "AUTHCHALLENGE" -> "AUTHENTICATE"
               [] h = "AUTHENTICATE" -> "PHASE"

\* protocolinfo_cb, authchallenge_cb and auth_cb, which leave their entry to Push
authenticate_cb(i, h) ==
    /\ Handles(i, h) /\ Asserts(h, Reply(i))
    /\ imp' = [imp EXCEPT ![i] = [GoOnWith(i, Follow(h)) EXCEPT !.replies = Tail(@)]]
    /\ UNCHANGED <<s_inst_mutex, ref, proxy, ctrl, tor, thr, events, aborted>>

\* bootstrap_phase_cb stores the phase under the mutex, ...
bootstrap_phase_cb(i) ==
    /\ Handles(i, "PHASE") /\ Asserts("PHASE", Reply(i))
    /\ imp' = [imp EXCEPT ![i] = [Read(i) EXCEPT !.progress = Reply(i).val, !.ctl = "notify"]]
    /\ UNCHANGED <<s_inst_mutex, ref, proxy, ctrl, tor, thr, events, aborted>>

\* ... notifies after it, ...
NotifyPhase(i) ==
    /\ imp[i].ctl = "notify"
    /\ notify_all(i)
    /\ imp' = [imp EXCEPT ![i].ctl = "decide"]
    /\ UNCHANGED <<s_inst_mutex, ref, proxy, ctrl, tor, events, aborted>>

\* Mutant: the address is asked for at once
AnyPhase(i) == TRUE
CircuitReady(i) == imp[i].progress = Full

\* ... and reads it again without the mutex; 250 ms pass if it is not full
Decide(i) ==
    /\ imp[i].ctl = "decide"
    /\ imp' = [imp EXCEPT ![i] = GoOnWith(i, IF CircuitReady(i) THEN "SOCKS" ELSE "PHASE")]
    /\ UNCHANGED <<s_inst_mutex, ref, proxy, ctrl, tor, thr, events, aborted>>

\* Mutant: the waiting threads are not told
NotNotified(i) == UNCHANGED thr
NotifySocks(i) == notify_all(i)

socks_cb(i) ==
    /\ Handles(i, "SOCKS") /\ Asserts("SOCKS", Reply(i))
    /\ imp' = [imp EXCEPT ![i] = [Popped(i) EXCEPT !.socks5 = Reply(i).val]]
    /\ NotifySocks(i)
    /\ UNCHANGED <<s_inst_mutex, ref, proxy, ctrl, tor, events, aborted>>

stopped_cb(i) ==
    /\ Handles(i, "HALT")
    /\ imp' = [imp EXCEPT ![i] = Popped(i)]
    /\ UNCHANGED <<s_inst_mutex, ref, proxy, ctrl, tor, thr, events, aborted>>

\* Mutant: only an error is looked for
ErrorOnly(i) == imp[i].eof /\ imp[i].conn = "connecting"
\* BEV_EVENT_ERROR or, after all replies, BEV_EVENT_EOF
StreamEnds(i) ==
    imp[i].eof /\ (imp[i].conn = "connecting" \/ (imp[i].conn = "open" /\ imp[i].replies = <<>>))

\* eventcb: disconnect() frees the connection, ...
EndOfStream(i) ==
    /\ imp[i].ctl = "loop" /\ StreamEnds(i)
    /\ imp' = [imp EXCEPT ![i].conn = "freed", ![i].ctl = "freed"]
    /\ UNCHANGED <<s_inst_mutex, ref, proxy, ctrl, tor, thr, events, aborted>>

\* ... calls disconnected_cb, which throws unless the impl is stopping, and
\* forgets it; without events the thread ends
disconnected_cb(i) ==
    /\ imp[i].ctl = "freed"
    /\ \/ ~imp[i].stopping /\ Abort
       \/ /\ imp[i].stopping
          /\ imp' = [imp EXCEPT ![i].conn = "null", ![i].ctl = "ended"]
          /\ UNCHANGED <<s_inst_mutex, ref, proxy, ctrl, tor, thr, events, aborted>>

-----------------------------------------------------------------------------
(* External: Tor.  It serves one controller at a time, wants to be         *)
(* authenticated to before it obeys, and closes the connection otherwise.  *)

\* The control port file is written.  A Tor that finds another one running in
\* its process fails an assertion
TorUp(i) ==
    /\ tor[i].state = "starting"
    /\ \/ /\ \E j \in Impls \ {i} : Running(j)
          /\ Abort
       \/ /\ ~\E j \in Impls \ {i} : Running(j)
          /\ \E p \in Ports :
               /\ tor[i].conf \in {None, p}
               /\ tor' = [tor EXCEPT ![i].state = "up", ![i].listen = p]
          /\ UNCHANGED <<s_inst_mutex, ref, proxy, ctrl, imp, thr, events, aborted>>

TorBoots(i) ==
    /\ tor[i].state = "up" /\ tor[i].boot < Full
    /\ tor' = [tor EXCEPT ![i].boot = @ + 1]
    /\ UNCHANGED <<s_inst_mutex, ref, proxy, ctrl, imp, thr, events, aborted>>

Receives(i) == tor[i].state = "up" /\ ~imp[i].eof /\ imp[i].conn = "open" /\ imp[i].out # <<>>
Command(i) == Head(imp[i].out)
Replied(i, code, val) ==
    [imp[i] EXCEPT !.out = Tail(@),
                   !.replies = Append(@, [cmd |-> Command(i), code |-> code, val |-> val])]
Free(cmd) == cmd \in {"PROTOCOLINFO", "AUTHCHALLENGE", "AUTHENTICATE"}

TorAnswers(i) ==
    /\ Receives(i) /\ Command(i) # "HALT"
    /\ Free(Command(i)) \/ tor[i].authed
    /\ imp' = [imp EXCEPT ![i] = Replied(i, 250, CASE Command(i) = "PHASE" -> tor[i].boot
                                                   [] Command(i) = "SOCKS" -> tor[i].listen
                                                   [] OTHER -> None)]
    /\ tor' = [tor EXCEPT ![i].authed = @ \/ Command(i) = "AUTHENTICATE"]
    /\ UNCHANGED <<s_inst_mutex, ref, proxy, ctrl, thr, events, aborted>>

TorHalts(i) ==
    /\ Receives(i) /\ Command(i) = "HALT" /\ tor[i].authed
    /\ imp' = [imp EXCEPT ![i] = [Replied(i, 250, None) EXCEPT !.eof = TRUE]]
    /\ tor' = [tor EXCEPT ![i] = NoTor]
    /\ UNCHANGED <<s_inst_mutex, ref, proxy, ctrl, thr, events, aborted>>

\* "514 Authentication required"
TorRefuses(i) ==
    /\ Receives(i) /\ ~Free(Command(i)) /\ ~tor[i].authed
    /\ imp' = [imp EXCEPT ![i] = [Replied(i, 514, None) EXCEPT !.eof = TRUE]]
    /\ UNCHANGED <<s_inst_mutex, ref, proxy, ctrl, tor, thr, events, aborted>>

\* Tor exits by itself
TorDies(i) ==
    /\ Running(i) /\ events < MaxEvents
    /\ events' = events + 1
    /\ tor' = [tor EXCEPT ![i] = NoTor]
    /\ imp' = [imp EXCEPT ![i].eof = TRUE]
    /\ UNCHANGED <<s_inst_mutex, ref, proxy, ctrl, thr, aborted>>

-----------------------------------------------------------------------------
ControlStep(i) ==
    \/ connected_cb(i) \/ Send(i) \/ Push(i)
    \/ UnexpectedReply(i) \/ AssertionFails(i)
    \/ \E h \in {"PROTOCOLINFO", "AUTHCHALLENGE", "AUTHENTICATE"} : authenticate_cb(i, h)
    \/ bootstrap_phase_cb(i) \/ NotifyPhase(i) \/ Decide(i)
    \/ socks_cb(i) \/ stopped_cb(i)
    \/ EndOfStream(i) \/ disconnected_cb(i)

\* Once a call is made its steps follow
CallStep(s) ==
    \/ get_shared_ref(s) \/ Constructed(s) \/ ConstructionFails(s)
    \/ StartWait(s) \/ Look(s) \/ Wakes(s) \/ TimesOut(s)
    \/ sleep(s) \/ wakeup(s)
    \/ Halt(s) \/ HaltOnFreed(s) \/ PushStopped(s) \/ Joined(s)

TorStep(i) == TorUp(i) \/ TorAnswers(i) \/ TorHalts(i) \/ TorRefuses(i)

Next ==
    /\ ~aborted
    /\ \/ \E s \in Sessions : CallStep(s) \/ Destroy(s) \/ \E why \in Calls : Call(s, why)
       \/ \E i \in Impls : ControlStep(i) \/ TorStep(i) \/ TorBoots(i) \/ TorDies(i)

Spec == Init /\ [][Next]_vars

\* Threads that can run do, a Tor that runs answers, and however often a
\* waiting thread is notified, the time it waits for comes
Fairness ==
    /\ \A s \in Sessions : WF_vars(~aborted /\ CallStep(s)) /\ SF_vars(~aborted /\ TimesOut(s))
    /\ \A i \in Impls : WF_vars(~aborted /\ ControlStep(i)) /\ WF_vars(~aborted /\ TorStep(i))
FairSpec == Spec /\ Fairness

-----------------------------------------------------------------------------
(* Properties                                                              *)

ReplyType == [cmd : Commands, code : {250, 514}, val : 0 .. Full \cup Ports \cup {None}]
ImplType ==
    [own : Ctrls \cup {None}, conn : {"null", "connecting", "open", "freed"},
     out : Seq(Commands), replies : Seq(ReplyType), eof : BOOLEAN, handlers : Seq(Commands),
     ctl : {"none", "loop", "send", "push", "notify", "decide", "freed", "ended"},
     next : Commands, stopping : BOOLEAN, progress : 0 .. Full, socks5 : Ports \cup {None}]
CtrlType == [lock : Sessions \cup {None}, m_ctrl : Impls \cup {None},
             m_socks5_port : Ports \cup {None}, forgot : BOOLEAN]
TorType == [state : {"none", "starting", "up"}, own : Ctrls \cup {None},
            conf : Ports \cup {None}, boot : 0 .. Full, listen : Ports \cup {None},
            authed : BOOLEAN]
CallType == [pc : {"idle", "ref", "ctor", "lock", "look", "blocked", "halt", "push", "join"},
             why : Calls, i : Impls \cup {None}, last : 0 .. Full + 1, notified : BOOLEAN]

\* Every reply reaches a handler that can read it: in particular progress is
\* only ever set to a progress, and the address to an address
TypeOK ==
    /\ s_inst_mutex \in Sessions \cup {None}
    /\ ref \in [Sessions -> Ctrls \cup {None}]
    /\ proxy \in [Sessions -> Ports \cup {None}]
    /\ ctrl \in [Ctrls -> CtrlType]
    /\ imp \in [Impls -> ImplType]
    /\ tor \in [Impls -> TorType]
    /\ thr \in [Sessions -> CallType]
    /\ events \in 0 .. MaxEvents /\ aborted \in BOOLEAN

\* ~tor_controller_impl for the last reference to the controller: no mutex is held
Destroying(s, i) ==
    thr[s].why = "destroy" /\ thr[s].i = i /\ thr[s].pc \in {"halt", "push", "join"}

\* However sleep, wakeup, connect and destruction follow each other, no two
\* Tors run at once: the destructor of the first blocks until its thread has
\* ended (ga_tor.cpp:553).  What the code leaves open is the destructor of
\* another controller, whose weak reference expired before it began
OneTor ==
    \A i, j \in Impls : Running(i) /\ Running(j) /\ i # j =>
        /\ tor[i].own # tor[j].own
        /\ \E s \in Sessions : Destroying(s, i) \/ Destroying(s, j)

\* The address handed to the sessions is the one where the Tor that is running
\* listens, and its circuit is built
SocksLive ==
    \A i \in Impls : imp[i].socks5 # None /\ Running(i)
        => imp[i].socks5 = tor[i].listen /\ tor[i].boot = Full

\* A Tor that comes up, after any number of sleeps, listens at the address its
\* sessions have stored as their proxy and go on using.  What the code leaves
\* open is a sleep that comes before Tor, woken up, has told its address: sleep
\* overwrites the port that the sleep before it had kept (ga_tor.cpp:752), Tor
\* chooses another one at the next wakeup, and the sessions are not told
PortKept ==
    \A s \in Sessions : \A i \in Impls :
        /\ proxy[s] # None /\ ref[s] # None /\ ~ctrl[ref[s]].forgot
        /\ imp[i].own = ref[s] /\ tor[i].state = "up"
        => tor[i].listen = proxy[s]

\* A thread that goes on waiting in wait_for_socks5 has missed nothing: there
\* is no address, and it has reported the current phase
NoLostWakeup ==
    \A s \in Sessions : thr[s].pc = "blocked" /\ ~thr[s].notified =>
        LET i == thr[s].i
        IN  imp[i].socks5 = None /\ (imp[i].ctl = "notify" \/ imp[i].progress = thr[s].last)

\* HALT was refused: Tor runs on, and the connection over which it could be
\* halted is gone
Stuck(i) == imp[i].stopping /\ Running(i) /\ imp[i].eof

\* Every call comes to its end: no two of the mutexes, joins and waits block
\* each other.  The one thing a call may wait for in vain is a Tor that was to
\* be halted before the control connection had authenticated
CallsEnd ==
    \A s \in Sessions :
        thr[s].pc # "idle" ~> thr[s].pc = "idle" \/ aborted \/ \E i \in Impls : Stuck(i)
=============================================================================
