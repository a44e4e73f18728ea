------------------------------ MODULE Reconnect ------------------------------
(***************************************************************************)
(* The network side of one GreenAddress session, from the GA_connect that  *)
(* made it to its destruction: the ping timer, try_reconnect and the task  *)
(* it posts on m_pool, network_control_context, the hints of the           *)
(* application, and the teardown by whichever thread drops the last        *)
(* shared_ptr to the session (ga_session.cpp, ga_session.hpp, session.cpp).*)
(*                                                                         *)
(* Apps are threads of the application inside a gdk call; Io is the thread *)
(* of event_loop_controller, which runs the ping timer's handler and the   *)
(* pong timeout handler.  Each step is one access to shared state.         *)
(***************************************************************************)
EXTENDS Integers, FiniteSets

CONSTANTS
    Apps,      \* application threads
    Io,        \* the thread running m_io
    Tasks,     \* identities of the reconnect tasks posted on m_pool
    Hints      \* the values of "hint" the application may give

Options == {"now", "disable", "start"}
ASSUME ThreadsAssumption == Io \notin Apps
ASSUME HintsAssumption == Hints \subseteq Options

Threads == Apps \cup {Io}

VARIABLES
    net,           \* environment: the server can be reached and answers
    transport,     \* is_connected(): the transport is up
    joined,        \* the wamp session is established on it
    m_enabled,     \* network_control_context
    m_reconnect_flag,
    m_exit_flag,   \* the promise of m_exit_flag has its value
    m_ping_timer,  \* a wait on the timer is pending
    m_impl,        \* session::m_impl is not null
    handle,        \* the application's GA_session: "valid", or "deleted", or
                   \* "torn": deleted while it was connected
    refs,          \* threads holding a shared_ptr to the ga_session
    pc,            \* where each thread is
    after,         \* where it goes on after session::reconnect
    task,          \* where each task is
    life           \* "live", "dead": destroyed, "terminated": std::terminate was
                   \* called, "undefined": a deleted GA_session was used

control == <<m_enabled, m_reconnect_flag, m_exit_flag>>
link == <<net, transport, joined>>
facade == <<m_impl, handle>>
vars == <<link, control, m_ping_timer, facade, refs, pc, after, task, life>>

Goto(t, l) == pc' = [pc EXCEPT ![t] = l]
TaskGoto(k, l) == task' = [task EXCEPT ![k] = l]

\* GA_connect has returned
Init ==
    /\ net = TRUE /\ transport = TRUE /\ joined = TRUE
    /\ m_enabled = TRUE /\ m_reconnect_flag = FALSE /\ m_exit_flag = FALSE
    /\ m_ping_timer = TRUE
    /\ m_impl = TRUE /\ handle = "valid" /\ refs = {}
    /\ pc = [t \in Threads |-> "idle"]
    /\ after = [t \in Threads |-> "idle"]
    /\ task = [k \in Tasks |-> "none"]
    /\ life = "live"

-----------------------------------------------------------------------------
(* The environment                                                         *)

NetChanges ==
    /\ net' = ~net
    /\ UNCHANGED <<transport, joined, control, m_ping_timer, facade, refs, pc, after, task, life>>

TransportDrops ==
    /\ ~net /\ transport
    /\ transport' = FALSE /\ joined' = FALSE
    /\ UNCHANGED <<net, control, m_ping_timer, facade, refs, pc, after, task, life>>

-----------------------------------------------------------------------------
(* How threads come to session::reconnect                                  *)

\* A gdk call fails with a network error or a timeout: exception_wrapper
CallFails(t) ==
    /\ t \in Apps /\ pc[t] = "idle" /\ m_impl /\ ~joined
    /\ Goto(t, "get_impl")
    /\ after' = [after EXCEPT ![t] = "idle"]
    /\ UNCHANGED <<link, control, m_ping_timer, facade, refs, task, life>>

\* The ping timer expires and its handler pings, if the transport is up
PingTimerFires ==
    /\ pc[Io] = "idle" /\ m_ping_timer /\ life = "live"
    /\ m_ping_timer' = FALSE
    /\ Goto(Io, IF transport THEN "rearm" ELSE "get_impl")
    /\ after' = [after EXCEPT ![Io] = "rearm"]
    /\ UNCHANGED <<link, control, facade, refs, task, life>>
\* ... and always starts the timer again
Rearm ==
    /\ pc[Io] = "rearm"
    /\ m_ping_timer' = TRUE
    /\ Goto(Io, "idle")
    /\ UNCHANGED <<link, control, facade, refs, after, task, life>>

\* No pong came in time
PongTimeout ==
    /\ pc[Io] = "idle" /\ transport /\ ~net /\ life = "live"
    /\ Goto(Io, "get_impl")
    /\ after' = [after EXCEPT ![Io] = "idle"]
    /\ UNCHANGED <<link, control, m_ping_timer, facade, refs, task, life>>

\* session::reconnect_hint -> ga_session::reconnect_hint: m_enabled is set,
\* and with "now" stop_reconnect is called
Hint(t, option) ==
    /\ t \in Apps /\ pc[t] = "idle" /\ m_impl
    /\ refs' = refs \cup {t}
    /\ m_enabled' = (option # "disable")
    /\ Goto(t, IF option = "now" /\ m_reconnect_flag THEN "set_exit" ELSE "get_impl")
    /\ after' = [after EXCEPT ![t] = "idle"]
    /\ UNCHANGED <<link, m_reconnect_flag, m_exit_flag, m_ping_timer, facade, task, life>>

\* set_exit: setting the value of a promise twice throws, out of the hint
HintSetExit(t) ==
    /\ pc[t] = "set_exit"
    /\ m_exit_flag' = TRUE
    /\ Goto(t, IF m_exit_flag THEN "release" ELSE "get_impl")
    /\ UNCHANGED <<link, m_enabled, m_reconnect_flag, m_ping_timer, facade, refs, after, task, life>>

-----------------------------------------------------------------------------
(* session::reconnect and ga_session::try_reconnect                        *)

GetImpl(t) ==
    /\ pc[t] = "get_impl" /\ handle = "valid"
    /\ refs' = IF m_impl THEN refs \cup {t} ELSE refs
    /\ Goto(t, IF m_impl THEN "is_enabled" ELSE IF t \in refs THEN "release" ELSE after[t])
    /\ UNCHANGED <<link, control, m_ping_timer, facade, after, task, life>>

\* The handlers of the io thread keep the session's this: what they load from a
\* session that is deleted is not defined
LoadsDeleted(t) ==
    /\ pc[t] = "get_impl" /\ handle # "valid"
    /\ life' = "undefined"
    /\ Goto(t, "halt")
    /\ UNCHANGED <<link, control, m_ping_timer, facade, refs, after, task>>

IsEnabled(t) ==
    /\ pc[t] = "is_enabled"
    /\ Goto(t, IF m_enabled THEN "is_connected" ELSE "release")
    /\ UNCHANGED <<link, control, m_ping_timer, facade, refs, after, task, life>>

IsConnected(t) ==
    /\ pc[t] = "is_connected"
    /\ Goto(t, IF transport THEN "release" ELSE "load")
    /\ UNCHANGED <<link, control, m_ping_timer, facade, refs, after, task, life>>

\* set_reconnect(true) reads the flag, and exchanges it if it was clear
LoadFlag(t) ==
    /\ pc[t] = "load"
    /\ Goto(t, IF m_reconnect_flag THEN "release" ELSE "exchange")
    /\ UNCHANGED <<link, control, m_ping_timer, facade, refs, after, task, life>>
\* Mutant: the flag is stored where it should be exchanged
StoreFlag(t) ==
    /\ pc[t] = "exchange"
    /\ m_reconnect_flag' = TRUE
    /\ Goto(t, "cancel")
    /\ UNCHANGED <<link, m_enabled, m_exit_flag, m_ping_timer, facade, refs, after, task, life>>
ExchangeFlag(t) ==
    /\ pc[t] = "exchange"
    /\ m_reconnect_flag' = TRUE
    /\ Goto(t, IF m_reconnect_flag THEN "release" ELSE "cancel")
    /\ UNCHANGED <<link, m_enabled, m_exit_flag, m_ping_timer, facade, refs, after, task, life>>

CancelTimer(t) ==
    /\ pc[t] = "cancel"
    /\ m_ping_timer' = FALSE
    /\ Goto(t, "reset_exit")
    /\ UNCHANGED <<link, control, facade, refs, after, task, life>>

ResetExit(t) ==
    /\ pc[t] = "reset_exit"
    /\ m_exit_flag' = FALSE
    /\ Goto(t, "post")
    /\ UNCHANGED <<link, m_enabled, m_reconnect_flag, m_ping_timer, facade, refs, after, task, life>>

PostTask(t, k) ==
    /\ pc[t] = "post" /\ task[k] = "none"
    /\ TaskGoto(k, "retrying")
    /\ Goto(t, "release")
    /\ UNCHANGED <<link, control, m_ping_timer, facade, refs, after, life>>

\* The shared_ptr goes out of scope; the last one runs ~ga_session
Release(t) ==
    /\ pc[t] = "release"
    /\ refs' = refs \ {t}
    /\ Goto(t, IF ~m_impl /\ refs = {t} THEN "stop" ELSE after[t])
    /\ UNCHANGED <<link, control, m_ping_timer, facade, after, task, life>>

-----------------------------------------------------------------------------
(* The task on m_pool                                                      *)

\* Back off for a while, unless told to exit
Retrying(k) ==
    /\ task[k] = "retrying"
    /\ TaskGoto(k, IF m_exit_flag THEN "clear" ELSE "disconnect")
    /\ UNCHANGED <<link, control, m_ping_timer, facade, refs, pc, after, life>>

\* ga_session::disconnect
Disconnects == /\ m_ping_timer' = FALSE
               /\ transport' = FALSE /\ joined' = FALSE
TaskDisconnect(k) ==
    /\ task[k] = "disconnect"
    /\ Disconnects
    /\ TaskGoto(k, "connect")
    /\ UNCHANGED <<net, control, facade, refs, pc, after, life>>

\* connect: transport, wamp session, socket options and ping timer, then the
\* login with the cached mnemonic, whose outcome is only notified ...
TaskConnects(k) ==
    /\ task[k] = "connect" /\ net
    /\ transport' = TRUE /\ joined' = TRUE
    /\ m_ping_timer' = TRUE
    /\ TaskGoto(k, "clear")
    /\ UNCHANGED <<net, control, facade, refs, pc, after, life>>
\* ... or it throws with some of these done, before start_ping_timer
TaskConnectFails(k) ==
    /\ task[k] = "connect" /\ ~net
    /\ transport' \in BOOLEAN /\ joined' \in BOOLEAN /\ (joined' => transport')
    /\ TaskGoto(k, "retrying")
    /\ UNCHANGED <<net, control, m_ping_timer, facade, refs, pc, after, life>>

\* Mutant: the flag stays set
ClearFlagForgotten(k) ==
    /\ task[k] = "clear"
    /\ TaskGoto(k, "start_ping")
    /\ UNCHANGED <<link, control, m_ping_timer, facade, refs, pc, after, life>>
\* set_reconnect(false)
ClearFlag(k) ==
    /\ task[k] = "clear"
    /\ m_reconnect_flag' = FALSE
    /\ TaskGoto(k, "start_ping")
    /\ UNCHANGED <<link, m_enabled, m_exit_flag, m_ping_timer, facade, refs, pc, after, life>>

TaskStartPing(k) ==
    /\ task[k] = "start_ping"
    /\ m_ping_timer' = (m_ping_timer \/ ~transport)
    /\ TaskGoto(k, "none")
    /\ UNCHANGED <<link, control, facade, refs, pc, after, life>>

-----------------------------------------------------------------------------
(* Teardown                                                                *)

\* session::disconnect (GA_disconnect): m_impl is made null, and the caller's
\* shared_ptr dropped
SessionDisconnect(t) ==
    /\ t \in Apps /\ pc[t] = "idle" /\ m_impl
    /\ m_impl' = FALSE
    /\ refs' = refs \cup {t}
    /\ Goto(t, "release")
    /\ after' = [after EXCEPT ![t] = "idle"]
    /\ UNCHANGED <<link, control, m_ping_timer, handle, task, life>>

\* GA_destroy_session: delete session.  ~session is defaulted, m_impl is not
\* made null, its destructor drops the pointer it holds.  The application has
\* no call on the session then, and makes none later.
GA_destroy_session(t) ==
    /\ t \in Apps /\ handle = "valid" /\ \A u \in Apps : pc[u] = "idle"
    /\ handle' = IF m_impl THEN "torn" ELSE "deleted"
    /\ m_impl' = FALSE
    /\ refs' = IF m_impl THEN refs \cup {t} ELSE refs
    /\ Goto(t, IF m_impl THEN "release" ELSE "idle")
    /\ after' = [after EXCEPT ![t] = "idle"]
    /\ UNCHANGED <<link, control, m_ping_timer, task, life>>

\* Mutant: the destructor only waits for the task
StopForgotten(t) ==
    /\ pc[t] = "stop"
    /\ Goto(t, "join_pool")
    /\ UNCHANGED <<link, control, m_ping_timer, facade, refs, after, task, life>>
\* ~ga_session -> reset -> stop_reconnect.  If set_exit throws, the rest of
\* the destructor's body is skipped and the joinable m_run_thread destroyed.
StopReconnect(t) ==
    /\ pc[t] = "stop"
    /\ m_exit_flag' = (m_exit_flag \/ m_reconnect_flag)
    /\ Goto(t, IF m_reconnect_flag /\ m_exit_flag THEN "halt" ELSE "join_pool")
    /\ life' = IF m_reconnect_flag /\ m_exit_flag THEN "terminated" ELSE life
    /\ UNCHANGED <<link, m_enabled, m_reconnect_flag, m_ping_timer, facade, refs, after, task>>

\* Mutant: the pool is stopped, not joined
StopPool(t) ==
    /\ pc[t] = "join_pool"
    /\ Goto(t, "disconnect")
    /\ UNCHANGED <<link, control, m_ping_timer, facade, refs, after, task, life>>
\* m_pool.join waits for every task
JoinPool(t) ==
    /\ pc[t] = "join_pool" /\ \A k \in Tasks : task[k] = "none"
    /\ Goto(t, "disconnect")
    /\ UNCHANGED <<link, control, m_ping_timer, facade, refs, after, task, life>>

FinalDisconnect(t) ==
    /\ pc[t] = "disconnect"
    /\ Disconnects
    /\ Goto(t, "join_io")
    /\ UNCHANGED <<net, control, facade, refs, after, task, life>>

\* event_loop_controller::reset: m_io has no work guard left and runs until
\* nothing is pending.  The io thread cannot join itself: the exception is
\* swallowed and the joinable thread destroyed.
JoinIo(t) ==
    /\ pc[t] = "join_io"
    /\ t # Io => pc[Io] = "idle" /\ ~m_ping_timer
    /\ life' = IF t = Io THEN "terminated" ELSE "dead"
    /\ Goto(t, "halt")
    /\ UNCHANGED <<link, control, m_ping_timer, facade, refs, after, task>>

-----------------------------------------------------------------------------
Trying(t) ==
    \/ GetImpl(t) \/ LoadsDeleted(t) \/ IsEnabled(t) \/ IsConnected(t) \/ LoadFlag(t) \/ ExchangeFlag(t)
    \/ CancelTimer(t) \/ ResetExit(t) \/ (\E k \in Tasks : PostTask(t, k)) \/ Release(t)
TearingDown(t) == StopReconnect(t) \/ JoinPool(t) \/ FinalDisconnect(t) \/ JoinIo(t)
ThreadStep(t) == HintSetExit(t) \/ Trying(t) \/ TearingDown(t)
TaskStep(k) ==
    \/ Retrying(k) \/ TaskDisconnect(k) \/ TaskConnects(k) \/ TaskConnectFails(k)
    \/ ClearFlag(k) \/ TaskStartPing(k)

Next ==
    /\ life = "live"
    /\ \/ NetChanges \/ TransportDrops
       \/ PingTimerFires \/ Rearm \/ PongTimeout
       \/ \E t \in Threads :
            \/ CallFails(t) \/ SessionDisconnect(t) \/ GA_destroy_session(t) \/ ThreadStep(t)
            \/ \E option \in Hints : Hint(t, option)
       \/ \E k \in Tasks : TaskStep(k)

Spec == Init /\ [][Next]_vars

\* Threads, tasks and the io thread's timer run; the application and the
\* network do as they like
Fairness ==
    /\ \A t \in Threads : WF_vars(life = "live" /\ ThreadStep(t))
    /\ \A k \in Tasks : WF_vars(life = "live" /\ TaskStep(k))
    /\ WF_vars(life = "live" /\ PingTimerFires) /\ WF_vars(life = "live" /\ Rearm)
FairSpec == Spec /\ Fairness
-----------------------------------------------------------------------------
(* Properties                                                              *)

\* Where a thread has a shared_ptr to the ga_session on its stack, and where
\* it runs ~ga_session
Holding == {"set_exit", "is_enabled", "is_connected", "load", "exchange", "cancel",
            "reset_exit", "post", "release"}
Destroying == {"stop", "join_pool", "disconnect", "join_io"}

TypeOK ==
    /\ net \in BOOLEAN /\ transport \in BOOLEAN /\ joined \in BOOLEAN
    /\ joined => transport
    /\ m_enabled \in BOOLEAN /\ m_reconnect_flag \in BOOLEAN /\ m_exit_flag \in BOOLEAN
    /\ m_ping_timer \in BOOLEAN /\ m_impl \in BOOLEAN
    /\ handle \in {"valid", "deleted", "torn"}
    /\ refs \in SUBSET Threads
    /\ pc \in [Threads -> Holding \cup Destroying \cup {"idle", "rearm", "get_impl", "halt"}]
    /\ after \in [Threads -> {"idle", "rearm"}]
    /\ \A t \in Apps : pc[t] # "rearm" /\ after[t] = "idle"
    /\ task \in [Tasks -> {"none", "retrying", "disconnect", "connect", "clear", "start_ping"}]
    /\ life \in {"live", "dead", "terminated", "undefined"}

\* A reconnection belongs to the thread that set m_reconnect_flag until its
\* task is posted, and to the task until it clears the flag
Claiming(t) == pc[t] \in {"cancel", "reset_exit", "post"}
Running(k) == task[k] \in {"retrying", "disconnect", "connect", "clear"}

\* However many callers, ping failures and hints come to try_reconnect
\* together, one reconnection is under way, and m_reconnect_flag is set for
\* exactly as long: reset_exit never replaces the promise a task waits on, and
\* two tasks never tear each other's connection down.
SingleReconnect ==
    /\ m_reconnect_flag <=> (\E t \in Threads : Claiming(t)) \/ (\E k \in Tasks : Running(k))
    /\ \A t, u \in Threads : Claiming(t) /\ Claiming(u) => t = u
    /\ \A k, l \in Tasks : Running(k) /\ Running(l) => k = l
    /\ \A t \in Threads, k \in Tasks : ~(Claiming(t) /\ Running(k))

\* Nothing runs on a ga_session that is being taken apart: one thread runs the
\* destructor, no other thread has a pointer, after m_pool.join no task is
\* left, and once the object is gone neither the io thread nor a pending wait
\* on the timer refers to it.  Nor is a deleted GA_session used, if it was
\* disconnected first: GA_disconnect returns with the io thread joined or on
\* its way through the destructor, never on its way to session::reconnect.  A
\* session that is deleted while it is connected is the one that may be used
\* after its end, by a ping handler with the "this" it captured.
NoUseAfterFree ==
    /\ \A t, u \in Threads : pc[t] \in Destroying /\ pc[u] \in Destroying => t = u
    /\ \A t \in Threads : pc[t] \in Destroying => \A u \in Threads : pc[u] \notin Holding
    /\ \A t \in Threads : pc[t] \in {"disconnect", "join_io"} =>
         \A k \in Tasks : task[k] = "none"
    /\ life = "dead" =>
         /\ \A u \in Threads : pc[u] \notin Holding \cup Destroying \cup {"rearm"}
         /\ \A k \in Tasks : task[k] = "none"
         /\ ~m_ping_timer
    /\ life = "undefined" => handle = "torn"

\* The hint "now" told a task to exit whose attempt had got a transport but not
\* to the end of connect, where the ping timer starts: is_connected takes the
\* transport for a connection, and when it drops no timer finds out
Abandoned ==
    /\ m_exit_flag /\ ~m_reconnect_flag /\ ~joined
    /\ transport \/ ~m_ping_timer
    /\ \A k \in Tasks : task[k] = "none"

\* If from some time on the server answers, reconnecting is enabled and the
\* application keeps the session and ends no more attempts with "now", it is
\* connected again and again: it never stays without a connection for good,
\* except in the one state in which "now" may have abandoned it.
Reconnects ==
    <>[](net /\ m_enabled /\ m_impl /\ \A t \in Apps : pc[t] # "set_exit")
        => []<>joined \/ <>[]Abandoned

\* The destructor, and with it GA_disconnect, comes to its end whatever was
\* under way when the last reference went: a reconnect task in its backoff, or
\* one posted as the session is dropped, sees the exit flag and lets
\* m_pool.join return, and the controller is stopped.  It ends with the object
\* or, where it throws, with the process.  The one thing that can keep its last
\* step, m_run_thread.join, waiting is a wait on the ping timer that a ping
\* handler renewed after the final cancel.
TeardownEnds ==
    \A t \in Threads :
        pc[t] \in Destroying ~> life # "live" \/ (pc[t] = "join_io" /\ m_ping_timer)
=============================================================================
