------------------------------ MODULE TwoFactor ------------------------------
(***************************************************************************)
(* The auth_handler state machine and the calls that need two factor       *)
(* authorization (ga_auth_handlers.cpp), with what the session caches of   *)
(* the server's settings: m_twofactor_config, m_limits_data, m_nlocktime   *)
(* and the "appearance" (ga_session.cpp).                                  *)
(*                                                                         *)
(* A handler is stepped by its caller: request_code, resolve_code,         *)
(* operator().  wamp_call runs with the session unlocked: the server acts  *)
(* in one step, the reply is applied in another or never comes.            *)
(***************************************************************************)
EXTENDS Integers, FiniteSets

CONSTANTS
    Handlers,     \* auth_handler objects
    Methods,      \* two factor methods of the wallet
    Ops,          \* the calls an application may make
    OtherLimits   \* spending limits another app of the same user may set

TWO_FACTOR_ATTEMPTS == 3
Plain == {"remove_account", "cancel_reset", "set_csvtime", "set_nlocktime"}
Types == Plain \cup {"settings", "enable", "disable", "set_email", "limits", "send", "reset"}

\* A call: m is the method to change, n a limit, the amount to deduct from the
\* limits (send) or an nlocktime (settings, set_nlocktime), look the appearance
Op == [type : Types, m : Methods, n : Nat, look : Nat]

ASSUME OpsAssumption == Ops \subseteq Op /\ OtherLimits \subseteq Nat
ASSUME MethodsAssumption ==
    Methods \subseteq {"email", "sms", "phone", "gauth"} /\ "email" \in Methods

VARIABLES
    srv,      \* the server's state for the wallet
    ses,      \* the session's copy of it
    hs,       \* the handlers
    insync,   \* history: no reply was lost, no other app made a change, and no
              \* two calls that change the same part of the state were under way
              \* together
    alone     \* history: the application ended each dialogue before the next

core == <<srv, ses, hs, insync>>
vars == <<core, alone>>

\* A code stands for the method and action it was made out for
NoCode == [method |-> "", act |-> ""]
BadCode == [method |-> "", act |-> "mistyped"]
NoAuth == [method |-> "", code |-> NoCode]
Issue(act) == [act |-> act, left |-> TWO_FACTOR_ATTEMPTS]
NoIssue == [act |-> "", left |-> 0]
NoOp == [type |-> "", m |-> "", n |-> 0, look |-> 0]
NoHandler == [op |-> NoOp,
              state |-> "none", methods |-> {}, method |-> "", action |-> "",
              code |-> NoCode, attempts |-> TWO_FACTOR_ATTEMPTS, under |-> FALSE, nlock |-> FALSE,
              confirming |-> FALSE, gauth |-> NoAuth, reply |-> "", limit |-> 0, decreased |-> FALSE,
              declined |-> FALSE, snap |-> [enabled |-> {}, confirmed |-> FALSE], acts |-> 0]

\* The user is logged in and the application has shown the 2fa settings
Init ==
    /\ \E on \in SUBSET Methods, limit \in {0} \cup {op.n : op \in {o \in Ops : o.type = "limits"}}, conf \in BOOLEAN :
         /\ "email" \in on => conf
         /\ ses = [enabled |-> on, confirmed |-> conf, limit |-> limit, nlock |-> 0, look |-> 0]
         /\ srv = [enabled |-> on, confirmed |-> conf, limit |-> limit, nlock |-> 0, look |-> 0,
                   codes |-> [m \in Methods |-> NoIssue]]
    /\ hs = [h \in Handlers |-> NoHandler]
    /\ insync = TRUE /\ alone = TRUE

Set(h, x) == hs' = [hs EXCEPT ![h] = x]

\* The error is shown to the caller; nothing leaves the state again
set_error(x) == [x EXCEPT !.state = "error", !.reply = ""]

-----------------------------------------------------------------------------
(* Constructors and destruction                                            *)

ActionOf(kind) ==
    CASE kind = "enable" -> "enable_2fa"
      [] kind = "disable" -> "disable_2fa"
      [] kind = "limits" -> "change_tx_limits"
      [] kind = "send" -> "send_raw_tx"
      [] kind = "reset" -> "request_reset"
      [] kind = "settings" -> "set_nlocktime"
      [] OTHER -> kind

\* change_settings_twofactor_call: "confirmed" without "enabled" sets the
\* email address, unless it is confirmed already
Kind(op) == IF op.type = "set_email" /\ ses.confirmed THEN "disable" ELSE op.type

AlreadySo(op) == \/ op.type = "enable" /\ op.m \in ses.enabled
                 \/ Kind(op) = "disable" /\ op.m \notin ses.enabled
\* send_transaction_call: there is a limit and this tx is under it
UnderLimit(op) == /\ op.type = "send" /\ ses.enabled # {}
                  /\ ses.limit # 0 /\ op.n <= ses.limit
\* change_limits_call: decreases do not require 2fa
is_spending_limits_decrease(limit) == limit <= ses.limit
IsDecrease(op) == /\ op.type = "limits" /\ ses.enabled # {}
                  /\ is_spending_limits_decrease(op.n)
ChangesNlock(op) == op.type = "settings" /\ op.n # ses.nlock

\* To enable gauth the caller gives the seed the session has: n = 0, others
\* are not it
BadSeed(op) == op.type = "enable" /\ op.m = "gauth" /\ op.n # 0

Create(h, op) ==
    /\ hs[h].state = "none"
    /\ op.type = "set_email" => op.m = "email"
    /\ Set(h, [NoHandler EXCEPT
         !.op = op, !.methods = ses.enabled, !.action = ActionOf(Kind(op)),
         !.under = UnderLimit(op), !.nlock = ChangesNlock(op),
         !.state = IF AlreadySo(op) \/ BadSeed(op) THEN "error"
                   ELSE IF \/ ses.enabled = {} \/ op.type = "reset"
                           \/ UnderLimit(op) \/ IsDecrease(op)
                           \/ op.type = "settings" /\ ~ChangesNlock(op)
                        THEN "make_call" ELSE "request_code"])
    /\ UNCHANGED <<srv, ses, insync>>

\* GA_destroy_auth_handler, between two calls on the handler
Destroy(h) ==
    /\ hs[h].state \in {"request_code", "resolve_code", "make_call", "done", "error"}
    /\ Set(h, NoHandler)
    /\ UNCHANGED <<srv, ses, insync>>

-----------------------------------------------------------------------------
(* auth_handler::request_code and resolve_code                             *)

\* For gauth no code is requested.  send_transaction_call and
\* change_limits_call give up the under-limit way here.
RequestCode(h, m) ==
    /\ hs[h].state = "request_code" /\ m \in hs[h].methods
    /\ m = "gauth" \/ m \in srv.enabled
    /\ srv' = IF m = "gauth" THEN srv ELSE [srv EXCEPT !.codes[m] = Issue(hs[h].action)]
    /\ Set(h, [hs[h] EXCEPT !.state = "resolve_code", !.method = m,
                            !.attempts = TWO_FACTOR_ATTEMPTS, !.under = FALSE])
    /\ UNCHANGED <<ses, insync>>

\* The wamp_call throws, with or without effect: the application may try
\* again, but send_transaction_call catches the exception
RequestCodeFails(h, m) ==
    /\ hs[h].state = "request_code" /\ m \in hs[h].methods \ {"gauth"}
    /\ srv' \in {srv} \cup {[srv EXCEPT !.codes[m] = Issue(hs[h].action)] : i \in srv.enabled \cap {m}}
    /\ Set(h, [hs[h] EXCEPT !.under = FALSE,
                            !.state = IF hs[h].op.type = "send" THEN "error" ELSE @])
    /\ UNCHANGED <<ses, insync>>

\* The user types the code received for the method and action, or mistypes it
ResolveCode(h, right) ==
    /\ hs[h].state = "resolve_code"
    /\ Set(h, [hs[h] EXCEPT !.state = "make_call",
                            !.code = IF right THEN [method |-> hs[h].method, act |-> hs[h].action]
                                     ELSE BadCode])
    /\ UNCHANGED <<srv, ses, insync>>

-----------------------------------------------------------------------------
(* The server (external): how it authorizes the calls of the session       *)

Live(m, act) == srv.codes[m].act = act /\ srv.codes[m].left > 0
Proves(m, code, act) == /\ code = [method |-> m, act |-> act]
                        /\ m = "gauth" \/ Live(m, act)
Authorized(act, auth) ==
    srv.enabled = {} \/ (auth.method \in srv.enabled /\ Proves(auth.method, auth.code, act))
\* What the server allows without a code
Free(x) == \/ x.op.type = "send" /\ x.under /\ x.op.n <= srv.limit
           \/ x.op.type = "limits" /\ x.op.n <= srv.limit

\* operator(): the "method" and "code" of m_twofactor_data
Sent(x) == IF x.code = NoCode \/ x.method = "" THEN NoAuth
           ELSE [method |-> x.method, code |-> x.code]

Accepts(x) ==
    CASE x.action = "enable_" /\ x.op.m = "gauth" ->
           Proves("gauth", x.code, "enable_") /\ Authorized("enable_2fa", x.gauth)
      [] x.action \in {"enable_", "activate_email"} -> Proves(x.op.m, x.code, x.action)
      [] x.action = "request_reset" -> x.confirming => Proves("email", x.code, x.action)
      [] OTHER -> Free(x) \/ Authorized(x.action, Sent(x))

\* The call that completes the operation, not one that prepares it
Final(x) == /\ x.action \notin {"set_email", "enable_2fa"}
            /\ x.action = "request_reset" => x.confirming

Spend(codes, m) == [k \in Methods |-> IF k = m THEN NoIssue ELSE codes[k]]
Miss(codes, m) == [k \in Methods |-> IF k = m /\ codes[k].left > 0
                                     THEN [codes[k] EXCEPT !.left = @ - 1] ELSE codes[k]]

\* What an accepted call changes; the preparing ones send a code to the user
Effect(x) ==
    LET s == [srv EXCEPT !.codes = Spend(srv.codes, x.method)] IN
    CASE x.action = "enable_2fa" -> [s EXCEPT !.codes[x.op.m] = Issue("enable_")]
      [] x.action = "set_email" -> [s EXCEPT !.codes["email"] = Issue("activate_email")]
      [] x.action = "request_reset" /\ ~x.confirming ->
           [s EXCEPT !.codes["email"] = Issue("request_reset")]
      [] x.action = "enable_" -> [s EXCEPT !.enabled = @ \cup {x.op.m},
                                           !.confirmed = @ \/ x.op.m = "email"]
      [] x.action = "activate_email" -> [s EXCEPT !.confirmed = TRUE]
      [] x.action = "disable_2fa" -> [s EXCEPT !.enabled = @ \ {x.op.m}]
      [] x.action = "change_tx_limits" -> [s EXCEPT !.limit = x.op.n]
      [] x.action = "send_raw_tx" -> [s EXCEPT !.limit = IF x.under /\ x.op.n <= @ THEN @ - x.op.n ELSE @]
      [] x.action = "set_nlocktime" -> [s EXCEPT !.nlock = x.op.n]
      [] OTHER -> s

-----------------------------------------------------------------------------
(* auth_handler::operator() and the call_impl of each class                *)

\* gauth has no init_enable step: on_init_done without a call
GauthInit(x) == x.action = "enable_2fa" /\ x.op.m = "gauth"
\* change_settings_call changes the other settings first
Ready(x) == IF x.op.type = "settings" THEN x.state = "pushed"
            ELSE x.state = "make_call" /\ ~GauthInit(x)

\* The part of the session's copy that the call updates when it returns
Part(x) ==
    CASE x.action \in {"enable_", "activate_email", "disable_2fa"} -> "config"
      [] x.action \in {"change_tx_limits", "send_raw_tx"} -> "limits"
      [] x.action = "set_nlocktime" -> "nlocktime"
      [] OTHER -> "none"
\* The server has acted, and the session's copy is still to be updated
InFlight(x) == x.state \in {"reload", "swap"} \/ (x.state = "calling" /\ x.reply = "ok")
\* Two calls on the same part are under way: the order of their replies is
\* open, and a config that is being reloaded may be older than an update
Overlaps(h) == \E g \in Handlers \ {h} : /\ InFlight(hs[g])
                                         /\ Part(hs[g]) = Part(hs[h]) /\ Part(hs[h]) # "none"

CallAccepted(h) ==
    /\ Ready(hs[h]) /\ (hs[h].op.type = "settings" => hs[h].nlock)
    /\ Accepts(hs[h])
    /\ srv' = Effect(hs[h])
    /\ Set(h, [hs[h] EXCEPT !.state = "calling", !.reply = "ok", !.limit = srv'.limit,
                            !.decreased = srv'.limit < srv.limit,
                            !.acts = IF Final(hs[h]) THEN @ + 1 ELSE @])
    /\ insync' = (insync /\ ~Overlaps(h))
    /\ UNCHANGED ses

\* These calls answer with a bool, which may be false
AnswersBool(x) == x.action \in {"remove_account", "change_tx_limits", "set_csvtime", "set_nlocktime"}
CallDeclined(h) ==
    /\ Ready(hs[h]) /\ (hs[h].op.type = "settings" => hs[h].nlock)
    /\ AnswersBool(hs[h])
    /\ Set(h, [hs[h] EXCEPT !.state = "calling", !.reply = "declined", !.declined = TRUE])
    /\ UNCHANGED <<srv, ses, insync>>

\* A wrong code costs an attempt; without a code the server says what it likes
CallRejected(h) ==
    /\ Ready(hs[h]) /\ (hs[h].op.type = "settings" => hs[h].nlock)
    /\ ~Accepts(hs[h])
    /\ srv' = [srv EXCEPT !.codes = Miss(srv.codes, hs[h].method)]
    /\ \E reply \in {"invalid_code"} \cup {r \in {"refused"} : Sent(hs[h]) = NoAuth} :
         Set(h, [hs[h] EXCEPT !.state = "calling", !.reply = reply])
    /\ UNCHANGED <<ses, insync>>

\* Mutant: the attempts of the first code are not reset for the second
OnInitKeepsAttempts(x) ==
    [x EXCEPT !.state = "resolve_code", !.action = IF x.action = "set_email" THEN "activate_email" ELSE "enable_",
              !.method = x.op.m, !.methods = {x.op.m}, !.gauth = Sent(x), !.reply = ""]
\* Mutant: m_method is not assigned
OnInitKeepsMethod(x) ==
    [x EXCEPT !.state = "resolve_code", !.attempts = TWO_FACTOR_ATTEMPTS,
              !.action = IF x.action = "set_email" THEN "activate_email" ELSE "enable_",
              !.methods = {x.op.m}, !.gauth = Sent(x), !.reply = ""]

\* on_init_done: now ask for the code of the method being enabled, or of the
\* email being activated
OnInitDone(x) ==
    [x EXCEPT !.state = "resolve_code", !.attempts = TWO_FACTOR_ATTEMPTS,
              !.action = IF x.action = "set_email" THEN "activate_email" ELSE "enable_",
              !.method = x.op.m, !.methods = {x.op.m}, !.gauth = Sent(x), !.reply = ""]

EnableGauthInit(h) ==
    /\ hs[h].state = "make_call" /\ GauthInit(hs[h])
    /\ Set(h, OnInitDone(hs[h]))
    /\ UNCHANGED <<srv, ses, insync>>

\* Mutant: m_confirming is not set
CompletedNeverConfirms(x) ==
    CASE x.action \in {"set_email", "enable_2fa"} -> OnInitDone(x)
      [] x.action = "request_reset" ->
           [x EXCEPT !.state = "resolve_code", !.methods = {"email"}, !.method = "email",
                     !.attempts = TWO_FACTOR_ATTEMPTS, !.reply = ""]
      [] OTHER -> [x EXCEPT !.state = "done", !.reply = "", !.attempts = TWO_FACTOR_ATTEMPTS]

\* call_impl returns: the handler's next state ...
Completed(x) ==
    CASE x.action \in {"set_email", "enable_2fa"} -> OnInitDone(x)
      [] x.action = "request_reset" /\ ~x.confirming ->
           [x EXCEPT !.state = "resolve_code", !.confirming = TRUE, !.methods = {"email"},
                     !.method = "email", !.attempts = TWO_FACTOR_ATTEMPTS, !.reply = ""]
      [] OTHER -> [x EXCEPT !.state = IF x.action = "disable_2fa" /\ x.op.m = "gauth"
                                      THEN "reload" ELSE "done", !.reply = "",
                            !.attempts = TWO_FACTOR_ATTEMPTS]

\* Mutant: the local config and limits are only updated when they grow
CachedGrowsOnly(x) ==
    CASE x.action = "enable_" -> [ses EXCEPT !.enabled = @ \cup {x.op.m},
                                             !.confirmed = @ \/ x.op.m = "email"]
      [] x.action = "activate_email" -> [ses EXCEPT !.confirmed = TRUE]
      [] x.action = "change_tx_limits" /\ x.op.n > ses.limit -> [ses EXCEPT !.limit = x.op.n]
      [] x.action = "set_nlocktime" -> [ses EXCEPT !.nlock = x.op.n]
      [] OTHER -> ses

update_spending_limits(limit) == [ses EXCEPT !.limit = limit]
set_nlocktime(n) == [ses EXCEPT !.nlock = n]

\* ... and the session's copy
Cached(x) ==
    CASE x.action = "enable_" -> [ses EXCEPT !.enabled = @ \cup {x.op.m},
                                             !.confirmed = @ \/ x.op.m = "email"]
      [] x.action = "activate_email" -> [ses EXCEPT !.confirmed = TRUE]
      [] x.action = "disable_2fa" -> [ses EXCEPT !.enabled = @ \ {x.op.m},
                                                 !.confirmed = @ \/ x.op.m = "email"]
      [] x.action = "change_tx_limits" -> update_spending_limits(x.op.n)
      [] x.action = "send_raw_tx" /\ x.decreased -> update_spending_limits(x.limit)
      [] x.action = "set_nlocktime" -> set_nlocktime(x.op.n)
      [] OTHER -> ses

ReplyOk(h) ==
    /\ hs[h].state = "calling" /\ hs[h].reply = "ok"
    /\ Set(h, Completed(hs[h]))
    /\ ses' = Cached(hs[h])
    /\ UNCHANGED <<srv, insync>>

\* Mutant: m_attempts_remaining-- == 0
OutOfAttemptsLate(x) == x.attempts = 0
\* --m_attempts_remaining == 0
OutOfAttempts(x) == x.attempts = 1

\* The wrong code was entered: with gauth being enabled it may have been the
\* code of the other method, so both are asked for again
ReplyInvalidCode(h) ==
    LET x == hs[h] IN
    /\ x.state = "calling" /\ x.reply = "invalid_code"
    /\ Set(h, IF x.action = "enable_" /\ x.op.m = "gauth" /\ ses.enabled # {}
              THEN [x EXCEPT !.state = "request_code", !.action = "enable_2fa", !.reply = "",
                             !.methods = ses.enabled, !.attempts = TWO_FACTOR_ATTEMPTS]
              ELSE IF x.method = "gauth"
              THEN [x EXCEPT !.state = "resolve_code", !.reply = ""]
              ELSE [x EXCEPT !.attempts = @ - 1, !.reply = "",
                             !.state = IF OutOfAttempts(x) THEN "error" ELSE "resolve_code"])
    /\ UNCHANGED <<srv, ses, insync>>

\* Mutant: the bool of set_csvtime and set_nlocktime is not asserted
ReplyDeclinedUnchecked(h) ==
    /\ hs[h].state = "calling" /\ hs[h].reply = "declined"
    /\ Set(h, IF hs[h].action # "change_tx_limits"
              THEN Completed(hs[h]) ELSE set_error(hs[h]))
    /\ UNCHANGED <<srv, ses, insync>>
\* The bool is asserted, but remove_account_call drops it
ReplyDeclined(h) ==
    /\ hs[h].state = "calling" /\ hs[h].reply = "declined"
    /\ Set(h, IF hs[h].action = "remove_account"
              THEN Completed(hs[h]) ELSE set_error(hs[h]))
    /\ UNCHANGED <<srv, ses, insync>>

ReplyRefused(h) ==
    /\ hs[h].state = "calling" /\ hs[h].reply = "refused"
    /\ Set(h, set_error(hs[h]))
    /\ UNCHANGED <<srv, ses, insync>>

\* The connection fails before the server has seen the call, or the reply is
\* lost: any exception is an error
CallFails(h) ==
    /\ Ready(hs[h]) \/ hs[h].state = "calling"
    /\ insync' = (insync /\ hs[h].reply # "ok")
    /\ Set(h, set_error(hs[h]))
    /\ UNCHANGED <<srv, ses>>

\* After disabling gauth: get_twofactor_config(true), which unlocks to read ...
ReadConfig(h) ==
    /\ hs[h].state = "reload"
    /\ Set(h, [hs[h] EXCEPT !.state = "swap",
                 !.snap = [enabled |-> srv.enabled, confirmed |-> srv.confirmed]])
    /\ UNCHANGED <<srv, ses, insync>>
\* ... and then replaces the whole of m_twofactor_config
SwapConfig(h) ==
    /\ hs[h].state = "swap"
    /\ ses' = [ses EXCEPT !.enabled = hs[h].snap.enabled, !.confirmed = hs[h].snap.confirmed]
    /\ Set(h, [hs[h] EXCEPT !.state = "done"])
    /\ UNCHANGED <<srv, insync>>
ReloadFails(h) ==
    /\ hs[h].state = "reload"
    /\ Set(h, set_error(hs[h]))
    /\ UNCHANGED <<srv, ses, insync>>

\* change_settings: the session's copy of the appearance is set, then pushed
ChangeSettings(h) ==
    /\ hs[h].state = "make_call" /\ hs[h].op.type = "settings"
    /\ ses' = [ses EXCEPT !.look = hs[h].op.look]
    /\ Set(h, [hs[h] EXCEPT !.state = IF ses.look = hs[h].op.look THEN "pushed" ELSE "pushing"])
    /\ UNCHANGED <<srv, insync>>
PushAppearance(h) ==
    /\ hs[h].state = "pushing"
    /\ srv' = [srv EXCEPT !.look = hs[h].op.look]
    /\ Set(h, [hs[h] EXCEPT !.state = "pushed"])
    /\ UNCHANGED <<ses, insync>>
PushFails(h) ==
    /\ hs[h].state = "pushing"
    /\ Set(h, set_error(hs[h]))
    /\ insync' = FALSE
    /\ UNCHANGED <<srv, ses>>
\* No nlocktime to change
SettingsDone(h) ==
    /\ hs[h].state = "pushed" /\ ~hs[h].nlock
    /\ Set(h, [hs[h] EXCEPT !.state = "done", !.attempts = TWO_FACTOR_ATTEMPTS])
    /\ UNCHANGED <<srv, ses, insync>>

-----------------------------------------------------------------------------
\* The user is logged in twice in different apps
OtherApp ==
    /\ \E limit \in OtherLimits : srv' = [srv EXCEPT !.limit = limit]
    /\ insync' = FALSE
    /\ UNCHANGED <<ses, hs>>

Answer(h) ==
    \/ CallAccepted(h) \/ CallRejected(h) \/ CallDeclined(h) \/ EnableGauthInit(h)
    \/ ReplyOk(h) \/ ReplyInvalidCode(h) \/ ReplyDeclined(h) \/ ReplyRefused(h)
    \/ ReadConfig(h) \/ SwapConfig(h)
    \/ ChangeSettings(h) \/ PushAppearance(h) \/ SettingsDone(h)
Fail(h) == CallFails(h) \/ ReloadFails(h) \/ PushFails(h)

\* A handler that is not being worked on
Settled(x) == x.state \in {"none", "done", "error"}
\* At most one dialogue is open
OneAtATime == \A g, h \in Handlers : g # h => Settled(hs[g]) \/ Settled(hs[h])

Next ==
    /\ \/ OtherApp
       \/ \E h \in Handlers :
            \/ \E op \in Ops : Create(h, op)
            \/ Destroy(h)
            \/ \E m \in Methods : RequestCode(h, m) \/ RequestCodeFails(h, m)
            \/ \E right \in BOOLEAN : ResolveCode(h, right)
            \/ Answer(h) \/ Fail(h)
    /\ alone' = (alone /\ OneAtATime')

Spec == Init /\ [][Next]_vars

\* The user goes on and calls on the server end; nothing makes the user start
\* or give up
Fairness ==
    \A h \in Handlers :
        /\ WF_core(\E m \in Methods : RequestCode(h, m))
        /\ WF_core(\E right \in BOOLEAN : ResolveCode(h, right))
        /\ WF_core(Answer(h) \/ Fail(h))
FairSpec == Spec /\ Fairness

-----------------------------------------------------------------------------
(* Properties                                                              *)

States == {"none", "request_code", "resolve_code", "make_call", "calling", "reload", "swap",
           "pushing", "pushed", "done", "error"}
Actions == {ActionOf(type) : type \in Types} \cup {"", "enable_", "activate_email"}
Config == [enabled : SUBSET Methods, confirmed : BOOLEAN]
Code == [method : Methods \cup {""}, act : Actions] \cup {BadCode}

Session == [enabled : SUBSET Methods, confirmed : BOOLEAN, limit : Nat, nlock : Nat, look : Nat]
Server == [enabled : SUBSET Methods, confirmed : BOOLEAN, limit : Nat, nlock : Nat, look : Nat,
           codes : [Methods -> [act : Actions, left : 0 .. TWO_FACTOR_ATTEMPTS]]]
Handler == [op : Op \cup {NoOp}, state : States, methods : SUBSET Methods,
            method : Methods \cup {""}, action : Actions, code : Code,
            attempts : 0 .. TWO_FACTOR_ATTEMPTS, under : BOOLEAN, nlock : BOOLEAN,
            confirming : BOOLEAN, gauth : [method : Methods \cup {""}, code : Code],
            reply : {"", "ok", "invalid_code", "refused", "declined"}, limit : Nat,
            decreased : BOOLEAN, declined : BOOLEAN, snap : Config, acts : Nat]

\* The ranges of the state: the handler never counts its attempts below zero
\* and the spending limit is never overspent
TypeOK ==
    /\ srv \in Server
    /\ ses \in Session
    /\ hs \in [Handlers -> Handler]
    /\ insync \in BOOLEAN /\ alone \in BOOLEAN

\* Whatever goes wrong on the way (mistyped codes, lost replies, a restart of
\* the gauth dialogue), the server performs the operation of one handler at
\* most once, and "done" is shown only if it did.  The one exception is
\* remove_account_call, which does not look at the answer: it is "done" when
\* the server has declined to remove the account.
ExactlyOnce ==
    \A h \in Handlers :
        /\ hs[h].acts <= 1
        /\ hs[h].state = "done" /\ (hs[h].op.type = "settings" => hs[h].nlock)
             => hs[h].acts = 1 \/ (hs[h].op.type = "remove_account" /\ hs[h].declined)

\* While the application holds one dialogue at a time, the attempts the caller
\* is told of are those the server still gives for the code that was asked
\* for, through every phase of the dialogue.
AttemptsMatch ==
    \A h \in Handlers :
        insync /\ alone /\ hs[h].state \in {"resolve_code", "make_call"}
               /\ hs[h].method \notin {"", "gauth"}
            => srv.codes[hs[h].method].left = hs[h].attempts

\* While the application holds one dialogue at a time, a code the user got
\* right is never rejected: it is sent along with the method and the call it
\* was made out for.
RightCodeAccepted ==
    \A h \in Handlers :
        insync /\ alone /\ hs[h].reply = "invalid_code"
            => BadCode \in {hs[h].code, hs[h].gauth.code}

\* However the dialogues of several handlers overlap, the session knows the
\* server's two factor methods, limits and nlocktime, each whenever no call
\* that changes it is under way, as long as no reply was lost, no other app
\* interfered, and no two calls on the same one were under way together.
ConfigCurrent ==
    LET Busy(part) == \E h \in Handlers : InFlight(hs[h]) /\ Part(hs[h]) = part IN
    insync => /\ ~Busy("config") => ses.enabled = srv.enabled /\ ses.confirmed = srv.confirmed
              /\ ~Busy("limits") => ses.limit = srv.limit
              /\ ~Busy("nlocktime") => ses.nlock = srv.nlock

\* A user who mistypes only finitely many codes gets the operation done or
\* refused: one dialogue at a time has no way to ask for codes forever, as long
\* as no reply was lost (gauth codes are not counted, so a session that is wrong
\* about the server's methods may ask for them again and again).
Completes ==
    \A h \in Handlers :
        [](insync /\ alone) /\ <>[](hs[h].code # BadCode)
            => []<>(hs[h].state \in {"none", "done", "error"})
=============================================================================
