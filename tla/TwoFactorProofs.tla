--------------------------- MODULE TwoFactorProofs ---------------------------
(***************************************************************************)
(* Proofs about TwoFactor, for every set of handlers, calls and methods:   *)
(* the types of the state; that a handler's operation is performed at most *)
(* once; that the attempts and the codes agree with the server's while one *)
(* dialogue is held at a time; and that the session's copy of the settings *)
(* is the server's however the dialogues overlap.                          *)
(***************************************************************************)
EXTENDS TwoFactor, TLAPS

\* Which handlers the server has acted for, by the state they are in
Acted(x) ==
    /\ x.state \in {"none", "request_code", "resolve_code", "make_call", "pushing", "pushed"} => x.acts = 0
    /\ x.state = "calling" => x.acts = IF x.reply = "ok" /\ Final(x) THEN 1 ELSE 0
    /\ x.state \in {"reload", "swap"} => x.acts = 1
    /\ x.state = "done" => \/ x.acts = 1 \/ (x.op.type = "settings" /\ ~x.nlock)
                           \/ x.op.type = "remove_account" /\ x.declined
    /\ x.acts <= 1
\* Only an error is shown with no attempt left
Counted(x) == x.state # "error" => x.attempts > 0
\* A handler that exists has an operation; only a change of settings pushes
\* them, and only remove_account_call asks for the account's removal
Named(x) == /\ x.state # "none" => x.op \in Op
            /\ x.state \in {"pushing", "pushed"} => x.op.type = "settings"
            /\ x.action = "remove_account" => x.op.type = "remove_account"
            /\ x.reply = "declined" => x.declined
Good(x) == x \in Handler /\ Acted(x) /\ Counted(x) /\ Named(x)

IInv ==
    /\ srv \in Server /\ ses \in Session /\ insync \in BOOLEAN /\ alone \in BOOLEAN
    /\ hs \in [Handlers -> Handler]
    /\ \A h \in Handlers : Good(hs[h])

\* The attempts a code is given
LEMMA Attempts == TWO_FACTOR_ATTEMPTS \in 0 .. TWO_FACTOR_ATTEMPTS /\ TWO_FACTOR_ATTEMPTS > 0
  BY DEF TWO_FACTOR_ATTEMPTS

\* Replacing one handler by a good one keeps the handlers good
LEMMA SetGood ==
    ASSUME IInv, NEW h \in Handlers, NEW x, Good(x), Set(h, x)
    PROVE  hs' \in [Handlers -> Handler] /\ \A k \in Handlers : Good(hs'[k])
<1>1. x \in Handler BY DEF Good
<1>2. hs' \in [Handlers -> Handler] BY <1>1 DEF IInv, Set
<1>3. ASSUME NEW k \in Handlers PROVE Good(hs'[k])
  <2>1. CASE k = h
    <3>1. hs'[k] = x BY <2>1 DEF IInv, Set
    <3> QED BY <3>1
  <2>2. CASE k # h
    <3>1. hs'[k] = hs[k] BY <2>2 DEF IInv, Set
    <3> QED BY <3>1 DEF IInv
  <2> QED BY <2>1, <2>2
<1> QED BY <1>2, <1>3

\* The actions named by the calls are actions
LEMMA ActionTypes == \A op \in Op : Kind(op) \in Types /\ ActionOf(Kind(op)) \in Actions
<1> SUFFICES ASSUME NEW op \in Op PROVE Kind(op) \in Types /\ ActionOf(Kind(op)) \in Actions
  OBVIOUS
<1>1. Kind(op) \in Types BY DEF Kind, Op, Types
<1> QED BY <1>1 DEF Actions

\* A new handler is good
LEMMA NoHandlerGood == Good(NoHandler)
<1>1. /\ "" \in Actions
      /\ NoCode \in Code
      /\ "none" \in States
      /\ TWO_FACTOR_ATTEMPTS \in 0 .. TWO_FACTOR_ATTEMPTS
  BY DEF Actions, Code, NoCode, States, TWO_FACTOR_ATTEMPTS
<1>2. NoHandler \in Handler
  <2>1. NoAuth \in [method : Methods \cup {""}, code : Code] BY <1>1 DEF NoAuth
  <2>2. [enabled |-> {}, confirmed |-> FALSE] \in Config BY DEF Config
  <2> QED BY <1>1, <2>1, <2>2 DEF NoHandler, Handler
<1>3. Acted(NoHandler) /\ Counted(NoHandler) /\ Named(NoHandler)
  BY DEF Acted, Counted, Named, NoHandler, TWO_FACTOR_ATTEMPTS
<1> QED BY <1>2, <1>3 DEF Good

\* The invariant holds before the first handler is made
LEMMA InitIInv == Init => IInv
<1> SUFFICES ASSUME Init PROVE IInv OBVIOUS
<1>1. {0} \cup {op.n : op \in {o \in Ops : o.type = "limits"}} \subseteq Nat BY OpsAssumption DEF Op
<1>2. ses \in Session BY <1>1 DEF Init, Session
<1>3. NoIssue \in [act : Actions, left : 0 .. TWO_FACTOR_ATTEMPTS]
  BY DEF NoIssue, Actions, TWO_FACTOR_ATTEMPTS
<1>4. srv \in Server BY <1>1, <1>3 DEF Init, Server
<1>5. \A h \in Handlers : hs[h] = NoHandler BY DEF Init
<1>6. hs \in [Handlers -> Handler] BY NoHandlerGood DEF Init, Good
<1> QED BY <1>2, <1>4, <1>5, <1>6, NoHandlerGood DEF IInv, Init

\* The constructors keep the invariant
LEMMA CreateIInv ==
    ASSUME IInv, alone' \in BOOLEAN, NEW h \in Handlers, NEW op \in Ops, Create(h, op)
    PROVE  IInv'
<1>1. op \in Op BY OpsAssumption
<1> DEFINE st == IF AlreadySo(op) \/ BadSeed(op) THEN "error"
                   ELSE IF \/ ses.enabled = {} \/ op.type = "reset"
                           \/ UnderLimit(op) \/ IsDecrease(op)
                           \/ op.type = "settings" /\ ~ChangesNlock(op)
                        THEN "make_call" ELSE "request_code"
           x == [NoHandler EXCEPT
         !.op = op, !.methods = ses.enabled, !.action = ActionOf(Kind(op)),
         !.under = UnderLimit(op), !.nlock = ChangesNlock(op), !.state = st]
<1>2. st \in {"error", "make_call", "request_code"} OBVIOUS
<1>3. Set(h, x) BY DEF Create
<1>4. Good(x)
  <2>1. UnderLimit(op) \in BOOLEAN /\ ChangesNlock(op) \in BOOLEAN BY DEF UnderLimit, ChangesNlock
  <2>2. ActionOf(Kind(op)) \in Actions BY <1>1, ActionTypes
  <2>3. ses.enabled \in SUBSET Methods BY DEF IInv, Session
  <2> HIDE DEF st
  <2>4. x \in Handler BY <1>1, <1>2, <2>1, <2>2, <2>3, NoHandlerGood DEF Good, Handler, States
  <2>5. ActionOf(Kind(op)) = "remove_account" => op.type = "remove_account"
    <3>1. \A k \in Types : ActionOf(k) = "remove_account" => k = "remove_account"
      BY DEF ActionOf, Types, Plain
    <3>2. Kind(op) \in Types BY <1>1, ActionTypes
    <3> QED BY <3>1, <3>2 DEF Kind
  <2>6. Acted(x) /\ Counted(x) /\ Named(x)
    BY <1>1, <1>2, <2>5 DEF NoHandler, Acted, Counted, Named, TWO_FACTOR_ATTEMPTS
  <2> QED BY <2>4, <2>6 DEF Good
<1> HIDE DEF x
<1>5. hs' \in [Handlers -> Handler] /\ \A k \in Handlers : Good(hs'[k]) BY <1>3, <1>4, SetGood
<1> QED BY <1>5 DEF IInv, Create

\* So does destroying a handler
LEMMA DestroyIInv ==
    ASSUME IInv, alone' \in BOOLEAN, NEW h \in Handlers, Destroy(h)
    PROVE  IInv'
<1>1. hs' \in [Handlers -> Handler] /\ \A k \in Handlers : Good(hs'[k])
  BY NoHandlerGood, SetGood DEF Destroy
<1> QED BY <1>1 DEF IInv, Destroy

\* Issuing, spending and missing a code keep the server's codes well typed
LEMMA CodeTypes ==
    ASSUME IInv
    PROVE  /\ \A act \in Actions, m \in Methods :
                [srv EXCEPT !.codes[m] = Issue(act)] \in Server
           /\ \A m : Spend(srv.codes, m) \in [Methods -> [act : Actions, left : 0 .. TWO_FACTOR_ATTEMPTS]]
           /\ \A m : Miss(srv.codes, m) \in [Methods -> [act : Actions, left : 0 .. TWO_FACTOR_ATTEMPTS]]
<1> DEFINE I == [act : Actions, left : 0 .. TWO_FACTOR_ATTEMPTS]
<1>1. srv \in Server /\ srv.codes \in [Methods -> I] BY DEF IInv, Server
<1>2. \A act \in Actions : Issue(act) \in I BY DEF Issue, TWO_FACTOR_ATTEMPTS
<1>3. NoIssue \in I BY DEF NoIssue, Actions, TWO_FACTOR_ATTEMPTS
<1>4. \A i \in I : i.left > 0 => [i EXCEPT !.left = @ - 1] \in I BY DEF TWO_FACTOR_ATTEMPTS
<1> HIDE DEF I
<1>5. \A act \in Actions, m \in Methods : [srv.codes EXCEPT ![m] = Issue(act)] \in [Methods -> I]
  BY <1>1, <1>2
<1>6. \A act \in Actions, m \in Methods : [srv EXCEPT !.codes[m] = Issue(act)] \in Server
  BY <1>1, <1>5 DEF Server, I
<1>7. \A m : Spend(srv.codes, m) \in [Methods -> I] BY <1>1, <1>3 DEF Spend
<1>8. \A m : Miss(srv.codes, m) \in [Methods -> I] BY <1>1, <1>4 DEF Miss
<1> QED BY <1>6, <1>7, <1>8 DEF I

\* auth_handler::request_code keeps the invariant, also when the call throws
LEMMA RequestCodeIInv ==
    ASSUME IInv, alone' \in BOOLEAN, NEW h \in Handlers, NEW m \in Methods,
           RequestCode(h, m) \/ RequestCodeFails(h, m)
    PROVE  IInv'
<1> DEFINE x == hs[h]
<1>1. Good(x) /\ x.action \in Actions BY DEF IInv, Good, Handler
<1>2. srv' \in Server
  <2>1. srv \in Server /\ [srv EXCEPT !.codes[m] = Issue(x.action)] \in Server BY <1>1, CodeTypes DEF IInv
  <2>2. srv' = srv \/ srv' = [srv EXCEPT !.codes[m] = Issue(x.action)]
    BY DEF RequestCode, RequestCodeFails
  <2> QED BY <2>1, <2>2
<1>3. CASE RequestCode(h, m)
  <2> DEFINE y == [x EXCEPT !.state = "resolve_code", !.method = m,
                            !.attempts = TWO_FACTOR_ATTEMPTS, !.under = FALSE]
  <2>1. Set(h, y) /\ x.state = "request_code" BY <1>3 DEF RequestCode
  <2>2. y \in Handler BY <1>1, Attempts DEF Good, Handler, States
  <2>3. Acted(y) /\ Counted(y) /\ Named(y)
    BY <1>1, <2>1, Attempts DEF Good, Handler, Acted, Counted, Named
  <2>4. Good(y) BY <2>2, <2>3 DEF Good
  <2> HIDE DEF y
  <2>5. hs' \in [Handlers -> Handler] /\ \A k \in Handlers : Good(hs'[k]) BY <2>1, <2>4, SetGood
  <2> QED BY <1>2, <1>3, <2>5 DEF IInv, RequestCode
<1>4. CASE RequestCodeFails(h, m)
  <2> DEFINE st == IF x.op.type = "send" THEN "error" ELSE x.state
             y == [x EXCEPT !.under = FALSE, !.state = st]
  <2>1. Set(h, y) /\ x.state = "request_code" BY <1>4 DEF RequestCodeFails
  <2>2. st \in {"error", "request_code"} BY <2>1
  <2> HIDE DEF st
  <2>3. y \in Handler BY <1>1, <2>2 DEF Good, Handler, States
  <2>4. Acted(y) /\ Counted(y) /\ Named(y)
    BY <1>1, <2>1, <2>2 DEF Good, Handler, Acted, Counted, Named
  <2>5. Good(y) BY <2>3, <2>4 DEF Good
  <2> HIDE DEF y
  <2>6. hs' \in [Handlers -> Handler] /\ \A k \in Handlers : Good(hs'[k]) BY <2>1, <2>5, SetGood
  <2> QED BY <1>2, <1>4, <2>6 DEF IInv, RequestCodeFails
<1> QED BY <1>3, <1>4

\* auth_handler::resolve_code keeps it
LEMMA ResolveCodeIInv ==
    ASSUME IInv, alone' \in BOOLEAN, NEW h \in Handlers, NEW right \in BOOLEAN, ResolveCode(h, right)
    PROVE  IInv'
<1> DEFINE x == hs[h]
           c == IF right THEN [method |-> x.method, act |-> x.action] ELSE BadCode
           y == [x EXCEPT !.state = "make_call", !.code = c]
<1>1. Good(x) BY DEF IInv
<1>2. Set(h, y) /\ x.state = "resolve_code" BY DEF ResolveCode
<1>3. c \in Code BY <1>1 DEF Good, Handler, Code
<1> HIDE DEF c
<1>4. y \in Handler BY <1>1, <1>3 DEF Good, Handler, States
<1>5. Acted(y) /\ Counted(y) /\ Named(y) BY <1>1, <1>2 DEF Good, Handler, Acted, Counted, Named
<1>6. Good(y) BY <1>4, <1>5 DEF Good
<1> HIDE DEF y
<1>7. hs' \in [Handlers -> Handler] /\ \A k \in Handlers : Good(hs'[k]) BY <1>2, <1>6, SetGood
<1> QED BY <1>7 DEF IInv, ResolveCode

\* What an accepted call does to the server keeps its types
LEMMA EffectType ==
    ASSUME IInv, NEW x, Good(x), x.op \in Op
    PROVE  Effect(x) \in Server
<1> DEFINE C == [Methods -> [act : Actions, left : 0 .. TWO_FACTOR_ATTEMPTS]]
           s == [srv EXCEPT !.codes = Spend(srv.codes, x.method)]
<1>1. x.op.m \in Methods /\ x.op.n \in Nat /\ "email" \in Methods
  BY MethodsAssumption DEF Op
<1>2. s \in Server BY CodeTypes DEF IInv, Server
<1>3. \A m \in Methods, act \in Actions : [s EXCEPT !.codes[m] = Issue(act)] \in Server
  <2>1. s.codes \in C BY <1>2 DEF Server
  <2>2. \A act \in Actions : Issue(act) \in [act : Actions, left : 0 .. TWO_FACTOR_ATTEMPTS]
    BY Attempts DEF Issue
  <2> HIDE DEF s
  <2>3. \A m \in Methods, act \in Actions : [s.codes EXCEPT ![m] = Issue(act)] \in C BY <2>1, <2>2
  <2> QED BY <1>2, <2>3 DEF Server
<1>4. "enable_" \in Actions /\ "activate_email" \in Actions BY DEF Actions
<1>5. "request_reset" \in Actions
  <2>1. ActionOf("reset") = "request_reset" BY DEF ActionOf
  <2> QED BY <2>1 DEF Actions, Types
<1>6. \A b \in BOOLEAN : [s EXCEPT !.enabled = @ \cup {x.op.m}, !.confirmed = @ \/ b] \in Server
  <2> HIDE DEF s
  <2> QED BY <1>1, <1>2 DEF Server
<1>7. [s EXCEPT !.confirmed = TRUE] \in Server
  <2> HIDE DEF s
  <2> QED BY <1>2 DEF Server
<1>8. [s EXCEPT !.enabled = @ \ {x.op.m}] \in Server
  <2> HIDE DEF s
  <2> QED BY <1>2 DEF Server
<1>9. [s EXCEPT !.limit = x.op.n] \in Server /\ [s EXCEPT !.nlock = x.op.n] \in Server
  <2> HIDE DEF s
  <2> QED BY <1>1, <1>2 DEF Server
<1>10. [s EXCEPT !.limit = IF x.under /\ x.op.n <= @ THEN @ - x.op.n ELSE @] \in Server
  <2> DEFINE n == IF x.under /\ x.op.n <= s.limit THEN s.limit - x.op.n ELSE s.limit
  <2> HIDE DEF s
  <2>1. s.limit \in Nat BY <1>2 DEF Server
  <2>2. n \in Nat BY <1>1, <2>1
  <2> HIDE DEF n
  <2>3. [s EXCEPT !.limit = n] \in Server BY <1>2, <2>2 DEF Server
  <2> QED BY <2>3 DEF n
<1> HIDE DEF s
<1> QED BY <1>1, <1>2, <1>3, <1>4, <1>5, <1>6, <1>7, <1>8, <1>9, <1>10 DEF Effect, s

\* An accepted call is the only step that counts as an act
LEMMA CallAcceptedIInv ==
    ASSUME IInv, alone' \in BOOLEAN, NEW h \in Handlers, CallAccepted(h)
    PROVE  IInv'
<1> DEFINE x == hs[h]
           a == IF Final(x) THEN x.acts + 1 ELSE x.acts
           d == srv'.limit < srv.limit
           y == [x EXCEPT !.state = "calling", !.reply = "ok", !.limit = srv'.limit,
                            !.decreased = d, !.acts = a]
<1>1. Good(x) BY DEF IInv
<1>2. x.state \in {"pushed", "make_call"} /\ x.op \in Op
  BY <1>1 DEF CallAccepted, Ready, Good, Named
<1>3. x.acts = 0 /\ x.attempts > 0 BY <1>1, <1>2 DEF Good, Acted, Counted
<1>4. srv' \in Server BY <1>1, <1>2, EffectType DEF CallAccepted
<1>5. Set(h, y) BY DEF CallAccepted
<1>6. a = (IF Final(x) THEN 1 ELSE 0) BY <1>3
<1>7. srv'.limit \in Nat BY <1>4 DEF Server
<1>8. /\ y.state = "calling" /\ y.reply = "ok" /\ y.acts = a /\ y.op = x.op
      /\ y.attempts = x.attempts /\ y.action = x.action /\ y.confirming = x.confirming
  BY <1>1 DEF Good, Handler
<1>9. y \in Handler
  <2>1. a \in Nat /\ d \in BOOLEAN BY <1>6
  <2> HIDE DEF a, d
  <2> QED BY <1>1, <1>7, <2>1 DEF Good, Handler, States
<1> HIDE DEF y, a, d
<1>10. Final(y) <=> Final(x) BY <1>8 DEF Final
<1>11. Good(y) BY <1>1, <1>2, <1>3, <1>6, <1>8, <1>9, <1>10 DEF Good, Acted, Counted, Named
<1>12. hs' \in [Handlers -> Handler] /\ \A k \in Handlers : Good(hs'[k]) BY <1>5, <1>11, SetGood
<1> QED BY <1>4, <1>12 DEF IInv, CallAccepted

\* A rejected call costs the server's code an attempt and nothing else
LEMMA CallRejectedIInv ==
    ASSUME IInv, alone' \in BOOLEAN, NEW h \in Handlers, CallRejected(h)
    PROVE  IInv'
<1> DEFINE x == hs[h]
<1>1. Good(x) BY DEF IInv
<1>2. x.state \in {"pushed", "make_call"} /\ x.op \in Op
  BY <1>1 DEF CallRejected, Ready, Good, Named
<1>3. x.acts = 0 /\ x.attempts > 0 BY <1>1, <1>2 DEF Good, Acted, Counted
<1>4. srv' \in Server BY CodeTypes DEF CallRejected, IInv, Server
<1>5. PICK reply \in {"invalid_code", "refused"} :
        Set(h, [x EXCEPT !.state = "calling", !.reply = reply])
  BY DEF CallRejected
<1> DEFINE y == [x EXCEPT !.state = "calling", !.reply = reply]
<1>6. y \in Handler BY <1>1 DEF Good, Handler, States
<1>7. /\ y.state = "calling" /\ y.reply = reply /\ y.acts = x.acts /\ y.op = x.op
      /\ y.attempts = x.attempts /\ y.action = x.action
  BY <1>1 DEF Good, Handler
<1>8. Set(h, y) BY <1>5
<1> HIDE DEF y
<1>9. Good(y) BY <1>1, <1>2, <1>3, <1>6, <1>7 DEF Good, Acted, Counted, Named
<1>10. hs' \in [Handlers -> Handler] /\ \A k \in Handlers : Good(hs'[k]) BY <1>8, <1>9, SetGood
<1> QED BY <1>4, <1>10 DEF IInv, CallRejected

\* A declined one changes nothing
LEMMA CallDeclinedIInv ==
    ASSUME IInv, alone' \in BOOLEAN, NEW h \in Handlers, CallDeclined(h)
    PROVE  IInv'
<1> DEFINE x == hs[h]
           y == [x EXCEPT !.state = "calling", !.reply = "declined", !.declined = TRUE]
<1>1. Good(x) BY DEF IInv
<1>2. x.state \in {"pushed", "make_call"} /\ x.op \in Op
  BY <1>1 DEF CallDeclined, Ready, Good, Named
<1>3. x.acts = 0 /\ x.attempts > 0 BY <1>1, <1>2 DEF Good, Acted, Counted
<1>4. Set(h, y) BY DEF CallDeclined
<1>5. y \in Handler BY <1>1 DEF Good, Handler, States
<1>6. /\ y.state = "calling" /\ y.reply = "declined" /\ y.acts = x.acts /\ y.op = x.op
      /\ y.attempts = x.attempts /\ y.action = x.action /\ y.declined
  BY <1>1 DEF Good, Handler
<1> HIDE DEF y
<1>7. Good(y) BY <1>1, <1>2, <1>3, <1>5, <1>6 DEF Good, Acted, Counted, Named
<1>8. hs' \in [Handlers -> Handler] /\ \A k \in Handlers : Good(hs'[k]) BY <1>4, <1>7, SetGood
<1> QED BY <1>8 DEF IInv, CallDeclined

\* Moving on to the second code is good for a handler the server has not acted for
LEMMA OnInitDoneGood ==
    ASSUME NEW x, Good(x), x.op \in Op, x.acts = 0
    PROVE  Good(OnInitDone(x))
<1> DEFINE act == IF x.action = "set_email" THEN "activate_email" ELSE "enable_"
           y == OnInitDone(x)
<1>1. x.op.m \in Methods BY DEF Op
<1>2. act \in Actions /\ act # "remove_account" BY DEF Actions
<1>3. Sent(x) \in [method : Methods \cup {""}, code : Code]
  BY NoHandlerGood DEF Good, Handler, Sent, NoHandler
<1> HIDE DEF act
<1>4. y = [x EXCEPT !.state = "resolve_code", !.attempts = TWO_FACTOR_ATTEMPTS, !.action = act,
              !.method = x.op.m, !.methods = {x.op.m}, !.gauth = Sent(x), !.reply = ""]
  BY DEF OnInitDone, act
<1> HIDE DEF y
<1>5. y \in Handler BY <1>1, <1>2, <1>3, <1>4, Attempts DEF Good, Handler, States
<1>6. /\ y.state = "resolve_code" /\ y.acts = x.acts /\ y.op = x.op /\ y.action = act
      /\ y.attempts = TWO_FACTOR_ATTEMPTS /\ y.reply = ""
  BY <1>4 DEF Good, Handler
<1>7. Good(y) BY <1>2, <1>5, <1>6, Attempts DEF Good, Acted, Counted, Named
<1> QED BY <1>7 DEF y

\* Enabling gauth moves on without a call
LEMMA EnableGauthInitIInv ==
    ASSUME IInv, alone' \in BOOLEAN, NEW h \in Handlers, EnableGauthInit(h)
    PROVE  IInv'
<1>1. Good(hs[h]) /\ hs[h].state = "make_call" BY DEF IInv, EnableGauthInit
<1>2. hs[h].op \in Op /\ hs[h].acts = 0 BY <1>1 DEF Good, Acted, Named
<1>3. Good(OnInitDone(hs[h])) BY <1>1, <1>2, OnInitDoneGood
<1>4. hs' \in [Handlers -> Handler] /\ \A k \in Handlers : Good(hs'[k])
  BY <1>3, SetGood DEF EnableGauthInit
<1> QED BY <1>4 DEF IInv, EnableGauthInit

\* A call that returns leaves a handler that is done only if the server acted
LEMMA CompletedGood ==
    ASSUME NEW x, Good(x), x.state = "calling", x.reply = "ok"
    PROVE  Good(Completed(x))
<1>1. x.op \in Op /\ x.acts = (IF Final(x) THEN 1 ELSE 0) BY DEF Good, Named, Acted
<1>2. CASE x.action \in {"set_email", "enable_2fa"}
  <2>1. x.acts = 0 BY <1>1, <1>2 DEF Final
  <2> QED BY <1>1, <1>2, <2>1, OnInitDoneGood DEF Completed
<1>3. CASE x.action = "request_reset" /\ ~x.confirming
  <2> DEFINE y == [x EXCEPT !.state = "resolve_code", !.confirming = TRUE, !.methods = {"email"},
                     !.method = "email", !.attempts = TWO_FACTOR_ATTEMPTS, !.reply = ""]
  <2>1. x.acts = 0 BY <1>1, <1>3 DEF Final
  <2>2. y \in Handler BY MethodsAssumption, Attempts DEF Good, Handler, States
  <2>3. /\ y.state = "resolve_code" /\ y.acts = 0 /\ y.op = x.op /\ y.action = x.action
        /\ y.attempts = TWO_FACTOR_ATTEMPTS
    BY <2>1 DEF Good, Handler
  <2>7. y.reply = "" BY DEF Good, Handler
  <2>4. y = Completed(x) BY <1>3 DEF Completed
  <2> HIDE DEF y
  <2>5. Named(y) BY <1>1, <2>3, <2>7 DEF Good, Named
  <2>6. Acted(y) /\ Counted(y) BY <2>3, Attempts DEF Acted, Counted
  <2> QED BY <2>2, <2>4, <2>5, <2>6 DEF Good
<1>4. CASE /\ x.action \notin {"set_email", "enable_2fa"}
           /\ ~(x.action = "request_reset" /\ ~x.confirming)
  <2> DEFINE st == IF x.action = "disable_2fa" /\ x.op.m = "gauth" THEN "reload" ELSE "done"
             y == [x EXCEPT !.state = st, !.reply = "", !.attempts = TWO_FACTOR_ATTEMPTS]
  <2>1. x.acts = 1
    <3>1. Final(x) BY <1>4 DEF Final
    <3> QED BY <1>1, <3>1
  <2>2. y = Completed(x) BY <1>4 DEF Completed
  <2>3. st \in {"reload", "done"} OBVIOUS
  <2> HIDE DEF st
  <2>4. y \in Handler BY <2>3, Attempts DEF Good, Handler, States
  <2>5. /\ y.state = st /\ y.acts = 1 /\ y.op = x.op /\ y.attempts = TWO_FACTOR_ATTEMPTS
        /\ y.action = x.action
    BY <2>1 DEF Good, Handler
  <2>8. y.reply = "" BY DEF Good, Handler
  <2> HIDE DEF y
  <2>6. Named(y) BY <1>1, <2>3, <2>5, <2>8 DEF Good, Named
  <2>7. Acted(y) /\ Counted(y) BY <2>3, <2>5, Attempts DEF Acted, Counted
  <2> QED BY <2>2, <2>4, <2>6, <2>7 DEF Good
<1> QED BY <1>2, <1>3, <1>4

\* The reply updates the handler and the session's copy
LEMMA ReplyOkIInv ==
    ASSUME IInv, alone' \in BOOLEAN, NEW h \in Handlers, ReplyOk(h)
    PROVE  IInv'
<1> DEFINE x == hs[h]
<1>1. Good(x) /\ x.state = "calling" /\ x.reply = "ok" BY DEF IInv, ReplyOk
<1>2. hs' \in [Handlers -> Handler] /\ \A k \in Handlers : Good(hs'[k])
  BY <1>1, CompletedGood, SetGood DEF ReplyOk
<1>3. ses' \in Session
  <2>1. x.op.m \in Methods /\ x.op.n \in Nat /\ x.limit \in Nat
    BY <1>1 DEF Good, Named, Op, Handler
  <2>2. ses \in Session /\ ses.limit \in Nat BY DEF IInv, Session
  <2> HIDE DEF x
  <2>3. \A b \in BOOLEAN :
          /\ [ses EXCEPT !.enabled = @ \cup {x.op.m}, !.confirmed = @ \/ b] \in Session
          /\ [ses EXCEPT !.enabled = @ \ {x.op.m}, !.confirmed = @ \/ b] \in Session
    BY <2>1, <2>2 DEF Session
  <2>4. [ses EXCEPT !.confirmed = TRUE] \in Session BY <2>2 DEF Session
  <2>5. \A n \in Nat : [ses EXCEPT !.limit = n] \in Session /\ [ses EXCEPT !.nlock = n] \in Session
    BY <2>2 DEF Session
  <2>6. Cached(x) \in Session BY <2>1, <2>2, <2>3, <2>4, <2>5
    DEF Cached, update_spending_limits, set_nlocktime
  <2> QED BY <2>6 DEF ReplyOk, x
<1> QED BY <1>2, <1>3 DEF IInv, ReplyOk

\* A wrong code never takes the attempts below zero
LEMMA ReplyInvalidCodeIInv ==
    ASSUME IInv, alone' \in BOOLEAN, NEW h \in Handlers, ReplyInvalidCode(h)
    PROVE  IInv'
<1> DEFINE x == hs[h]
<1>1. Good(x) /\ x.state = "calling" /\ x.reply = "invalid_code" BY DEF IInv, ReplyInvalidCode
<1>2. x.op \in Op /\ x.acts = 0 /\ x.attempts > 0 BY <1>1 DEF Good, Acted, Counted, Named
<1>3. "enable_2fa" \in Actions
  <2>1. ActionOf("enable") = "enable_2fa" BY DEF ActionOf
  <2> QED BY <2>1 DEF Actions, Types
<1>4. ses.enabled \in SUBSET Methods BY DEF IInv, Session
<1> DEFINE y1 == [x EXCEPT !.state = "request_code", !.action = "enable_2fa", !.reply = "",
                           !.methods = ses.enabled, !.attempts = TWO_FACTOR_ATTEMPTS]
           y2 == [x EXCEPT !.state = "resolve_code", !.reply = ""]
           st == IF OutOfAttempts(x) THEN "error" ELSE "resolve_code"
           y3 == [x EXCEPT !.attempts = @ - 1, !.reply = "", !.state = st]
<1>5. Set(h, y1) \/ Set(h, y2) \/ Set(h, y3) BY DEF ReplyInvalidCode
<1>6. Good(y1)
  <2>1. y1 \in Handler BY <1>1, <1>3, <1>4, Attempts DEF Good, Handler, States
  <2>2. /\ y1.state = "request_code" /\ y1.acts = 0 /\ y1.op = x.op
        /\ y1.attempts = TWO_FACTOR_ATTEMPTS /\ y1.action = "enable_2fa"
    BY <1>1, <1>2 DEF Good, Handler
  <2>5. y1.reply = "" BY <1>1 DEF Good, Handler
  <2> HIDE DEF y1
  <2>3. Named(y1) BY <1>2, <2>2, <2>5 DEF Named
  <2>4. Acted(y1) /\ Counted(y1) BY <2>2, Attempts DEF Acted, Counted
  <2> QED BY <2>1, <2>3, <2>4 DEF Good
<1>7. Good(y2)
  <2>1. y2 \in Handler BY <1>1 DEF Good, Handler, States
  <2>2. /\ y2.state = "resolve_code" /\ y2.acts = 0 /\ y2.op = x.op /\ y2.attempts = x.attempts
        /\ y2.action = x.action /\ y2.reply = ""
    BY <1>1, <1>2 DEF Good, Handler
  <2> HIDE DEF y2
  <2> QED BY <1>1, <1>2, <2>1, <2>2 DEF Good, Acted, Counted, Named
<1>8. Good(y3)
  <2>1. x.attempts \in 0 .. TWO_FACTOR_ATTEMPTS BY <1>1 DEF Good, Handler
  <2>2. x.attempts - 1 \in 0 .. TWO_FACTOR_ATTEMPTS BY <1>2, <2>1 DEF TWO_FACTOR_ATTEMPTS
  <2>3. \/ st = "error"
        \/ st = "resolve_code" /\ x.attempts - 1 > 0
    BY <1>2, <2>1 DEF OutOfAttempts, TWO_FACTOR_ATTEMPTS
  <2> HIDE DEF st
  <2>4. y3 \in Handler BY <1>1, <2>2, <2>3 DEF Good, Handler, States
  <2>5. /\ y3.state = st /\ y3.acts = 0 /\ y3.op = x.op /\ y3.attempts = x.attempts - 1
        /\ y3.action = x.action /\ y3.reply = ""
    BY <1>1, <1>2 DEF Good, Handler
  <2> HIDE DEF y3
  <2> QED BY <1>1, <1>2, <2>3, <2>4, <2>5 DEF Good, Acted, Counted, Named
<1> HIDE DEF y1, y2, y3
<1>9. hs' \in [Handlers -> Handler] /\ \A k \in Handlers : Good(hs'[k])
  BY <1>5, <1>6, <1>7, <1>8, SetGood
<1> QED BY <1>9 DEF IInv, ReplyInvalidCode

\* An error may be shown whether or not the server has acted
LEMMA set_errorGood ==
    ASSUME NEW x, Good(x), x.state # "none"
    PROVE  Good(set_error(x))
<1> DEFINE y == set_error(x)
<1>1. y \in Handler BY DEF Good, Handler, States, set_error
<1>2. /\ y.state = "error" /\ y.acts = x.acts /\ y.op = x.op
      /\ y.action = x.action /\ y.reply = ""
  BY DEF Good, Handler, set_error
<1>3. x.op \in Op /\ x.acts <= 1 BY DEF Good, Named, Acted
<1> HIDE DEF y
<1>4. Good(y) BY <1>1, <1>2, <1>3 DEF Good, Acted, Counted, Named
<1> QED BY <1>4 DEF y

\* A declined call ends in an error, a declined removal of the account is done
LEMMA ReplyDeclinedIInv ==
    ASSUME IInv, alone' \in BOOLEAN, NEW h \in Handlers, ReplyDeclined(h)
    PROVE  IInv'
<1> DEFINE x == hs[h]
           y == [x EXCEPT !.state = "done", !.reply = "", !.attempts = TWO_FACTOR_ATTEMPTS]
<1>1. Good(x) /\ x.state = "calling" /\ x.reply = "declined" BY DEF IInv, ReplyDeclined
<1>2. ASSUME x.action = "remove_account" PROVE Good(Completed(x))
  <2>1. x.op \in Op /\ x.acts = 0 /\ x.op.type = "remove_account" /\ x.declined
    BY <1>1, <1>2 DEF Good, Acted, Named
  <2>2. y = Completed(x) BY <1>2 DEF Completed
  <2>3. y \in Handler BY <1>1, Attempts DEF Good, Handler, States
  <2>4. /\ y.state = "done" /\ y.acts = 0 /\ y.op = x.op /\ y.attempts = TWO_FACTOR_ATTEMPTS
        /\ y.action = x.action /\ y.declined = x.declined
    BY <1>1, <2>1 DEF Good, Handler
  <2>7. y.reply = "" BY <1>1 DEF Good, Handler
  <2> HIDE DEF y
  <2>5. Named(y) BY <2>1, <2>4, <2>7 DEF Named
  <2>6. Acted(y) /\ Counted(y) BY <2>1, <2>4, Attempts DEF Acted, Counted
  <2> QED BY <2>2, <2>3, <2>5, <2>6 DEF Good
<1>3. Good(set_error(x)) BY <1>1, set_errorGood
<1>4. hs' \in [Handlers -> Handler] /\ \A k \in Handlers : Good(hs'[k])
  BY <1>2, <1>3, SetGood DEF ReplyDeclined
<1> QED BY <1>4 DEF IInv, ReplyDeclined

\* Errors: failed calls, refused ones, a failed reload or push
LEMMA FailIInv ==
    ASSUME IInv, alone' \in BOOLEAN, NEW h \in Handlers, Fail(h) \/ ReplyRefused(h)
    PROVE  IInv'
<1>1. Good(hs[h]) BY DEF IInv
<1>2. hs[h].state # "none" /\ Set(h, set_error(hs[h]))
  BY DEF Fail, CallFails, Ready, ReloadFails, PushFails, ReplyRefused
<1>3. hs' \in [Handlers -> Handler] /\ \A k \in Handlers : Good(hs'[k])
  BY <1>1, <1>2, set_errorGood, SetGood
<1>4. srv' = srv /\ ses' = ses BY DEF Fail, CallFails, ReloadFails, PushFails, ReplyRefused
<1>5. insync' \in BOOLEAN BY DEF IInv, Fail, CallFails, ReloadFails, PushFails, ReplyRefused
<1> QED BY <1>3, <1>4, <1>5 DEF IInv

\* The reload of the config after gauth was disabled
LEMMA ReloadIInv ==
    ASSUME IInv, alone' \in BOOLEAN, NEW h \in Handlers, ReadConfig(h) \/ SwapConfig(h)
    PROVE  IInv'
<1> DEFINE x == hs[h]
           c == [enabled |-> srv.enabled, confirmed |-> srv.confirmed]
           y1 == [x EXCEPT !.state = "swap", !.snap = c]
           y2 == [x EXCEPT !.state = "done"]
<1>1. Good(x) /\ x.state \in {"reload", "swap"} BY DEF IInv, ReadConfig, SwapConfig
<1>2. x.op \in Op /\ x.acts = 1 /\ x.attempts > 0 BY <1>1 DEF Good, Acted, Counted, Named
<1>3. c \in Config BY DEF IInv, Server, Config
<1>4. Good(y1)
  <2> HIDE DEF c
  <2>1. y1 \in Handler BY <1>1, <1>3 DEF Good, Handler, States
  <2>2. /\ y1.state = "swap" /\ y1.acts = 1 /\ y1.op = x.op /\ y1.attempts = x.attempts
        /\ y1.action = x.action /\ y1.reply = x.reply /\ y1.declined = x.declined
    BY <1>1, <1>2 DEF Good, Handler
  <2> HIDE DEF y1
  <2> QED BY <1>1, <1>2, <2>1, <2>2 DEF Good, Acted, Counted, Named
<1>5. Good(y2)
  <2>1. y2 \in Handler BY <1>1 DEF Good, Handler, States
  <2>2. /\ y2.state = "done" /\ y2.acts = 1 /\ y2.op = x.op /\ y2.attempts = x.attempts
        /\ y2.action = x.action /\ y2.reply = x.reply /\ y2.declined = x.declined
    BY <1>1, <1>2 DEF Good, Handler
  <2> HIDE DEF y2
  <2> QED BY <1>1, <1>2, <2>1, <2>2 DEF Good, Acted, Counted, Named
<1>6. Set(h, y1) \/ Set(h, y2) BY DEF ReadConfig, SwapConfig
<1>7. ses' \in Session
  <2>1. x.snap \in Config BY <1>1 DEF Good, Handler
  <2>2. x.snap.enabled \in SUBSET Methods /\ x.snap.confirmed \in BOOLEAN BY <2>1 DEF Config
  <2>3. ses' = ses \/ ses' = [ses EXCEPT !.enabled = x.snap.enabled, !.confirmed = x.snap.confirmed]
    BY DEF ReadConfig, SwapConfig
  <2> HIDE DEF x
  <2> QED BY <2>2, <2>3 DEF IInv, Session
<1> HIDE DEF y1, y2
<1>8. hs' \in [Handlers -> Handler] /\ \A k \in Handlers : Good(hs'[k]) BY <1>4, <1>5, <1>6, SetGood
<1> QED BY <1>7, <1>8 DEF IInv, ReadConfig, SwapConfig

\* The steps of change_settings_call
LEMMA SettingsIInv ==
    ASSUME IInv, alone' \in BOOLEAN, NEW h \in Handlers, ChangeSettings(h) \/ PushAppearance(h) \/ SettingsDone(h)
    PROVE  IInv'
<1> DEFINE x == hs[h]
<1>1. Good(x) /\ x.state \in {"make_call", "pushing", "pushed"}
  BY DEF IInv, ChangeSettings, PushAppearance, SettingsDone
<1>2. x.op \in Op /\ x.acts = 0 /\ x.attempts > 0 BY <1>1 DEF Good, Acted, Counted, Named
<1>3. x.op.type = "settings"
  BY <1>1 DEF Good, Named, ChangeSettings, PushAppearance, SettingsDone
<1>4. x.op.look \in Nat BY <1>2 DEF Op
<1> DEFINE y1(st) == [x EXCEPT !.state = st]
           y2 == [x EXCEPT !.state = "done", !.attempts = TWO_FACTOR_ATTEMPTS]
<1>5. ASSUME NEW st \in {"pushing", "pushed"} PROVE Good(y1(st))
  <2>1. y1(st) \in Handler BY <1>1 DEF Good, Handler, States
  <2>2. /\ y1(st).state = st /\ y1(st).acts = 0 /\ y1(st).op = x.op /\ y1(st).attempts = x.attempts
        /\ y1(st).action = x.action /\ y1(st).reply = x.reply /\ y1(st).declined = x.declined
    BY <1>1, <1>2 DEF Good, Handler
  <2> HIDE DEF y1
  <2> QED BY <1>1, <1>2, <1>3, <2>1, <2>2 DEF Good, Acted, Counted, Named
<1>6. ASSUME ~x.nlock PROVE Good(y2)
  <2>1. y2 \in Handler BY <1>1, Attempts DEF Good, Handler, States
  <2>2. /\ y2.state = "done" /\ y2.acts = 0 /\ y2.op = x.op /\ y2.nlock = x.nlock
        /\ y2.attempts = TWO_FACTOR_ATTEMPTS
        /\ y2.action = x.action /\ y2.reply = x.reply /\ y2.declined = x.declined
    BY <1>1, <1>2 DEF Good, Handler
  <2> HIDE DEF y2
  <2> QED BY <1>1, <1>2, <1>3, <1>6, <2>1, <2>2, Attempts DEF Good, Acted, Counted, Named
<1>7. \/ \E st \in {"pushing", "pushed"} : Set(h, y1(st))
      \/ ~x.nlock /\ Set(h, y2)
  BY DEF ChangeSettings, PushAppearance, SettingsDone
<1> HIDE DEF y1, y2
<1>8. hs' \in [Handlers -> Handler] /\ \A k \in Handlers : Good(hs'[k])
  BY <1>5, <1>6, <1>7, SetGood
<1>9. srv' \in Server /\ ses' \in Session
  <2>1. srv' = srv \/ srv' = [srv EXCEPT !.look = x.op.look]
    BY DEF ChangeSettings, PushAppearance, SettingsDone
  <2>2. ses' = ses \/ ses' = [ses EXCEPT !.look = x.op.look]
    BY DEF ChangeSettings, PushAppearance, SettingsDone
  <2> HIDE DEF x
  <2>3. srv' \in Server BY <1>4, <2>1 DEF IInv, Server
  <2>4. ses' \in Session BY <1>4, <2>2 DEF IInv, Session
  <2> QED BY <2>3, <2>4
<1> QED BY <1>8, <1>9 DEF IInv, ChangeSettings, PushAppearance, SettingsDone

\* Another app only changes the server's limit
LEMMA OtherAppIInv ==
    ASSUME IInv, alone' \in BOOLEAN, OtherApp
    PROVE  IInv'
<1>1. PICK limit \in Nat : srv' = [srv EXCEPT !.limit = limit] BY OpsAssumption DEF OtherApp
<1>2. srv' \in Server BY <1>1 DEF IInv, Server
<1> QED BY <1>2 DEF IInv, OtherApp

\* Every step keeps the invariant
LEMMA Inductive == IInv /\ [Next]_vars => IInv'
<1> SUFFICES ASSUME IInv, [Next]_vars PROVE IInv' OBVIOUS
<1>1. CASE UNCHANGED vars BY <1>1 DEF vars, core, IInv
<1>2. CASE Next
  <2>1. alone' \in BOOLEAN BY <1>2 DEF Next
  <2> USE <2>1
  <2>2. CASE OtherApp BY <2>2, OtherAppIInv
  <2>3. ASSUME NEW h \in Handlers, NEW op \in Ops, Create(h, op) PROVE IInv' BY <2>3, CreateIInv
  <2>4. ASSUME NEW h \in Handlers, Destroy(h) PROVE IInv' BY <2>4, DestroyIInv
  <2>5. ASSUME NEW h \in Handlers, NEW m \in Methods, RequestCode(h, m) \/ RequestCodeFails(h, m)
        PROVE  IInv'
    BY <2>5, RequestCodeIInv
  <2>6. ASSUME NEW h \in Handlers, NEW right \in BOOLEAN, ResolveCode(h, right) PROVE IInv'
    BY <2>6, ResolveCodeIInv
  <2>7. ASSUME NEW h \in Handlers, Answer(h) PROVE IInv'
    BY <2>7, CallAcceptedIInv, CallRejectedIInv, CallDeclinedIInv, EnableGauthInitIInv, ReplyOkIInv,
       ReplyInvalidCodeIInv, ReplyDeclinedIInv, FailIInv, ReloadIInv, SettingsIInv DEF Answer
  <2>8. ASSUME NEW h \in Handlers, Fail(h) PROVE IInv' BY <2>8, FailIInv
  <2> QED BY <1>2, <2>2, <2>3, <2>4, <2>5, <2>6, <2>7, <2>8 DEF Next
<1> QED BY <1>1, <1>2

\* The server's limit is never overspent, the attempts shown to the caller are
\* never below zero, and every part of the state keeps its type, whatever the
\* handlers and calls.
THEOREM TypeCorrect == Spec => []TypeOK
<1>1. IInv => TypeOK BY DEF IInv, TypeOK
<1> QED BY <1>1, InitIInv, Inductive, PTL DEF Spec

\* Any number of auth_handlers over one session, with mistyped codes, lost
\* replies and restarted dialogues: the server performs the operation of each
\* at most once, and a handler is done only if it was performed.
THEOREM OncePerHandler == Spec => []ExactlyOnce
<1>1. IInv => ExactlyOnce BY DEF IInv, Good, Acted, ExactlyOnce
<1> QED BY <1>1, InitIInv, Inductive, PTL DEF Spec

-----------------------------------------------------------------------------
(* The codes and the attempts.  Two dialogues at once may undo each        *)
(* other's codes, so these claims are made up to the first time that the   *)
(* application begins a dialogue before it has ended another.              *)

\* The session e knows what it shows and uses of the server s
Current(s, e) ==
    /\ e.enabled = s.enabled /\ e.confirmed = s.confirmed
    /\ e.limit = s.limit /\ e.nlock = s.nlock
\* The server has acted and the reply is on its way
Acting(x) == x.state = "calling" /\ x.reply = "ok"
\* Between the choice of a method, or of none, and the call
Waits(x) == x.state \in {"resolve_code", "make_call", "pushing", "pushed"}
\* The codes of these are made out for a method that need not be enabled
Second(x) == x.action \in {"enable_", "activate_email", "request_reset"}

\* The server s does the call without a code
Open(x, s) ==
    \/ s.enabled = {} /\ ~Second(x)
    \/ x.action = "request_reset" /\ ~x.confirming
    \/ x.action = "set_nlocktime" /\ x.op.type = "settings" /\ ~x.nlock
    \/ x.action = "send_raw_tx" /\ x.op.type = "send" /\ x.under /\ x.op.n <= s.limit
    \/ x.action = "change_tx_limits" /\ x.op.type = "limits" /\ x.op.n <= s.limit
\* What x was given for a code stands, with the given attempts left
Stands(x, s, left) ==
    x.method # "gauth" => s.codes[x.method] = [act |-> x.action, left |-> left]
\* The method a code is asked for is one the server takes
Takes(x, s) ==
    /\ x.method # ""
    /\ x.action = "enable_" => x.method = x.op.m
    /\ x.action = "activate_email" => x.method = "email"
    /\ x.action = "request_reset" => x.method = "email" /\ x.confirming
    /\ ~Second(x) => x.method \in s.enabled
\* gauth is being enabled: the code of the other method is good, or mistyped
FirstGood(x, s) ==
    \/ s.enabled = {}
    \/ x.gauth.code = BadCode
    \/ /\ x.gauth.method \in s.enabled
       /\ x.gauth.code = [method |-> x.gauth.method, act |-> "enable_2fa"]
       /\ x.gauth.method # "gauth" =>
            s.codes[x.gauth.method].act = "enable_2fa" /\ s.codes[x.gauth.method].left > 0
Enabling(x) == x.action = "enable_" /\ x.op.m = "gauth"

WaitGood(x, s) ==
    \/ x.method = "" /\ x.state # "resolve_code" /\ Open(x, s)
    \/ /\ Takes(x, s) /\ Stands(x, s, x.attempts)
       /\ Enabling(x) => FirstGood(x, s)
       /\ x.state # "resolve_code" => x.code \in {BadCode, [method |-> x.method, act |-> x.action]}
RejectedGood(x, s) ==
    /\ Takes(x, s) /\ Stands(x, s, x.attempts - 1)
    /\ Enabling(x) => FirstGood(x, s)
    /\ BadCode \in {x.code, x.gauth.code}
\* The code the accepted call has sent to the user
ActingGood(x, s) ==
    /\ x.action = "enable_2fa" => x.op.m # "gauth" /\ s.codes[x.op.m] = Issue("enable_")
    /\ x.action = "set_email" => s.codes["email"] = Issue("activate_email")
    /\ x.action = "request_reset" /\ ~x.confirming => s.codes["email"] = Issue("request_reset")
    /\ x.action = "request_reset" /\ x.confirming => x.method = "email"

\* What a handler that is being worked on goes by, given the server s
Knows(x, s) ==
    /\ x.op.type = "settings" => x.action = "set_nlocktime"
    /\ x.action \in {"set_email", "activate_email"} => x.op.m = "email"
    /\ x.action = "disable_2fa" /\ (x.state = "request_code" \/ Waits(x) \/ x.reply = "invalid_code")
         => x.op.m \in s.enabled
    /\ x.state = "request_code" => x.methods \subseteq s.enabled /\ ~Second(x)
    /\ Waits(x) => WaitGood(x, s)
    /\ x.state = "calling" /\ x.reply \notin {"ok", "declined"} => x.reply = "invalid_code" /\ RejectedGood(x, s)
    /\ Acting(x) => ActingGood(x, s)
    /\ x.state = "swap" => x.snap = [enabled |-> s.enabled, confirmed |-> s.confirmed]

\* The session is current, or will be when the reply has been applied
InSync ==
    /\ \A h \in Handlers : ~Settled(hs[h]) =>
         /\ Knows(hs[h], srv)
         /\ Current(srv, IF Acting(hs[h]) THEN Cached(hs[h]) ELSE ses)
    /\ (\A h \in Handlers : Settled(hs[h])) => Current(srv, ses)
\* A reply is there only while it is waited for
Heard(x) == x.reply # "" => x.state = "calling"
SyncInv ==
    /\ \A h \in Handlers : Heard(hs[h])
    /\ "email" \in srv.enabled => srv.confirmed
    /\ insync => InSync

\* One handler steps, the others are settled or see nothing of it
LEMMA StepSync ==
    ASSUME IInv, SyncInv, OneAtATime, NEW h \in Handlers, NEW y, Set(h, y), Heard(y),
           insync' => insync,
           Settled(hs[h]) => UNCHANGED <<srv, ses>>,
           insync' /\ ~Settled(y) => Knows(y, srv'),
           insync' /\ ~Settled(y) /\ Acting(y) => Current(srv', Cached(y)'),
           insync' /\ ~Settled(y) /\ ~Acting(y) => Current(srv', ses'),
           insync' /\ Settled(y) /\ ~Settled(hs[h]) => Current(srv', ses'),
           "email" \in srv'.enabled => srv'.confirmed
    PROVE  SyncInv'
<1>1. \A k \in Handlers : hs'[k] = IF k = h THEN y ELSE hs[k]
  BY DEF Set, IInv
<1>0. \A k \in Handlers : Heard(hs'[k])
  BY <1>1 DEF SyncInv
<1> SUFFICES ASSUME insync' PROVE InSync'
  BY <1>0 DEF SyncInv
<1>2. insync /\ InSync
  BY DEF SyncInv
<1>3. ASSUME NEW k \in Handlers, ~Settled(hs'[k])
      PROVE  /\ Knows(hs'[k], srv')
             /\ Acting(hs'[k]) => Current(srv', Cached(hs[k])')
             /\ ~Acting(hs'[k]) => Current(srv', ses')
  <2>1. CASE k = h
    <3>1. hs'[k] = y
      BY <1>1, <2>1
    <3>2. Cached(hs[k])' = Cached(y)'
      BY <3>1 DEF Cached, update_spending_limits, set_nlocktime
    <3> QED BY <1>3, <3>1, <3>2
  <2>2. CASE k # h
    <3>1. hs'[k] = hs[k] /\ ~Settled(hs[k])
      BY <1>1, <1>3, <2>2
    <3>2. srv' = srv /\ ses' = ses
      BY <2>2, <3>1 DEF OneAtATime
    <3>3. Cached(hs[k])' = Cached(hs[k])
      BY <3>1, <3>2 DEF Cached, update_spending_limits, set_nlocktime
    <3> QED BY <1>2, <3>1, <3>2, <3>3 DEF InSync
  <2> QED BY <2>1, <2>2
<1>4. ASSUME \A k \in Handlers : Settled(hs'[k]) PROVE Current(srv', ses')
  <2>1. Settled(y) /\ \A k \in Handlers : k # h => Settled(hs[k])
    BY <1>1, <1>4
  <2>2. CASE Settled(hs[h])
    <3>1. \A k \in Handlers : Settled(hs[k])
      BY <2>1, <2>2
    <3> QED BY <1>2, <2>2, <3>1 DEF InSync
  <2>3. CASE ~Settled(hs[h])
    BY <2>1, <2>3
  <2> QED BY <2>2, <2>3
<1> QED BY <1>3, <1>4 DEF InSync, Settled, Acting

\* What the constructors call the action
LEMMA ActionNames ==
    \A k \in Types :
        /\ ActionOf(k) \notin {"enable_", "activate_email"}
        /\ ActionOf(k) = "set_email" => k = "set_email"
        /\ ActionOf(k) = "disable_2fa" => k = "disable"
        /\ ActionOf(k) = "request_reset" <=> k = "reset"
        /\ k = "send" => ActionOf(k) = "send_raw_tx"
        /\ k = "limits" => ActionOf(k) = "change_tx_limits"
        /\ k = "settings" => ActionOf(k) = "set_nlocktime"
BY DEF ActionOf, Types, Plain

\* The server as a handler that is being worked on knows it
LEMMA ActiveKnows ==
    ASSUME SyncInv, insync, NEW h \in Handlers, ~Settled(hs[h])
    PROVE  Knows(hs[h], srv) /\ (~Acting(hs[h]) => Current(srv, ses))
BY DEF SyncInv, InSync

\* A new handler starts from what the session knows: the constructors ask for a code
\* exactly when the server will, and offer the methods the server has
LEMMA CreateSync ==
    ASSUME IInv, SyncInv, OneAtATime, OneAtATime', NEW h \in Handlers, NEW op \in Ops, Create(h, op)
    PROVE  SyncInv'
<1> DEFINE st == IF AlreadySo(op) \/ BadSeed(op) THEN "error"
                   ELSE IF \/ ses.enabled = {} \/ op.type = "reset"
                           \/ UnderLimit(op) \/ IsDecrease(op)
                           \/ op.type = "settings" /\ ~ChangesNlock(op)
                        THEN "make_call" ELSE "request_code"
<1>1. PICK y : y = [NoHandler EXCEPT
         !.op = op, !.methods = ses.enabled, !.action = ActionOf(Kind(op)),
         !.under = UnderLimit(op), !.nlock = ChangesNlock(op), !.state = st]
  OBVIOUS
<1>2. Set(h, y) /\ Settled(hs[h]) /\ UNCHANGED <<srv, ses, insync>>
  BY <1>1 DEF Create, Settled
<1>3. /\ y.op = op /\ y.methods = ses.enabled /\ y.action = ActionOf(Kind(op))
      /\ y.under = UnderLimit(op) /\ y.nlock = ChangesNlock(op) /\ y.state = st
      /\ y.method = "" /\ y.reply = "" /\ y.confirming = FALSE
  BY <1>1 DEF NoHandler
<1>4. op \in Op /\ Kind(op) \in Types
  BY OpsAssumption, ActionTypes
<1>9. PICK k \in Types : k = Kind(op) /\ y.action = ActionOf(k)
  BY <1>3, <1>4
<1>10. /\ y.action \notin {"enable_", "activate_email"}
       /\ y.action = "set_email" => k = "set_email"
       /\ y.action = "disable_2fa" => k = "disable"
       /\ y.action = "request_reset" <=> k = "reset"
  BY <1>9, ActionNames
<1>11. Heard(y)
  BY <1>3 DEF Heard
<1>5. ASSUME insync, ~Settled(y)
      PROVE  Current(srv, ses) /\ Knows(y, srv)
  <2>1. Current(srv, ses)
    <3>1. \A g \in Handlers : hs'[g] = IF g = h THEN y ELSE hs[g]
      BY <1>2 DEF Set, IInv
    <3>2. \A g \in Handlers : g # h => Settled(hs'[g])
      BY <1>5, <3>1 DEF OneAtATime, Settled
    <3>3. \A g \in Handlers : Settled(hs[g])
      BY <1>2, <3>1, <3>2
    <3> QED BY <1>5, <3>3 DEF SyncInv, InSync
  <2>2. st \in {"make_call", "request_code"} /\ ~AlreadySo(op)
    BY <1>3, <1>5 DEF Settled
  <2>3. y.action \in {"set_email", "activate_email"} => op.m = "email"
    <3>1. op.type = "set_email" => op.m = "email"
      BY DEF Create
    <3>2. k = "set_email" => op.type = "set_email"
      BY <1>9 DEF Kind
    <3> QED BY <3>1, <3>2, <1>10
  <2>4. y.action = "disable_2fa" => op.m \in srv.enabled
    <3>1. Kind(op) = "disable" => op.m \in ses.enabled
      BY <2>2 DEF AlreadySo
    <3> QED BY <3>1, <1>9, <1>10, <2>1 DEF Current
  <2>5. y.action = "request_reset" <=> op.type = "reset"
    BY <1>9, <1>10 DEF Kind
  <2>6. y.action \notin {"enable_", "activate_email"}
    BY <1>10
  <2>9. op.type = "settings" => y.action = "set_nlocktime"
    <3>1. op.type = "settings" => k = "settings"
      BY <1>9 DEF Kind
    <3> QED BY <3>1, <1>9, ActionNames
  <2>7. CASE st = "make_call"
    <3>1. \/ ses.enabled = {} \/ op.type = "reset" \/ UnderLimit(op) \/ IsDecrease(op)
          \/ op.type = "settings" /\ ~ChangesNlock(op)
      BY <2>7, <2>2
    <3>2. Open(y, srv)
      <4>1. CASE ses.enabled = {}
        BY <4>1, <1>3, <2>1, <2>5, <2>6 DEF Open, Second, Current
      <4>2. CASE op.type = "reset"
        BY <4>2, <1>3, <2>5 DEF Open
      <4>3. CASE UnderLimit(op)
        <5>1. op.type = "send" /\ op.n <= srv.limit /\ Kind(op) = "send"
          BY <4>3, <2>1 DEF UnderLimit, Current, Kind
        <5>2. y.action = "send_raw_tx"
          BY <5>1, <1>3, <1>4, ActionNames
        <5> QED BY <4>3, <5>1, <5>2, <1>3 DEF Open
      <4>4. CASE IsDecrease(op)
        <5>1. op.type = "limits" /\ op.n <= srv.limit /\ Kind(op) = "limits"
          BY <4>4, <2>1 DEF IsDecrease, is_spending_limits_decrease, Current, Kind
        <5>2. y.action = "change_tx_limits"
          BY <5>1, <1>3, <1>4, ActionNames
        <5> QED BY <5>1, <5>2, <1>3 DEF Open
      <4>5. CASE op.type = "settings" /\ ~ChangesNlock(op)
        <5>1. Kind(op) = "settings"
          BY <4>5 DEF Kind
        <5>2. y.action = "set_nlocktime"
          BY <5>1, <1>3, <1>4, ActionNames
        <5> QED BY <4>5, <5>2, <1>3 DEF Open
      <4> QED BY <3>1, <4>1, <4>2, <4>3, <4>4, <4>5
    <3> QED BY <2>1, <2>3, <2>4, <2>7, <2>9, <3>2, <1>3 DEF Knows, Waits, WaitGood, Acting
  <2>8. CASE st = "request_code"
    <3>1. op.type # "reset"
      BY <2>8
    <3>2. ~Second(y)
      BY <3>1, <2>5, <2>6 DEF Second
    <3>3. y.methods \subseteq srv.enabled
      BY <1>3, <2>1 DEF Current
    <3> QED BY <2>1, <2>3, <2>4, <2>8, <2>9, <3>2, <3>3, <1>3 DEF Knows, Waits, Acting
  <2> QED BY <2>2, <2>7, <2>8
<1>6. ~Acting(y)
  BY <1>3 DEF Acting
<1> QED BY <1>2, <1>5, <1>6, <1>11, StepSync DEF SyncInv

\* Destroying a handler between two calls leaves the session as current as it was
LEMMA DestroySync ==
    ASSUME IInv, SyncInv, OneAtATime, NEW h \in Handlers, Destroy(h)
    PROVE  SyncInv'
<1>1. PICK y : y = NoHandler
  OBVIOUS
<1>2. Set(h, y) /\ UNCHANGED <<srv, ses, insync>> /\ Settled(y) /\ ~Acting(hs[h]) /\ Heard(y)
  BY <1>1 DEF Destroy, Settled, NoHandler, Acting, Heard
<1>3. insync /\ ~Settled(hs[h]) => Current(srv, ses)
  BY <1>2, ActiveKnows
<1> QED BY <1>2, <1>3, StepSync DEF SyncInv

\* Issuing a code changes nothing else
LEMMA IssueFields ==
    ASSUME NEW s \in Server, NEW m \in Methods, NEW i
    PROVE  LET t == [s EXCEPT !.codes[m] = i] IN
           /\ t.enabled = s.enabled /\ t.confirmed = s.confirmed /\ t.limit = s.limit
           /\ t.nlock = s.nlock /\ t.codes[m] = i
BY DEF Server

\* auth_handler::request_code: the code the server issues is the one the handler waits for
LEMMA RequestSync ==
    ASSUME IInv, SyncInv, OneAtATime, NEW h \in Handlers, NEW m \in Methods, RequestCode(h, m)
    PROVE  SyncInv'
<1>1. PICK x, y : /\ x = hs[h]
                  /\ y = [x EXCEPT !.state = "resolve_code", !.method = m,
                            !.attempts = TWO_FACTOR_ATTEMPTS, !.under = FALSE]
  OBVIOUS
<1>2. x.state = "request_code" /\ m \in x.methods /\ Set(h, y) /\ UNCHANGED <<ses, insync>> /\ x \in Handler
  BY <1>1 DEF RequestCode, IInv
<1>3. /\ srv'.enabled = srv.enabled /\ srv'.confirmed = srv.confirmed /\ srv'.limit = srv.limit
      /\ srv'.nlock = srv.nlock
      /\ m # "gauth" => srv'.codes[m] = Issue(x.action)
  <2>1. srv' = IF m = "gauth" THEN srv ELSE [srv EXCEPT !.codes[m] = Issue(x.action)]
    BY <1>1 DEF RequestCode
  <2> QED BY <2>1, IssueFields DEF IInv
<1>4. /\ y.state = "resolve_code" /\ y.method = m /\ y.attempts = TWO_FACTOR_ATTEMPTS
      /\ y.action = x.action /\ y.op = x.op /\ y.reply = x.reply
  BY <1>1, <1>2 DEF Handler
<1>7. Heard(y)
  BY <1>1, <1>2, <1>4 DEF SyncInv, Heard
<1>5. ASSUME insync PROVE Knows(y, srv') /\ Current(srv', ses)
  <2>1. Knows(x, srv) /\ Current(srv, ses)
    BY <1>1, <1>2, <1>5, ActiveKnows DEF Settled, Acting
  <2>2. x.methods \subseteq srv.enabled /\ ~Second(x)
    BY <1>2, <2>1 DEF Knows
  <2>3. Takes(y, srv') /\ ~Enabling(y)
    BY <1>2, <1>3, <1>4, <2>2, MethodsAssumption DEF Takes, Second, Enabling
  <2>4. Stands(y, srv', y.attempts)
    BY <1>3, <1>4 DEF Stands, Issue
  <2> QED BY <1>2, <1>3, <1>4, <2>1, <2>3, <2>4 DEF Knows, Current, Waits, WaitGood, Acting
<1>6. ~Acting(y) /\ ~Settled(y) /\ ~Settled(hs[h])
  BY <1>1, <1>2, <1>4 DEF Acting, Settled
<1> QED BY <1>2, <1>3, <1>5, <1>6, <1>7, StepSync DEF SyncInv

\* A request_code that throws leaves nothing but perhaps an unused code
LEMMA RequestFailsSync ==
    ASSUME IInv, SyncInv, OneAtATime, NEW h \in Handlers, NEW m \in Methods, RequestCodeFails(h, m)
    PROVE  SyncInv'
<1>1. PICK x, y : /\ x = hs[h]
                  /\ y = [x EXCEPT !.under = FALSE,
                            !.state = IF x.op.type = "send" THEN "error" ELSE @]
  OBVIOUS
<1>2. x.state = "request_code" /\ Set(h, y) /\ UNCHANGED <<ses, insync>> /\ x \in Handler
  BY <1>1 DEF RequestCodeFails, IInv
<1>3. /\ srv'.enabled = srv.enabled /\ srv'.confirmed = srv.confirmed /\ srv'.limit = srv.limit
      /\ srv'.nlock = srv.nlock
  <2>1. srv' = srv \/ srv' = [srv EXCEPT !.codes[m] = Issue(x.action)]
    BY <1>1 DEF RequestCodeFails
  <2>2. CASE srv' = srv
    BY <2>2
  <2>3. CASE srv' = [srv EXCEPT !.codes[m] = Issue(x.action)]
    <3>1. PICK s, i : s = srv /\ i = Issue(x.action) /\ s \in Server
      BY DEF IInv
    <3>2. srv' = [s EXCEPT !.codes[m] = i]
      BY <2>3, <3>1
    <3> QED BY <3>1, <3>2, IssueFields
  <2> QED BY <2>1, <2>2, <2>3
<1>4. /\ y.state \in {"request_code", "error"} /\ y.methods = x.methods /\ y.reply = x.reply
      /\ y.action = x.action /\ y.op = x.op
  BY <1>1, <1>2 DEF Handler
<1>7. Heard(y)
  BY <1>1, <1>2, <1>4 DEF SyncInv, Heard
<1>5. ASSUME insync PROVE Knows(y, srv') /\ Current(srv', ses)
  <2>1. Knows(x, srv) /\ Current(srv, ses)
    BY <1>1, <1>2, <1>5, ActiveKnows DEF Settled, Acting
  <2> QED BY <1>2, <1>3, <1>4, <2>1 DEF Knows, Current, Waits, Acting, Second
<1>6. ~Acting(y) /\ ~Settled(hs[h])
  BY <1>1, <1>2, <1>4 DEF Acting, Settled
<1> QED BY <1>2, <1>3, <1>5, <1>6, <1>7, StepSync DEF SyncInv

\* auth_handler::resolve_code: what is sent is the code that was issued, or a mistyped one
LEMMA ResolveSync ==
    ASSUME IInv, SyncInv, OneAtATime, NEW h \in Handlers, NEW right \in BOOLEAN, ResolveCode(h, right)
    PROVE  SyncInv'
<1>1. PICK x, y : /\ x = hs[h]
                  /\ y = [x EXCEPT !.state = "make_call",
                            !.code = IF right THEN [method |-> x.method, act |-> x.action] ELSE BadCode]
  OBVIOUS
<1>2. x.state = "resolve_code" /\ Set(h, y) /\ UNCHANGED <<srv, ses, insync>> /\ x \in Handler
  BY <1>1 DEF ResolveCode, IInv
<1>3. /\ y.state = "make_call" /\ y.code \in {BadCode, [method |-> x.method, act |-> x.action]}
      /\ y.method = x.method /\ y.attempts = x.attempts /\ y.reply = x.reply
      /\ y.action = x.action /\ y.op = x.op /\ y.confirming = x.confirming /\ y.gauth = x.gauth
  BY <1>1, <1>2 DEF Handler
<1>4. ASSUME insync PROVE Knows(y, srv) /\ Current(srv, ses)
  <2>1. Knows(x, srv) /\ Current(srv, ses)
    BY <1>1, <1>2, <1>4, ActiveKnows DEF Settled, Acting
  <2>2. Takes(x, srv) /\ Stands(x, srv, x.attempts) /\ (Enabling(x) => FirstGood(x, srv))
    BY <1>2, <2>1 DEF Knows, Waits, WaitGood
  <2>3. Takes(y, srv) /\ Stands(y, srv, y.attempts) /\ (Enabling(y) => FirstGood(y, srv))
    BY <1>3, <2>2 DEF Takes, Stands, Enabling, FirstGood, Second
  <2>4. WaitGood(y, srv)
    BY <1>3, <2>3 DEF WaitGood
  <2> QED BY <1>2, <1>3, <2>1, <2>4 DEF Knows, Waits, Acting
<1>5. ~Acting(y) /\ ~Settled(y) /\ ~Settled(hs[h])
  BY <1>1, <1>2, <1>3 DEF Acting, Settled
<1>6. Heard(y)
  BY <1>1, <1>2, <1>3 DEF SyncInv, Heard
<1> QED BY <1>2, <1>4, <1>5, <1>6, StepSync DEF SyncInv

\* What an accepted call changes, field by field
LEMMA EffectFields ==
    ASSUME IInv, NEW x, Good(x), x.op \in Op, NEW t, t = Effect(x)
    PROVE  /\ t.enabled = IF x.action = "enable_" THEN srv.enabled \cup {x.op.m}
                          ELSE IF x.action = "disable_2fa" THEN srv.enabled \ {x.op.m} ELSE srv.enabled
           /\ t.confirmed <=> \/ srv.confirmed \/ x.action = "activate_email"
                              \/ x.action = "enable_" /\ x.op.m = "email"
           /\ t.limit = IF x.action = "change_tx_limits" THEN x.op.n
                        ELSE IF x.action = "send_raw_tx" /\ x.under /\ x.op.n <= srv.limit
                        THEN srv.limit - x.op.n ELSE srv.limit
           /\ t.nlock = IF x.action = "set_nlocktime" THEN x.op.n ELSE srv.nlock
           /\ x.action = "enable_2fa" => t.codes[x.op.m] = Issue("enable_")
           /\ x.action = "set_email" => t.codes["email"] = Issue("activate_email")
           /\ x.action = "request_reset" /\ ~x.confirming => t.codes["email"] = Issue("request_reset")
<1>1. PICK s : s = [srv EXCEPT !.codes = Spend(srv.codes, x.method)]
  OBVIOUS
<1>2. s \in Server /\ s.enabled = srv.enabled /\ s.confirmed = srv.confirmed /\ s.limit = srv.limit
      /\ s.nlock = srv.nlock
  BY <1>1, CodeTypes DEF IInv, Server
<1>3. x.op.m \in Methods /\ "email" \in Methods
  BY MethodsAssumption DEF Op
<1>4. CASE x.action = "enable_2fa"
  <2>1. PICK i : i = Issue("enable_")
    OBVIOUS
  <2>2. t = [s EXCEPT !.codes[x.op.m] = i]
    BY <1>1, <1>4, <2>1 DEF Effect
  <2>3. /\ t.enabled = s.enabled /\ t.confirmed = s.confirmed /\ t.limit = s.limit
        /\ t.nlock = s.nlock /\ t.codes[x.op.m] = i
    BY <1>2, <1>3, <2>2, IssueFields
  <2> QED BY <1>2, <1>4, <2>1, <2>3
<1>5. CASE x.action = "set_email"
  <2>1. PICK i : i = Issue("activate_email")
    OBVIOUS
  <2>2. t = [s EXCEPT !.codes["email"] = i]
    BY <1>1, <1>5, <2>1 DEF Effect
  <2>3. /\ t.enabled = s.enabled /\ t.confirmed = s.confirmed /\ t.limit = s.limit
        /\ t.nlock = s.nlock /\ t.codes["email"] = i
    BY <1>2, <1>3, <2>2, IssueFields
  <2> QED BY <1>2, <1>5, <2>1, <2>3
<1>6. CASE x.action = "request_reset" /\ ~x.confirming
  <2>1. PICK i : i = Issue("request_reset")
    OBVIOUS
  <2>2. t = [s EXCEPT !.codes["email"] = i]
    BY <1>1, <1>6, <2>1 DEF Effect
  <2>3. /\ t.enabled = s.enabled /\ t.confirmed = s.confirmed /\ t.limit = s.limit
        /\ t.nlock = s.nlock /\ t.codes["email"] = i
    BY <1>2, <1>3, <2>2, IssueFields
  <2> QED BY <1>2, <1>6, <2>1, <2>3
<1>7. CASE x.action = "enable_"
  <2>1. t = [s EXCEPT !.enabled = @ \cup {x.op.m}, !.confirmed = @ \/ x.op.m = "email"]
    BY <1>1, <1>7 DEF Effect
  <2>2. /\ t.enabled = s.enabled \cup {x.op.m} /\ t.confirmed = (s.confirmed \/ x.op.m = "email")
        /\ t.limit = s.limit /\ t.nlock = s.nlock
    BY <1>2, <2>1 DEF Server
  <2> QED BY <1>2, <1>7, <2>2
<1>8. CASE x.action = "activate_email"
  <2>1. t = [s EXCEPT !.confirmed = TRUE]
    BY <1>1, <1>8 DEF Effect
  <2>2. t.enabled = s.enabled /\ t.confirmed = TRUE /\ t.limit = s.limit /\ t.nlock = s.nlock
    BY <1>2, <2>1 DEF Server
  <2> QED BY <1>2, <1>8, <2>2
<1>9. CASE x.action = "disable_2fa"
  <2>1. t = [s EXCEPT !.enabled = @ \ {x.op.m}]
    BY <1>1, <1>9 DEF Effect
  <2>2. /\ t.enabled = s.enabled \ {x.op.m} /\ t.confirmed = s.confirmed
        /\ t.limit = s.limit /\ t.nlock = s.nlock
    BY <1>2, <2>1 DEF Server
  <2> QED BY <1>2, <1>9, <2>2
<1>10. CASE x.action = "change_tx_limits"
  <2>1. t = [s EXCEPT !.limit = x.op.n]
    BY <1>1, <1>10 DEF Effect
  <2>2. t.enabled = s.enabled /\ t.confirmed = s.confirmed /\ t.limit = x.op.n /\ t.nlock = s.nlock
    BY <1>2, <2>1 DEF Server
  <2> QED BY <1>2, <1>10, <2>2
<1>11. CASE x.action = "send_raw_tx"
  <2>1. t = [s EXCEPT !.limit = IF x.under /\ x.op.n <= @ THEN @ - x.op.n ELSE @]
    BY <1>1, <1>11 DEF Effect
  <2>2. PICK n : n = IF x.under /\ x.op.n <= s.limit THEN s.limit - x.op.n ELSE s.limit
    OBVIOUS
  <2>3. t = [s EXCEPT !.limit = n]
    BY <2>1, <2>2
  <2>4. t.enabled = s.enabled /\ t.confirmed = s.confirmed /\ t.limit = n /\ t.nlock = s.nlock
    BY <1>2, <2>3 DEF Server
  <2> QED BY <1>2, <1>11, <2>2, <2>4
<1>12. CASE x.action = "set_nlocktime"
  <2>1. t = [s EXCEPT !.nlock = x.op.n]
    BY <1>1, <1>12 DEF Effect
  <2>2. t.enabled = s.enabled /\ t.confirmed = s.confirmed /\ t.limit = s.limit /\ t.nlock = x.op.n
    BY <1>2, <2>1 DEF Server
  <2> QED BY <1>2, <1>12, <2>2
<1>13. CASE /\ x.action \notin {"enable_2fa", "set_email", "enable_", "activate_email", "disable_2fa",
                                "change_tx_limits", "send_raw_tx", "set_nlocktime"}
            /\ ~(x.action = "request_reset" /\ ~x.confirming)
  <2>1. t = s
    BY <1>1, <1>13 DEF Effect
  <2> QED BY <1>2, <1>13, <2>1
<1> QED BY <1>4, <1>5, <1>6, <1>7, <1>8, <1>9, <1>10, <1>11, <1>12, <1>13

\* Cached with the session's copy as a parameter
CachedIn(e, x) ==
    CASE x.action = "enable_" -> [e EXCEPT !.enabled = @ \cup {x.op.m},
                                           !.confirmed = @ \/ x.op.m = "email"]
      [] x.action = "activate_email" -> [e EXCEPT !.confirmed = TRUE]
      [] x.action = "disable_2fa" -> [e EXCEPT !.enabled = @ \ {x.op.m},
                                               !.confirmed = @ \/ x.op.m = "email"]
      [] x.action = "change_tx_limits" -> [e EXCEPT !.limit = x.op.n]
      [] x.action = "send_raw_tx" /\ x.decreased -> [e EXCEPT !.limit = x.limit]
      [] x.action = "set_nlocktime" -> [e EXCEPT !.nlock = x.op.n]
      [] OTHER -> e
\* It is Cached
LEMMA CachedIs == \A x : Cached(x) = CachedIn(ses, x)
BY DEF Cached, CachedIn, update_spending_limits, set_nlocktime

\* What the session makes of an accepted call, field by field
Applied(e, a, x) ==
    /\ e.enabled = IF x.action = "enable_" THEN a.enabled \cup {x.op.m}
                   ELSE IF x.action = "disable_2fa" THEN a.enabled \ {x.op.m} ELSE a.enabled
    /\ e.confirmed <=> \/ a.confirmed \/ x.action = "activate_email"
                       \/ x.action \in {"enable_", "disable_2fa"} /\ x.op.m = "email"
    /\ e.limit = IF x.action = "change_tx_limits" THEN x.op.n
                 ELSE IF x.action = "send_raw_tx" /\ x.decreased THEN x.limit ELSE a.limit
    /\ e.nlock = IF x.action = "set_nlocktime" THEN x.op.n ELSE a.nlock
    /\ e.confirmed \in BOOLEAN
\* CachedIn does just that
LEMMA CachedFields ==
    ASSUME NEW a \in Session, NEW x, NEW e, e = CachedIn(a, x)
    PROVE  Applied(e, a, x)
<1>1. SUFFICES
        /\ e.enabled = IF x.action = "enable_" THEN a.enabled \cup {x.op.m}
                       ELSE IF x.action = "disable_2fa" THEN a.enabled \ {x.op.m} ELSE a.enabled
        /\ e.confirmed <=> \/ a.confirmed \/ x.action = "activate_email"
                           \/ x.action \in {"enable_", "disable_2fa"} /\ x.op.m = "email"
        /\ e.limit = IF x.action = "change_tx_limits" THEN x.op.n
                     ELSE IF x.action = "send_raw_tx" /\ x.decreased THEN x.limit ELSE a.limit
        /\ e.nlock = IF x.action = "set_nlocktime" THEN x.op.n ELSE a.nlock
        /\ e.confirmed \in BOOLEAN
  BY DEF Applied
<1>2. CASE x.action = "enable_"
  <2>1. e = [a EXCEPT !.enabled = @ \cup {x.op.m}, !.confirmed = @ \/ x.op.m = "email"]
    BY <1>2 DEF CachedIn
  <2>2. /\ e.enabled = a.enabled \cup {x.op.m} /\ e.confirmed = (a.confirmed \/ x.op.m = "email")
        /\ e.limit = a.limit /\ e.nlock = a.nlock
    BY <2>1 DEF Session
  <2> QED BY <1>2, <2>2
<1>3. CASE x.action = "disable_2fa"
  <2>1. e = [a EXCEPT !.enabled = @ \ {x.op.m}, !.confirmed = @ \/ x.op.m = "email"]
    BY <1>3 DEF CachedIn
  <2>2. /\ e.enabled = a.enabled \ {x.op.m} /\ e.confirmed = (a.confirmed \/ x.op.m = "email")
        /\ e.limit = a.limit /\ e.nlock = a.nlock
    BY <2>1 DEF Session
  <2> QED BY <1>3, <2>2
<1>4. CASE x.action = "activate_email"
  <2>1. e = [a EXCEPT !.confirmed = TRUE]
    BY <1>4 DEF CachedIn
  <2>2. e.enabled = a.enabled /\ e.confirmed = TRUE /\ e.limit = a.limit /\ e.nlock = a.nlock
    BY <2>1 DEF Session
  <2> QED BY <1>4, <2>2
<1>5. CASE x.action = "change_tx_limits"
  <2>1. e = [a EXCEPT !.limit = x.op.n]
    BY <1>5 DEF CachedIn
  <2>2. /\ e.enabled = a.enabled /\ e.confirmed = a.confirmed /\ e.limit = x.op.n
        /\ e.nlock = a.nlock /\ a.confirmed \in BOOLEAN
    BY <2>1 DEF Session
  <2> QED BY <1>5, <2>2
<1>6. CASE x.action = "send_raw_tx" /\ x.decreased
  <2>1. e = [a EXCEPT !.limit = x.limit]
    BY <1>6 DEF CachedIn
  <2>2. /\ e.enabled = a.enabled /\ e.confirmed = a.confirmed /\ e.limit = x.limit
        /\ e.nlock = a.nlock /\ a.confirmed \in BOOLEAN
    BY <2>1 DEF Session
  <2> QED BY <1>6, <2>2
<1>7. CASE x.action = "set_nlocktime"
  <2>1. e = [a EXCEPT !.nlock = x.op.n]
    BY <1>7 DEF CachedIn
  <2>2. /\ e.enabled = a.enabled /\ e.confirmed = a.confirmed /\ e.limit = a.limit
        /\ e.nlock = x.op.n /\ a.confirmed \in BOOLEAN
    BY <2>1 DEF Session
  <2> QED BY <1>7, <2>2
<1>8. CASE /\ x.action \notin {"enable_", "disable_2fa", "activate_email", "change_tx_limits", "set_nlocktime"}
           /\ ~(x.action = "send_raw_tx" /\ x.decreased)
  <2>1. e = a
    BY <1>8 DEF CachedIn
  <2>2. a.confirmed \in BOOLEAN
    BY DEF Session
  <2> QED BY <1>8, <2>1, <2>2
<1> QED BY <1>2, <1>3, <1>4, <1>5, <1>6, <1>7, <1>8

\* An accepted call: the session will know when the reply is applied
LEMMA CallAcceptedSync ==
    ASSUME IInv, SyncInv, OneAtATime, NEW h \in Handlers, CallAccepted(h)
    PROVE  SyncInv'
<1> DEFINE d == srv'.limit < srv.limit
           z == [hs[h] EXCEPT !.state = "calling", !.reply = "ok", !.limit = srv'.limit,
                              !.decreased = d, !.acts = IF Final(hs[h]) THEN @ + 1 ELSE @]
<1>1. PICK x, y, t : x = hs[h] /\ t = srv' /\ y = z
  OBVIOUS
<1>2. Good(x) /\ Set(h, y) /\ UNCHANGED ses /\ (insync' => insync) /\ t = Effect(x) /\ Ready(x)
  BY <1>1 DEF CallAccepted, IInv
<1>3. x.state \in {"pushed", "make_call"} /\ x.op \in Op
  BY <1>2 DEF Ready, Good, Named
<1>4. /\ y.state = "calling" /\ y.reply = "ok" /\ y.limit = t.limit /\ y.decreased = d
      /\ y.action = x.action /\ y.op = x.op /\ y.confirming = x.confirming /\ y.method = x.method
  <2>1. x \in Handler
    BY <1>2 DEF Good
  <2> HIDE DEF d
  <2> QED BY <1>1, <2>1 DEF Handler
<1> HIDE DEF z
<1>5. /\ t.enabled = IF x.action = "enable_" THEN srv.enabled \cup {x.op.m}
                     ELSE IF x.action = "disable_2fa" THEN srv.enabled \ {x.op.m} ELSE srv.enabled
      /\ t.confirmed <=> \/ srv.confirmed \/ x.action = "activate_email"
                         \/ x.action = "enable_" /\ x.op.m = "email"
      /\ t.limit = IF x.action = "change_tx_limits" THEN x.op.n
                   ELSE IF x.action = "send_raw_tx" /\ x.under /\ x.op.n <= srv.limit
                   THEN srv.limit - x.op.n ELSE srv.limit
      /\ t.nlock = IF x.action = "set_nlocktime" THEN x.op.n ELSE srv.nlock
      /\ x.action = "enable_2fa" => t.codes[x.op.m] = Issue("enable_")
      /\ x.action = "set_email" => t.codes["email"] = Issue("activate_email")
      /\ x.action = "request_reset" /\ ~x.confirming => t.codes["email"] = Issue("request_reset")
  BY <1>2, <1>3, EffectFields
<1>6. t \in Server /\ t.confirmed \in BOOLEAN
  BY <1>2, <1>3, EffectType DEF Server
<1>7. "email" \in srv'.enabled => srv'.confirmed
  <2>1. "email" \in srv.enabled => srv.confirmed
    BY DEF SyncInv
  <2>2. "email" \in t.enabled => "email" \in srv.enabled \/ (x.action = "enable_" /\ x.op.m = "email")
    BY <1>5
  <2>3. "email" \in t.enabled => t.confirmed
    BY <1>5, <2>1, <2>2
  <2> QED BY <1>1, <2>3
<1>8. ASSUME insync PROVE Knows(y, srv') /\ Current(srv', Cached(y)')
  <2>1. Knows(x, srv) /\ Current(srv, ses)
    BY <1>1, <1>3, <1>8, ActiveKnows DEF Settled, Acting
  <2>2. WaitGood(x, srv)
    BY <1>3, <2>1 DEF Knows, Waits
  <2>3. x.action = "request_reset" /\ x.confirming => x.method = "email"
    BY <2>2 DEF WaitGood, Open, Second, Takes
  <2>4. x.action = "enable_2fa" => x.op.m # "gauth"
    BY <1>2, <2>1 DEF Ready, GauthInit, Knows
  <2>5. ActingGood(y, t)
    BY <1>4, <1>5, <2>3, <2>4 DEF ActingGood
  <2>6. Knows(y, t)
    BY <1>4, <2>1, <2>5 DEF Knows, Waits, Acting
  <2>7. PICK e : e = Cached(y)
    OBVIOUS
  <2>8. Cached(y)' = e
    BY <1>2, <2>7 DEF Cached, update_spending_limits, set_nlocktime
  <2>9. /\ e.enabled = IF y.action = "enable_" THEN ses.enabled \cup {y.op.m}
                       ELSE IF y.action = "disable_2fa" THEN ses.enabled \ {y.op.m} ELSE ses.enabled
        /\ e.confirmed <=> \/ ses.confirmed \/ y.action = "activate_email"
                           \/ y.action \in {"enable_", "disable_2fa"} /\ y.op.m = "email"
        /\ e.limit = IF y.action = "change_tx_limits" THEN y.op.n
                     ELSE IF y.action = "send_raw_tx" /\ y.decreased THEN y.limit ELSE ses.limit
        /\ e.nlock = IF y.action = "set_nlocktime" THEN y.op.n ELSE ses.nlock
        /\ e.confirmed \in BOOLEAN
    <3>1. PICK a : a = ses /\ a \in Session
      BY DEF IInv
    <3>2. e = CachedIn(a, y)
      BY <2>7, <3>1, CachedIs
    <3>3. Applied(e, a, y)
      BY <3>1, <3>2, CachedFields
    <3> QED BY <3>1, <3>3 DEF Applied
  <2>10. e.enabled = t.enabled /\ e.nlock = t.nlock
    BY <1>4, <1>5, <2>1, <2>9 DEF Current
  <2>11. e.confirmed = t.confirmed
    <3>1. x.action = "disable_2fa" => x.op.m \in srv.enabled
      BY <1>3, <2>1 DEF Knows, Waits
    <3>2. x.action = "disable_2fa" /\ x.op.m = "email" => srv.confirmed
      BY <3>1 DEF SyncInv
    <3>3. ses.confirmed = srv.confirmed
      BY <2>1 DEF Current
    <3>4. e.confirmed <=> t.confirmed
      BY <1>4, <1>5, <2>9, <3>2, <3>3
    <3> QED BY <1>6, <2>9, <3>4
  <2>12. e.limit = t.limit
    <3>1. ses.limit = srv.limit /\ srv.limit \in Nat /\ x.op.n \in Nat
      BY <1>3, <2>1 DEF Current, IInv, Server, Op
    <3>2. d <=> t.limit < srv.limit
      BY <1>1
    <3> HIDE DEF d
    <3>3. CASE x.action = "change_tx_limits"
      BY <1>4, <1>5, <2>9, <3>3
    <3>4. CASE x.action = "send_raw_tx" /\ d
      BY <1>4, <2>9, <3>4
    <3>5. CASE x.action = "send_raw_tx" /\ ~d
      <4>1. e.limit = srv.limit
        BY <1>4, <2>9, <3>1, <3>5
      <4>2. t.limit <= srv.limit /\ t.limit \in Int
        BY <1>5, <3>1, <3>5
      <4> QED BY <3>1, <3>2, <3>5, <4>1, <4>2
    <3>6. CASE x.action \notin {"change_tx_limits", "send_raw_tx"}
      BY <1>4, <1>5, <2>9, <3>1, <3>6
    <3> QED BY <3>3, <3>4, <3>5, <3>6
  <2>13. Current(t, e)
    BY <2>10, <2>11, <2>12 DEF Current
  <2> QED BY <1>1, <2>6, <2>8, <2>13
<1>9. Acting(y) /\ ~Settled(y) /\ ~Settled(hs[h]) /\ Heard(y)
  BY <1>1, <1>3, <1>4 DEF Acting, Settled, Heard
<1> QED BY <1>2, <1>7, <1>8, <1>9, StepSync

\* A code that names a method, or a mistyped one, is a code
LEMMA CodeGiven ==
    /\ \A m, a : m # "" => [method |-> m, act |-> a] # NoCode
    /\ BadCode # NoCode
    /\ \A m, c : m # "" => [method |-> m, code |-> c] # NoAuth
BY DEF NoCode, BadCode, NoAuth

\* A call that needs no code, or comes with the right one, is not rejected
LEMMA RightAccepted ==
    ASSUME IInv, NEW x, Good(x), x.op \in Op, Knows(x, srv), WaitGood(x, srv), x.state # "resolve_code",
           x.state # "error", x.op.type = "settings" => x.nlock, ~Accepts(x)
    PROVE  /\ Takes(x, srv) /\ Stands(x, srv, x.attempts) /\ (Enabling(x) => FirstGood(x, srv))
           /\ x.code \in {BadCode, [method |-> x.method, act |-> x.action]}
           /\ BadCode \in {x.code, x.gauth.code}
<1>1. ~(x.method = "" /\ Open(x, srv))
  <2> SUFFICES ASSUME Open(x, srv) PROVE FALSE
    OBVIOUS
  <2>1. CASE srv.enabled = {} /\ ~Second(x)
    BY <2>1 DEF Second, Accepts, Authorized
  <2>2. CASE x.action = "request_reset" /\ ~x.confirming
    BY <2>2 DEF Accepts
  <2>3. CASE x.action = "send_raw_tx" /\ x.op.type = "send" /\ x.under /\ x.op.n <= srv.limit
    BY <2>3 DEF Accepts, Free
  <2>4. CASE x.action = "change_tx_limits" /\ x.op.type = "limits" /\ x.op.n <= srv.limit
    BY <2>4 DEF Accepts, Free
  <2> QED BY <2>1, <2>2, <2>3, <2>4 DEF Open
<1>2. /\ Takes(x, srv) /\ Stands(x, srv, x.attempts) /\ (Enabling(x) => FirstGood(x, srv))
      /\ x.code \in {BadCode, [method |-> x.method, act |-> x.action]}
  BY <1>1 DEF WaitGood
<1>3. ASSUME x.code # BadCode, x.gauth.code # BadCode PROVE FALSE
  <2>1. x.code = [method |-> x.method, act |-> x.action] /\ x.method # ""
    BY <1>2, <1>3 DEF Takes
  <2>2. x.method # "gauth" => Live(x.method, x.action)
    <3>1. x.attempts > 0
      BY DEF Good, Counted
    <3>2. x.method # "gauth" => srv.codes[x.method] = [act |-> x.action, left |-> x.attempts]
      BY <1>2 DEF Stands
    <3> QED BY <3>1, <3>2 DEF Live
  <2>3. Proves(x.method, x.code, x.action)
    BY <2>1, <2>2 DEF Proves
  <2>4. CASE Enabling(x)
    <3>1. Authorized("enable_2fa", x.gauth)
      BY <1>2, <1>3, <2>4 DEF FirstGood, Authorized, Proves, Live
    <3>2. x.method = "gauth" /\ x.action = "enable_" /\ x.op.m = "gauth"
      BY <1>2, <2>4 DEF Takes, Enabling
    <3>3. Proves("gauth", x.code, "enable_")
      BY <2>3, <3>2
    <3> QED BY <3>1, <3>2, <3>3 DEF Accepts
  <2>5. CASE ~Enabling(x) /\ x.action \in {"enable_", "activate_email"}
    <3>1. x.method = x.op.m
      BY <1>2, <2>5 DEF Takes, Knows
    <3>2. Proves(x.op.m, x.code, x.action)
      BY <2>3, <3>1
    <3> QED BY <2>5, <3>2 DEF Accepts, Enabling
  <2>6. CASE x.action = "request_reset"
    <3>1. x.method = "email"
      BY <1>2, <2>6 DEF Takes
    <3>2. Proves("email", x.code, x.action)
      BY <2>3, <3>1
    <3> QED BY <2>6, <3>2 DEF Accepts
  <2>7. CASE ~Second(x)
    <3>1. x.method \in srv.enabled
      BY <1>2, <2>7 DEF Takes
    <3>2. Sent(x) = [method |-> x.method, code |-> x.code]
      <4>1. x.code # NoCode
        BY <2>1, CodeGiven
      <4> QED BY <2>1, <4>1 DEF Sent
    <3>3. Authorized(x.action, Sent(x))
      BY <2>3, <3>1, <3>2 DEF Authorized
    <3> QED BY <2>7, <3>3 DEF Accepts, Second
  <2> QED BY <2>4, <2>5, <2>6, <2>7 DEF Second
<1> QED BY <1>2, <1>3

\* A rejected call: one of the codes was mistyped, and both sides count it
LEMMA CallRejectedSync ==
    ASSUME IInv, SyncInv, OneAtATime, NEW h \in Handlers, CallRejected(h)
    PROVE  SyncInv'
<1>1. PICK x, t, s : x = hs[h] /\ t = srv' /\ s = srv
  OBVIOUS
<1>2. /\ Good(x) /\ UNCHANGED <<ses, insync>> /\ Ready(x) /\ s \in Server
      /\ t = [s EXCEPT !.codes = Miss(s.codes, x.method)]
      /\ ~Accepts(x) /\ (x.op.type = "settings" => x.nlock)
  BY <1>1 DEF CallRejected, IInv
<1>3. PICK reply : /\ reply \in {"invalid_code", "refused"} /\ (reply = "refused" => Sent(x) = NoAuth)
                   /\ Set(h, [x EXCEPT !.state = "calling", !.reply = reply])
  BY <1>1 DEF CallRejected
<1>4. PICK y : y = [x EXCEPT !.state = "calling", !.reply = reply]
  OBVIOUS
<1>5. x.state \in {"pushed", "make_call"} /\ x.op \in Op
  BY <1>2 DEF Ready, Good, Named
<1>6. /\ y.state = "calling" /\ y.reply = reply /\ y.code = x.code /\ y.gauth = x.gauth
      /\ y.action = x.action /\ y.op = x.op /\ y.confirming = x.confirming /\ y.method = x.method
      /\ y.attempts = x.attempts
  BY <1>2, <1>4 DEF Good, Handler
<1>7. /\ t.enabled = s.enabled /\ t.confirmed = s.confirmed /\ t.limit = s.limit
      /\ t.nlock = s.nlock
      /\ \A k \in Methods : k # x.method => t.codes[k] = s.codes[k]
      /\ x.method \in Methods /\ s.codes[x.method].left > 0
           => t.codes[x.method] = [s.codes[x.method] EXCEPT !.left = @ - 1]
  <2>1. PICK c, m : m = x.method /\ c = Miss(s.codes, m)
    OBVIOUS
  <2>2. /\ t.enabled = s.enabled /\ t.confirmed = s.confirmed /\ t.limit = s.limit
        /\ t.nlock = s.nlock /\ t.codes = c
    BY <1>2, <2>1 DEF Server
  <2>3. \A k \in Methods : k # m => c[k] = s.codes[k]
    BY <2>1 DEF Miss
  <2>4. m \in Methods /\ s.codes[m].left > 0 => c[m] = [s.codes[m] EXCEPT !.left = @ - 1]
    BY <2>1 DEF Miss
  <2> QED BY <2>1, <2>2, <2>3, <2>4
<1>8. ASSUME insync PROVE Knows(y, t) /\ Current(t, ses)
  <2>1. Knows(x, s) /\ Current(s, ses)
    BY <1>1, <1>5, <1>8, ActiveKnows DEF Settled, Acting
  <2>2. WaitGood(x, s)
    BY <1>5, <2>1 DEF Knows, Waits
  <2>3. /\ Takes(x, s) /\ Stands(x, s, x.attempts) /\ (Enabling(x) => FirstGood(x, s))
        /\ x.code \in {BadCode, [method |-> x.method, act |-> x.action]}
        /\ BadCode \in {x.code, x.gauth.code}
    BY <1>1, <1>2, <1>5, <2>1, <2>2, RightAccepted
  <2>4. x.method # "" /\ x.method \in Methods
    BY <1>2, <2>3 DEF Takes, Good, Handler
  <2>5. reply = "invalid_code"
    <3>1. x.code # NoCode
      BY <2>3, <2>4, CodeGiven
    <3>2. Sent(x) = [method |-> x.method, code |-> x.code]
      BY <2>4, <3>1 DEF Sent
    <3>3. Sent(x) # NoAuth
      BY <2>4, <3>2, CodeGiven
    <3> QED BY <1>3, <3>3
  <2>6. Takes(y, t)
    BY <1>6, <1>7, <2>3 DEF Takes, Second
  <2>7. Stands(y, t, y.attempts - 1)
    <3>1. x.attempts \in Nat /\ x.attempts > 0
      <4>1. x.attempts \in 0 .. TWO_FACTOR_ATTEMPTS /\ (x.state # "error" => x.attempts > 0)
        BY <1>2 DEF Good, Counted, Handler
      <4> QED BY <1>5, <4>1
    <3>2. CASE x.method = "gauth"
      BY <3>2, <1>6 DEF Stands
    <3>3. CASE x.method # "gauth"
      <4>1. s.codes[x.method] = [act |-> x.action, left |-> x.attempts]
        BY <2>3, <3>3 DEF Stands
      <4>2. t.codes[x.method] = [act |-> x.action, left |-> x.attempts - 1]
        <5>1. PICK c, a, n : c = s.codes[x.method] /\ a = x.action /\ n = x.attempts
          OBVIOUS
        <5>2. c = [act |-> a, left |-> n] /\ n \in Nat /\ n > 0
          BY <3>1, <4>1, <5>1
        <5>3. c.left > 0 /\ [c EXCEPT !.left = @ - 1] = [act |-> a, left |-> n - 1]
          BY <5>2
        <5>4. t.codes[x.method] = [c EXCEPT !.left = @ - 1]
          BY <1>7, <2>4, <5>1, <5>3
        <5> QED BY <5>1, <5>3, <5>4
      <4> QED BY <4>2, <1>6 DEF Stands
    <3> QED BY <3>2, <3>3
  <2>8. Enabling(y) => FirstGood(y, t)
    <3> SUFFICES ASSUME Enabling(y) PROVE FirstGood(y, t)
      OBVIOUS
    <3>1. Enabling(x) /\ FirstGood(x, s) /\ x.method = "gauth"
      BY <1>6, <2>3 DEF Enabling, Takes
    <3>2. s.enabled \subseteq Methods
      BY <1>2 DEF Server
    <3>3. CASE s.enabled = {} \/ x.gauth.code = BadCode
      BY <3>3, <1>6, <1>7 DEF FirstGood
    <3>4. CASE x.gauth.method \in s.enabled
      <4>1. x.gauth.method # "gauth" => t.codes[x.gauth.method] = s.codes[x.gauth.method]
        BY <3>1, <3>2, <3>4, <1>7
      <4> QED BY <3>1, <3>4, <4>1, <1>6, <1>7 DEF FirstGood
    <3> QED BY <3>1, <3>3, <3>4 DEF FirstGood
  <2>9. RejectedGood(y, t)
    BY <1>6, <2>3, <2>6, <2>7, <2>8 DEF RejectedGood
  <2>10. Knows(y, t)
    BY <1>5, <1>6, <1>7, <2>1, <2>5, <2>9 DEF Knows, Waits, Acting
  <2> QED BY <1>7, <2>1, <2>10 DEF Current
<1>9. ~Acting(y) /\ ~Settled(y) /\ ~Settled(hs[h]) /\ Heard(y)
  BY <1>1, <1>3, <1>5, <1>6 DEF Acting, Settled, Heard
<1>10. "email" \in srv'.enabled => srv'.confirmed
  BY <1>1, <1>7 DEF SyncInv
<1>11. Set(h, y)
  BY <1>3, <1>4
<1> QED BY <1>1, <1>2, <1>8, <1>9, <1>10, <1>11, StepSync

\* Enabling gauth goes on to its own code: the other method's code is kept
LEMMA EnableGauthInitSync ==
    ASSUME IInv, SyncInv, OneAtATime, NEW h \in Handlers, EnableGauthInit(h)
    PROVE  SyncInv'
<1>1. PICK x, y : x = hs[h] /\ y = OnInitDone(x)
  OBVIOUS
<1>2. /\ Good(x) /\ x \in Handler /\ Set(h, y) /\ UNCHANGED <<srv, ses, insync>>
      /\ x.state = "make_call" /\ x.action = "enable_2fa" /\ x.op.m = "gauth"
  BY <1>1 DEF EnableGauthInit, GauthInit, IInv
<1>3. /\ y.state = "resolve_code" /\ y.attempts = TWO_FACTOR_ATTEMPTS /\ y.op = x.op
      /\ y.action = "enable_" /\ y.method = "gauth" /\ y.gauth = Sent(x) /\ y.reply = ""
  <2>1. /\ y.state = "resolve_code" /\ y.attempts = TWO_FACTOR_ATTEMPTS /\ y.op = x.op
        /\ y.action = IF x.action = "set_email" THEN "activate_email" ELSE "enable_"
        /\ y.method = x.op.m /\ y.gauth = Sent(x) /\ y.reply = ""
    BY <1>1, <1>2 DEF OnInitDone, Handler
  <2> QED BY <1>2, <2>1
<1>4. ASSUME insync PROVE Knows(y, srv) /\ Current(srv, ses)
  <2>1. Knows(x, srv) /\ Current(srv, ses)
    BY <1>1, <1>2, <1>4, ActiveKnows DEF Settled, Acting
  <2>2. WaitGood(x, srv)
    BY <1>2, <2>1 DEF Knows, Waits
  <2>3. FirstGood(y, srv)
    <3>1. CASE x.method = "" /\ Open(x, srv)
      BY <3>1, <1>2 DEF Open, Second, FirstGood
    <3>2. CASE /\ Takes(x, srv) /\ Stands(x, srv, x.attempts)
               /\ x.code \in {BadCode, [method |-> x.method, act |-> x.action]}
      <4>1. x.method # "" /\ x.method \in srv.enabled
        BY <3>2, <1>2 DEF Takes, Second
      <4>2. x.code # NoCode
        BY <3>2, <4>1, CodeGiven
      <4>3. Sent(x) = [method |-> x.method, code |-> x.code]
        BY <4>1, <4>2 DEF Sent
      <4>4. y.gauth.method = x.method /\ y.gauth.code = x.code
        <5>1. PICK g, m, c : g = y.gauth /\ m = x.method /\ c = x.code
          OBVIOUS
        <5>2. g = [method |-> m, code |-> c]
          BY <1>3, <4>3, <5>1
        <5>3. g.method = m /\ g.code = c
          BY <5>2
        <5> QED BY <5>1, <5>3
      <4>5. x.attempts > 0
        BY <1>2 DEF Good, Counted
      <4>6. x.method # "gauth" =>
              srv.codes[x.method].act = "enable_2fa" /\ srv.codes[x.method].left > 0
        BY <3>2, <1>2, <4>5 DEF Stands
      <4> QED BY <3>2, <1>2, <4>1, <4>4, <4>6 DEF FirstGood
    <3> QED BY <1>2, <2>2, <3>1, <3>2 DEF WaitGood
  <2>4. Takes(y, srv) /\ Stands(y, srv, y.attempts)
    BY <1>2, <1>3 DEF Takes, Stands, Second
  <2>5. WaitGood(y, srv)
    BY <1>3, <2>3, <2>4 DEF WaitGood
  <2>6. y.op.type # "settings"
    BY <1>2, <1>3, <2>1 DEF Knows
  <2> QED BY <1>3, <2>1, <2>5, <2>6 DEF Knows, Waits, Acting
<1>5. ~Acting(y) /\ ~Settled(y) /\ ~Settled(hs[h]) /\ Heard(y)
  BY <1>1, <1>2, <1>3 DEF Acting, Settled, Heard
<1> QED BY <1>2, <1>4, <1>5, StepSync DEF SyncInv

\* The reply is applied: the session knows, and the next code is the one sent
LEMMA ReplyOkSync ==
    ASSUME IInv, SyncInv, OneAtATime, NEW h \in Handlers, ReplyOk(h)
    PROVE  SyncInv'
<1>1. PICK x, y : x = hs[h] /\ y = Completed(x)
  OBVIOUS
<1>2. /\ Good(x) /\ x \in Handler /\ Set(h, y) /\ UNCHANGED <<srv, insync>> /\ ses' = Cached(x)
      /\ x.state = "calling" /\ x.reply = "ok"
  BY <1>1 DEF ReplyOk, IInv
<1>3. x.op \in Op /\ x.op.m \in Methods /\ x.op.m # "" /\ Acting(x)
  BY <1>2, MethodsAssumption DEF Good, Named, Op, Acting
<1>4. y.reply = "" /\ y.state # "none"
  BY <1>1, <1>2 DEF Completed, OnInitDone, Handler
<1>5. ASSUME insync PROVE Current(srv, ses') /\ (~Settled(y) => Knows(y, srv))
  <2>1. Knows(x, srv) /\ Current(srv, ses')
    BY <1>1, <1>2, <1>3, <1>5 DEF Settled, SyncInv, InSync
  <2>2. ActingGood(x, srv)
    BY <1>3, <2>1 DEF Knows
  <2>3. CASE x.action \in {"set_email", "enable_2fa"}
    <3>1. y = OnInitDone(x)
      BY <1>1, <2>3 DEF Completed
    <3>2. /\ y.state = "resolve_code" /\ y.attempts = TWO_FACTOR_ATTEMPTS /\ y.op = x.op
          /\ y.action = IF x.action = "set_email" THEN "activate_email" ELSE "enable_"
          /\ y.method = x.op.m
      BY <1>2, <3>1 DEF OnInitDone, Handler
    <3>3. x.action = "set_email" => x.op.m = "email"
      BY <2>1 DEF Knows
    <3>4. srv.codes[x.op.m] = Issue(y.action) /\ ~Enabling(y)
      BY <2>2, <2>3, <3>2, <3>3 DEF ActingGood, Enabling
    <3>5. Takes(y, srv) /\ Stands(y, srv, y.attempts)
      BY <1>3, <3>2, <3>3, <3>4 DEF Takes, Stands, Second, Issue
    <3>6. WaitGood(y, srv)
      BY <3>2, <3>4, <3>5 DEF WaitGood
    <3>7. y.op.type # "settings"
      BY <2>1, <2>3, <3>2 DEF Knows
    <3> QED BY <1>4, <2>1, <3>2, <3>3, <3>6, <3>7 DEF Knows, Waits, Acting
  <2>4. CASE x.action = "request_reset" /\ ~x.confirming
    <3>1. y = [x EXCEPT !.state = "resolve_code", !.confirming = TRUE, !.methods = {"email"},
                     !.method = "email", !.attempts = TWO_FACTOR_ATTEMPTS, !.reply = ""]
      BY <1>1, <2>4 DEF Completed
    <3>2. /\ y.state = "resolve_code" /\ y.attempts = TWO_FACTOR_ATTEMPTS /\ y.op = x.op
          /\ y.action = x.action /\ y.method = "email" /\ y.confirming
      BY <1>2, <3>1 DEF Handler
    <3>3. srv.codes["email"] = Issue("request_reset")
      BY <2>2, <2>4 DEF ActingGood
    <3>4. Takes(y, srv) /\ Stands(y, srv, y.attempts) /\ ~Enabling(y)
      BY <2>4, <3>2, <3>3 DEF Takes, Stands, Second, Issue, Enabling
    <3>5. WaitGood(y, srv)
      BY <3>2, <3>4 DEF WaitGood
    <3> QED BY <1>4, <2>1, <2>4, <3>2, <3>5 DEF Knows, Waits, Acting
  <2>5. CASE x.action \notin {"set_email", "enable_2fa"} /\ ~(x.action = "request_reset" /\ ~x.confirming)
    <3>1. y = [x EXCEPT !.state = IF x.action = "disable_2fa" /\ x.op.m = "gauth"
                                      THEN "reload" ELSE "done", !.reply = "",
                            !.attempts = TWO_FACTOR_ATTEMPTS]
      BY <1>1, <2>5 DEF Completed
    <3>2. y.state \in {"reload", "done"} /\ y.op = x.op /\ y.action = x.action
      BY <1>2, <3>1 DEF Handler
    <3> QED BY <1>4, <2>1, <3>2 DEF Knows, Waits, Acting, Settled
  <2> QED BY <2>3, <2>4, <2>5
<1>6. ~Acting(y) /\ ~Settled(hs[h]) /\ Heard(y)
  BY <1>1, <1>2, <1>4 DEF Acting, Settled, Heard
<1> QED BY <1>2, <1>5, <1>6, StepSync DEF SyncInv

\* A mistyped code is asked for again with the attempts the server still gives
LEMMA ReplyInvalidCodeSync ==
    ASSUME IInv, SyncInv, OneAtATime, NEW h \in Handlers, ReplyInvalidCode(h)
    PROVE  SyncInv'
<1>1. PICK x : x = hs[h]
  OBVIOUS
<1>2. /\ Good(x) /\ x \in Handler /\ UNCHANGED <<srv, ses, insync>>
      /\ x.state = "calling" /\ x.reply = "invalid_code"
  BY <1>1 DEF ReplyInvalidCode, IInv
<1>3. ~Acting(x) /\ ~Settled(x)
  BY <1>2 DEF Acting, Settled
<1>4. insync => /\ Knows(x, srv) /\ Current(srv, ses) /\ RejectedGood(x, srv)
                /\ x.action = "disable_2fa" => x.op.m \in srv.enabled
  <2>1. insync => Knows(x, srv) /\ Current(srv, ses)
    BY <1>1, <1>3, ActiveKnows
  <2> QED BY <1>2, <2>1 DEF Knows
<1>5. CASE x.action = "enable_" /\ x.op.m = "gauth" /\ ses.enabled # {}
  <2>1. PICK y : y = [x EXCEPT !.state = "request_code", !.action = "enable_2fa", !.reply = "",
                             !.methods = ses.enabled, !.attempts = TWO_FACTOR_ATTEMPTS]
    OBVIOUS
  <2>2. Set(h, y)
    BY <1>1, <1>5, <2>1 DEF ReplyInvalidCode
  <2>3. /\ y.state = "request_code" /\ y.action = "enable_2fa" /\ y.reply = ""
        /\ y.methods = ses.enabled /\ y.op = x.op
    BY <1>2, <2>1 DEF Handler
  <2>4. insync => Knows(y, srv)
    BY <1>4, <1>5, <2>3 DEF Knows, Waits, Acting, Second, Current
  <2>5. ~Acting(y) /\ ~Settled(y) /\ Heard(y)
    BY <2>3 DEF Acting, Settled, Heard
  <2> QED BY <1>1, <1>2, <1>3, <1>4, <2>2, <2>4, <2>5, StepSync DEF SyncInv
<1>6. CASE ~(x.action = "enable_" /\ x.op.m = "gauth" /\ ses.enabled # {}) /\ x.method = "gauth"
  <2>1. PICK y : y = [x EXCEPT !.state = "resolve_code", !.reply = ""]
    OBVIOUS
  <2>2. Set(h, y)
    BY <1>1, <1>6, <2>1 DEF ReplyInvalidCode
  <2>3. /\ y.state = "resolve_code" /\ y.action = x.action /\ y.reply = "" /\ y.method = x.method
        /\ y.gauth = x.gauth /\ y.confirming = x.confirming /\ y.op = x.op
    BY <1>2, <2>1 DEF Handler
  <2>4. ASSUME insync PROVE Knows(y, srv)
    <3>1. Takes(x, srv) /\ (Enabling(x) => FirstGood(x, srv))
      BY <1>4, <2>4 DEF RejectedGood
    <3>2. Takes(y, srv) /\ (Enabling(y) => FirstGood(y, srv)) /\ Stands(y, srv, y.attempts)
      BY <1>6, <2>3, <3>1 DEF Takes, Second, Enabling, FirstGood, Stands
    <3>3. WaitGood(y, srv)
      BY <2>3, <3>2 DEF WaitGood
    <3> QED BY <1>4, <2>3, <2>4, <3>3 DEF Knows, Waits, Acting
  <2>5. ~Acting(y) /\ ~Settled(y) /\ Heard(y)
    BY <2>3 DEF Acting, Settled, Heard
  <2> QED BY <1>1, <1>2, <1>3, <1>4, <2>2, <2>4, <2>5, StepSync DEF SyncInv
<1>7. CASE ~(x.action = "enable_" /\ x.op.m = "gauth" /\ ses.enabled # {}) /\ x.method # "gauth"
  <2>1. PICK y : y = [x EXCEPT !.attempts = @ - 1, !.reply = "",
                             !.state = IF OutOfAttempts(x) THEN "error" ELSE "resolve_code"]
    OBVIOUS
  <2>2. Set(h, y)
    BY <1>1, <1>7, <2>1 DEF ReplyInvalidCode
  <2>3. /\ y.state \in {"error", "resolve_code"} /\ y.action = x.action /\ y.reply = ""
        /\ y.method = x.method /\ y.attempts = x.attempts - 1
        /\ y.gauth = x.gauth /\ y.confirming = x.confirming /\ y.op = x.op
    BY <1>2, <2>1 DEF Handler
  <2>4. ASSUME insync, ~Settled(y) PROVE Knows(y, srv)
    <3>1. /\ Takes(x, srv) /\ (Enabling(x) => FirstGood(x, srv))
          /\ Stands(x, srv, x.attempts - 1)
      BY <1>4, <2>4 DEF RejectedGood
    <3>2. Takes(y, srv) /\ (Enabling(y) => FirstGood(y, srv)) /\ Stands(y, srv, y.attempts)
      BY <2>3, <3>1 DEF Takes, Second, Enabling, FirstGood, Stands
    <3>3. WaitGood(y, srv) /\ y.state = "resolve_code"
      BY <2>3, <2>4, <3>2 DEF WaitGood, Settled
    <3> QED BY <1>4, <2>3, <2>4, <3>3 DEF Knows, Waits, Acting
  <2>5. ~Acting(y) /\ Heard(y)
    BY <2>3 DEF Acting, Heard
  <2> QED BY <1>1, <1>2, <1>3, <1>4, <2>2, <2>4, <2>5, StepSync DEF SyncInv
<1> QED BY <1>5, <1>6, <1>7

\* A handler that ends where nothing was on its way leaves the session current
LEMMA EndsSync ==
    ASSUME IInv, SyncInv, OneAtATime, NEW h \in Handlers, NEW y, Set(h, y), Settled(y), Heard(y),
           ~Settled(hs[h]), insync' => insync /\ ~Acting(hs[h]), UNCHANGED <<srv, ses>>
    PROVE  SyncInv'
<1>1. insync' => Current(srv', ses')
  BY ActiveKnows
<1> QED BY <1>1, StepSync DEF SyncInv

\* A handler shows an error and nothing else happens
LEMMA ErrorFields ==
    ASSUME NEW x \in Handler PROVE Settled(set_error(x)) /\ Heard(set_error(x))
BY DEF set_error, Handler, Settled, Heard

\* A declined call has changed nothing
LEMMA CallDeclinedSync ==
    ASSUME IInv, SyncInv, OneAtATime, NEW h \in Handlers, CallDeclined(h)
    PROVE  SyncInv'
<1>1. PICK x, y : /\ x = hs[h]
                  /\ y = [x EXCEPT !.state = "calling", !.reply = "declined", !.declined = TRUE]
  OBVIOUS
<1>2. /\ x \in Handler /\ x.state \in {"pushed", "make_call"} /\ Set(h, y)
      /\ UNCHANGED <<srv, ses, insync>>
  BY <1>1 DEF CallDeclined, Ready, IInv
<1>3. y.state = "calling" /\ y.reply = "declined" /\ y.op = x.op /\ y.action = x.action
  BY <1>1, <1>2 DEF Handler
<1>4. insync => Knows(x, srv) /\ Current(srv, ses)
  BY <1>1, <1>2, ActiveKnows DEF Settled, Acting
<1>5. insync => Knows(y, srv)
  BY <1>3, <1>4 DEF Knows, Waits, Acting
<1>6. ~Acting(y) /\ ~Settled(y) /\ ~Settled(hs[h]) /\ Heard(y)
  BY <1>1, <1>2, <1>3 DEF Acting, Settled, Heard
<1> QED BY <1>2, <1>4, <1>5, <1>6, StepSync DEF SyncInv

\* It ends the dialogue, done or in an error
LEMMA ReplyDeclinedSync ==
    ASSUME IInv, SyncInv, OneAtATime, NEW h \in Handlers, ReplyDeclined(h)
    PROVE  SyncInv'
<1>1. PICK x, y : /\ x = hs[h]
                  /\ y = IF x.action = "remove_account" THEN Completed(x) ELSE set_error(x)
  OBVIOUS
<1>2. /\ x \in Handler /\ x.state = "calling" /\ x.reply = "declined" /\ Set(h, y)
      /\ UNCHANGED <<srv, ses, insync>>
  BY <1>1 DEF ReplyDeclined, IInv
<1>3. Settled(y) /\ Heard(y)
  <2>1. CASE x.action = "remove_account"
    <3>1. y = [x EXCEPT !.state = "done", !.reply = "", !.attempts = TWO_FACTOR_ATTEMPTS]
      BY <1>1, <2>1 DEF Completed
    <3>2. y.state = "done" /\ y.reply = ""
      BY <1>2, <3>1 DEF Handler
    <3> QED BY <3>2 DEF Settled, Heard
  <2>2. CASE x.action # "remove_account"
    BY <1>1, <1>2, <2>2, ErrorFields
  <2> QED BY <2>1, <2>2
<1>4. ~Settled(hs[h]) /\ ~Acting(hs[h])
  BY <1>1, <1>2 DEF Settled, Acting
<1> QED BY <1>2, <1>3, <1>4, EndsSync

\* An error while no accepted call is on its way leaves the session current; a lost
\* reply ends the synchronisation
LEMMA FailSync ==
    ASSUME IInv, SyncInv, OneAtATime, NEW h \in Handlers, Fail(h) \/ ReplyRefused(h)
    PROVE  SyncInv'
<1>1. PICK x, y : x = hs[h] /\ y = set_error(x)
  OBVIOUS
<1>2. /\ Set(h, y) /\ UNCHANGED <<srv, ses>>
      /\ x.state \in {"pushed", "make_call", "calling", "reload", "pushing"}
  BY <1>1 DEF Fail, CallFails, ReloadFails, PushFails, ReplyRefused, Ready
<1>3. insync' => insync /\ ~Acting(x)
  BY <1>1 DEF Fail, CallFails, ReloadFails, PushFails, ReplyRefused, Acting, IInv
<1>4. Settled(y) /\ Heard(y)
  BY <1>1, ErrorFields DEF IInv
<1>5. ~Settled(hs[h])
  BY <1>1, <1>2 DEF Settled
<1> QED BY <1>1, <1>2, <1>3, <1>4, <1>5, EndsSync

\* Reading the configuration again after gauth was disabled
LEMMA ReloadSync ==
    ASSUME IInv, SyncInv, OneAtATime, NEW h \in Handlers, ReadConfig(h) \/ SwapConfig(h)
    PROVE  SyncInv'
<1>1. PICK x : x = hs[h]
  OBVIOUS
<1>2. x \in Handler /\ x.state \in {"reload", "swap"} /\ UNCHANGED <<srv, insync>>
  BY <1>1 DEF ReadConfig, SwapConfig, IInv
<1>3. ~Acting(x) /\ ~Settled(x)
  BY <1>2 DEF Acting, Settled
<1>4. insync => Knows(x, srv) /\ Current(srv, ses)
  BY <1>1, <1>3, ActiveKnows
<1>5. CASE ReadConfig(h)
  <2>1. PICK c, y : c = [enabled |-> srv.enabled, confirmed |-> srv.confirmed]
                    /\ y = [x EXCEPT !.state = "swap", !.snap = c]
    OBVIOUS
  <2>2. Set(h, y) /\ UNCHANGED ses
    BY <1>1, <1>5, <2>1 DEF ReadConfig
  <2>3. y.state = "swap" /\ y.snap = c /\ y.op = x.op /\ y.action = x.action /\ y.reply = x.reply
    BY <1>2, <2>1 DEF Handler
  <2>4. x.reply = ""
    BY <1>1, <1>2 DEF SyncInv, Heard
  <2>5. insync => Knows(y, srv)
    BY <1>4, <2>1, <2>3, <2>4 DEF Knows, Waits, Acting
  <2>6. ~Acting(y) /\ ~Settled(y) /\ Heard(y)
    BY <2>3, <2>4 DEF Acting, Settled, Heard
  <2> QED BY <1>1, <1>2, <1>3, <1>4, <2>2, <2>5, <2>6, StepSync DEF SyncInv
<1>6. CASE SwapConfig(h)
  <2>1. PICK y : y = [x EXCEPT !.state = "done"]
    OBVIOUS
  <2>2. /\ Set(h, y) /\ x.state = "swap"
        /\ ses' = [ses EXCEPT !.enabled = x.snap.enabled, !.confirmed = x.snap.confirmed]
    BY <1>1, <1>6, <2>1 DEF SwapConfig
  <2>3. y.state = "done" /\ y.reply = x.reply
    BY <1>2, <2>1 DEF Handler
  <2>4. x.reply = ""
    BY <1>1, <1>2 DEF SyncInv, Heard
  <2>5. ASSUME insync PROVE Current(srv, ses')
    <3>1. x.snap = [enabled |-> srv.enabled, confirmed |-> srv.confirmed]
      BY <1>4, <2>2, <2>5 DEF Knows
    <3>2. PICK a, b, c : a = srv.enabled /\ b = srv.confirmed /\ c = x.snap
      OBVIOUS
    <3>3. c = [enabled |-> a, confirmed |-> b]
      BY <3>1, <3>2
    <3>4. c.enabled = a /\ c.confirmed = b
      BY <3>3
    <3>5. ses' = [ses EXCEPT !.enabled = a, !.confirmed = b]
      BY <2>2, <3>2, <3>4
    <3>6. ses'.enabled = a /\ ses'.confirmed = b /\ ses'.limit = ses.limit /\ ses'.nlock = ses.nlock
      BY <3>5 DEF IInv, Session
    <3> QED BY <1>4, <2>5, <3>2, <3>6 DEF Current
  <2>6. Settled(y) /\ Heard(y)
    BY <2>3, <2>4 DEF Settled, Heard
  <2> QED BY <1>1, <1>2, <1>3, <2>2, <2>5, <2>6, StepSync DEF SyncInv
<1> QED BY <1>5, <1>6

\* What a handler waits with is not touched by the change of settings
LEMMA WaitCarried ==
    ASSUME NEW x, NEW y, NEW s, NEW t, Waits(x), x.state # "resolve_code", y.state \in {"pushing", "pushed"},
           x.reply = "", y.reply = "",
           y.op = x.op /\ y.action = x.action /\ y.method = x.method /\ y.code = x.code,
           y.attempts = x.attempts /\ y.gauth = x.gauth /\ y.confirming = x.confirming,
           y.under = x.under /\ y.nlock = x.nlock,
           t.enabled = s.enabled /\ t.limit = s.limit /\ t.codes = s.codes,
           Knows(x, s)
    PROVE  Knows(y, t)
<1>1. WaitGood(x, s)
  BY DEF Knows
<1>2. Open(x, s) => Open(y, t)
  BY DEF Open, Second
<1>3. Takes(x, s) => Takes(y, t)
  BY DEF Takes, Second
<1>4. Stands(x, s, x.attempts) => Stands(y, t, y.attempts)
  BY DEF Stands
<1>5. (Enabling(x) => FirstGood(x, s)) => (Enabling(y) => FirstGood(y, t))
  BY DEF Enabling, FirstGood
<1>6. WaitGood(y, t)
  BY <1>1, <1>2, <1>3, <1>4, <1>5 DEF WaitGood
<1> QED BY <1>6 DEF Knows, Waits, Acting

\* change_settings touches only the appearance
LEMMA SettingsSync ==
    ASSUME IInv, SyncInv, OneAtATime, NEW h \in Handlers,
           ChangeSettings(h) \/ PushAppearance(h) \/ SettingsDone(h)
    PROVE  SyncInv'
<1>1. PICK x, s, t : x = hs[h] /\ s = srv /\ t = srv'
  OBVIOUS
<1>2. x \in Handler /\ x.state \in {"make_call", "pushing", "pushed"} /\ UNCHANGED insync
  BY <1>1 DEF ChangeSettings, PushAppearance, SettingsDone, IInv
<1>3. ~Acting(x) /\ ~Settled(x) /\ Waits(x)
  BY <1>2 DEF Acting, Settled, Waits
<1>4. insync => Knows(x, s) /\ Current(s, ses)
  BY <1>1, <1>3, ActiveKnows
<1>5. x.reply = ""
  BY <1>1, <1>2 DEF SyncInv, Heard
<1>6. ASSUME NEW y, Set(h, y), y.state \in {"pushing", "pushed"}, y.reply = "",
             y.op = x.op /\ y.action = x.action /\ y.method = x.method /\ y.code = x.code,
             y.attempts = x.attempts /\ y.gauth = x.gauth /\ y.confirming = x.confirming,
             y.under = x.under /\ y.nlock = x.nlock,
             t.enabled = s.enabled /\ t.limit = s.limit /\ t.codes = s.codes,
             t.confirmed = s.confirmed, t.nlock = s.nlock,
             insync => Current(s, ses')
      PROVE  SyncInv'
  <2>1. insync => Knows(y, t)
    BY <1>2, <1>3, <1>4, <1>5, <1>6, WaitCarried
  <2>2. insync => Current(t, ses')
    BY <1>6 DEF Current
  <2>3. ~Acting(y) /\ ~Settled(y) /\ Heard(y)
    BY <1>6 DEF Acting, Settled, Heard
  <2>4. "email" \in srv'.enabled => srv'.confirmed
    BY <1>1, <1>6 DEF SyncInv
  <2> QED BY <1>1, <1>2, <1>3, <1>6, <2>1, <2>2, <2>3, <2>4, StepSync
<1>7. CASE ChangeSettings(h)
  <2>1. PICK y : y = [x EXCEPT !.state = IF ses.look = x.op.look THEN "pushed" ELSE "pushing"]
    OBVIOUS
  <2>2. Set(h, y) /\ t = s /\ ses' = [ses EXCEPT !.look = x.op.look]
    BY <1>1, <1>7, <2>1 DEF ChangeSettings
  <2>3. /\ y.state \in {"pushing", "pushed"} /\ y.reply = x.reply
        /\ y.op = x.op /\ y.action = x.action /\ y.method = x.method /\ y.code = x.code
        /\ y.attempts = x.attempts /\ y.gauth = x.gauth /\ y.confirming = x.confirming
        /\ y.under = x.under /\ y.nlock = x.nlock
    BY <1>2, <2>1 DEF Handler
  <2>4. insync => Current(s, ses')
    BY <1>4, <2>2 DEF Current, IInv, Session
  <2> QED BY <1>5, <1>6, <2>2, <2>3, <2>4
<1>8. CASE PushAppearance(h)
  <2>1. PICK y : y = [x EXCEPT !.state = "pushed"]
    OBVIOUS
  <2>2. Set(h, y) /\ t = [s EXCEPT !.look = x.op.look] /\ ses' = ses /\ s \in Server
    BY <1>1, <1>8, <2>1 DEF PushAppearance, IInv
  <2>3. /\ y.state \in {"pushing", "pushed"} /\ y.reply = x.reply
        /\ y.op = x.op /\ y.action = x.action /\ y.method = x.method /\ y.code = x.code
        /\ y.attempts = x.attempts /\ y.gauth = x.gauth /\ y.confirming = x.confirming
        /\ y.under = x.under /\ y.nlock = x.nlock
    BY <1>2, <2>1 DEF Handler
  <2>4. /\ t.enabled = s.enabled /\ t.limit = s.limit /\ t.codes = s.codes
        /\ t.confirmed = s.confirmed /\ t.nlock = s.nlock
    BY <2>2 DEF Server
  <2> QED BY <1>4, <1>5, <1>6, <2>2, <2>3, <2>4
<1>9. CASE SettingsDone(h)
  <2>1. PICK y : y = [x EXCEPT !.state = "done", !.attempts = TWO_FACTOR_ATTEMPTS]
    OBVIOUS
  <2>2. Set(h, y) /\ UNCHANGED <<srv, ses>>
    BY <1>1, <1>9, <2>1 DEF SettingsDone
  <2>3. y.state = "done" /\ y.reply = x.reply
    BY <1>2, <2>1 DEF Handler
  <2>4. Settled(y) /\ Heard(y)
    BY <1>5, <2>3 DEF Settled, Heard
  <2> QED BY <1>1, <1>2, <1>3, <2>2, <2>4, EndsSync
<1> QED BY <1>7, <1>8, <1>9

\* Another application ends the synchronisation, and email is still enabled only if confirmed
LEMMA OtherAppSync == ASSUME IInv, SyncInv, OtherApp PROVE SyncInv'
<1>1. insync' = FALSE /\ hs' = hs
  BY DEF OtherApp
<1>2. srv'.enabled = srv.enabled /\ srv'.confirmed = srv.confirmed
  BY DEF OtherApp, IInv, Server
<1> QED BY <1>1, <1>2 DEF SyncInv

\* The invariant holds after login
LEMMA SyncInit == Init => SyncInv
<1> SUFFICES ASSUME Init PROVE SyncInv
  OBVIOUS
<1>1. \A h \in Handlers : hs[h] = NoHandler
  BY DEF Init
<1>2. Settled(NoHandler) /\ Heard(NoHandler)
  BY DEF Settled, Heard, NoHandler
<1>3. Current(srv, ses) /\ ("email" \in srv.enabled => srv.confirmed)
  BY DEF Init, Current
<1> QED BY <1>1, <1>2, <1>3 DEF SyncInv, InSync

\* Every step keeps the invariant, as long as one dialogue is ended before the next is begun
LEMMA SyncNext == IInv /\ SyncInv /\ OneAtATime /\ OneAtATime' /\ [Next]_vars => SyncInv'
<1> SUFFICES ASSUME IInv, SyncInv, OneAtATime, OneAtATime', [Next]_vars PROVE SyncInv'
  OBVIOUS
<1>1. CASE UNCHANGED vars
  <2>1. srv' = srv /\ ses' = ses /\ hs' = hs /\ insync' = insync
    BY <1>1 DEF vars, core
  <2>2. ASSUME NEW h \in Handlers PROVE Cached(hs[h])' = Cached(hs[h])
    BY <2>1 DEF Cached, update_spending_limits, set_nlocktime
  <2>3. insync' => InSync'
    BY <2>1, <2>2 DEF SyncInv, InSync
  <2> QED BY <2>1, <2>3 DEF SyncInv
<1>2. CASE OtherApp
  BY <1>2, OtherAppSync
<1>3. ASSUME NEW h \in Handlers,
             \/ \E op \in Ops : Create(h, op)
             \/ Destroy(h)
             \/ \E m \in Methods : RequestCode(h, m) \/ RequestCodeFails(h, m)
             \/ \E right \in BOOLEAN : ResolveCode(h, right)
             \/ Answer(h) \/ Fail(h)
      PROVE  SyncInv'
  <2>1. ASSUME NEW op \in Ops, Create(h, op) PROVE SyncInv'
    BY <2>1, CreateSync
  <2>2. CASE Destroy(h)
    BY <2>2, DestroySync
  <2>3. ASSUME NEW m \in Methods, RequestCode(h, m) \/ RequestCodeFails(h, m) PROVE SyncInv'
    BY <2>3, RequestSync, RequestFailsSync
  <2>4. ASSUME NEW right \in BOOLEAN, ResolveCode(h, right) PROVE SyncInv'
    BY <2>4, ResolveSync
  <2>5. CASE Answer(h)
    BY <2>5, CallAcceptedSync, CallRejectedSync, CallDeclinedSync, EnableGauthInitSync, ReplyOkSync,
       ReplyInvalidCodeSync, ReplyDeclinedSync, FailSync, ReloadSync, SettingsSync DEF Answer
  <2>6. CASE Fail(h)
    BY <2>6, FailSync
  <2> QED BY <1>3, <2>1, <2>2, <2>3, <2>4, <2>5, <2>6
<1> QED BY <1>1, <1>2, <1>3 DEF Next

\* The dialogues have been held one at a time, and nothing went out of step
AloneInv == alone => OneAtATime /\ SyncInv

\* It holds after login
LEMMA AloneInit == Init => AloneInv
<1> SUFFICES ASSUME Init PROVE OneAtATime
  BY SyncInit DEF AloneInv
<1>1. \A h \in Handlers : hs[h] = NoHandler
  BY DEF Init
<1>2. Settled(NoHandler)
  BY DEF Settled, NoHandler
<1> QED BY <1>1, <1>2 DEF OneAtATime

\* Every step keeps it
LEMMA AloneNext == IInv /\ AloneInv /\ [Next]_vars => AloneInv'
<1> SUFFICES ASSUME IInv, AloneInv, [Next]_vars, alone' PROVE OneAtATime' /\ SyncInv'
  BY DEF AloneInv
<1>1. alone /\ OneAtATime /\ SyncInv /\ OneAtATime'
  <2>1. CASE Next
    BY <2>1 DEF Next, AloneInv
  <2>2. CASE UNCHANGED vars
    BY <2>2 DEF vars, core, AloneInv, OneAtATime
  <2> QED BY <2>1, <2>2
<1> QED BY <1>1, SyncNext

\* What the invariant says about the attempts and the codes
LEMMA SyncImplies == IInv /\ AloneInv => AttemptsMatch /\ RightCodeAccepted
<1> SUFFICES ASSUME IInv, AloneInv PROVE AttemptsMatch /\ RightCodeAccepted
  OBVIOUS
<1>1. ASSUME NEW h \in Handlers, insync, alone, hs[h].state \in {"resolve_code", "make_call"},
             hs[h].method \notin {"", "gauth"}
      PROVE  srv.codes[hs[h].method].left = hs[h].attempts
  <2>1. Knows(hs[h], srv)
    BY <1>1, ActiveKnows DEF Settled, AloneInv
  <2>2. Stands(hs[h], srv, hs[h].attempts)
    BY <1>1, <2>1 DEF Knows, Waits, WaitGood
  <2>3. PICK c, a, n : c = srv.codes[hs[h].method] /\ a = hs[h].action /\ n = hs[h].attempts
    OBVIOUS
  <2>4. c = [act |-> a, left |-> n]
    BY <1>1, <2>2, <2>3 DEF Stands
  <2>5. c.left = n
    BY <2>4
  <2> QED BY <2>3, <2>5
<1>2. ASSUME NEW h \in Handlers, insync, alone, hs[h].reply = "invalid_code"
      PROVE  BadCode \in {hs[h].code, hs[h].gauth.code}
  <2>1. hs[h].state = "calling"
    BY <1>2 DEF SyncInv, Heard, AloneInv
  <2>2. Knows(hs[h], srv)
    BY <1>2, <2>1, ActiveKnows DEF Settled, AloneInv
  <2> QED BY <1>2, <2>1, <2>2 DEF Knows, RejectedGood
<1> QED BY <1>1, <1>2 DEF AttemptsMatch, RightCodeAccepted

\* As long as one dialogue is held at a time, the attempts auth_handler shows its caller
\* (m_attempts_remaining) are those the server gives for the code that was asked for, in
\* every phase.
THEOREM AttemptsAgree == Spec => []AttemptsMatch
BY InitIInv, Inductive, AloneInit, AloneNext, SyncImplies, PTL DEF Spec

\* As long as one dialogue is held at a time, a call the server rejects as an invalid code
\* carried a mistyped one; a code typed right is never sent with the wrong method or for
\* the wrong action.
THEOREM RightCodesPass == Spec => []RightCodeAccepted
BY InitIInv, Inductive, AloneInit, AloneNext, SyncImplies, PTL DEF Spec

-----------------------------------------------------------------------------
(* The session's copy, however the dialogues overlap.  Each part of it is  *)
(* changed by the calls on that part alone, so it is the server's when no  *)
(* such call is under way, and the one that is will make it so.            *)

Parts == {"config", "limits", "nlocktime"}
\* Two copies of the state agree on a part
Same(p, s, e) ==
    /\ p = "config" => e.enabled = s.enabled /\ e.confirmed = s.confirmed
    /\ p = "limits" => e.limit = s.limit
    /\ p = "nlocktime" => e.nlock = s.nlock
\* The session's copy e once the reply that x waits for has been applied
Seen(x, e) == IF Acting(x) THEN CachedIn(e, x) ELSE e
ConfigOf(s) == [enabled |-> s.enabled, confirmed |-> s.confirmed]

\* Where the email address is taken to be confirmed, it is
Sure(x, s) ==
    /\ Heard(x)
    /\ x.state \in {"reload", "swap"} => x.action = "disable_2fa"
    /\ \/ x.state = "swap" /\ "email" \in x.snap.enabled
       \/ Acting(x) /\ x.action = "enable_" /\ x.op.m = "email"
       \/ x.state \notin {"none", "error"} /\ x.action = "disable_2fa" /\ x.op.m = "email"
       => s.confirmed

\* No two calls on the same part are under way
Apart == \A g, h \in Handlers :
    g # h /\ InFlight(hs[g]) /\ InFlight(hs[h]) => Part(hs[g]) # Part(hs[h]) \/ Part(hs[g]) = "none"
Agree ==
    /\ \A h \in Handlers : InFlight(hs[h]) =>
         /\ Same(Part(hs[h]), srv, Seen(hs[h], ses))
         /\ hs[h].state = "swap" => hs[h].snap = ConfigOf(srv)
    /\ \A p \in Parts :
         (\A h \in Handlers : InFlight(hs[h]) => Part(hs[h]) # p) => Same(p, srv, ses)
SharedInv ==
    /\ "email" \in srv.enabled \cup ses.enabled => srv.confirmed
    /\ \A h \in Handlers : Sure(hs[h], srv)
    /\ insync => Apart /\ Agree

\* A call changes one part or none
LEMMA PartType == \A x : Part(x) \in Parts \cup {"none"}
BY DEF Part, Parts

\* An accepted call in flight is the one whose reply is to be applied
LEMMA FlightActing == \A x : Acting(x) => InFlight(x)
BY DEF Acting, InFlight

\* What a reply makes of the part it is about depends on that part only
LEMMA SeenPart ==
    ASSUME NEW a \in Session, NEW b \in Session, NEW x, Same(Part(x), a, b)
    PROVE  Same(Part(x), Seen(x, a), Seen(x, b))
<1>1. CASE ~Acting(x)
  BY <1>1 DEF Seen
<1>2. CASE Acting(x)
  <2>1. PICK d, e, p : d = CachedIn(a, x) /\ e = CachedIn(b, x) /\ p = Part(x)
    OBVIOUS
  <2>2. Applied(d, a, x)
    BY <2>1, CachedFields
  <2>3. Applied(e, b, x)
    BY <2>1, CachedFields
  <2>4. p = "config" => d.enabled = e.enabled /\ d.confirmed = e.confirmed
    <3> SUFFICES ASSUME p = "config" PROVE d.enabled = e.enabled /\ d.confirmed = e.confirmed
      OBVIOUS
    <3>1. a.enabled = b.enabled /\ a.confirmed = b.confirmed
      BY <2>1 DEF Same
    <3>2. d.enabled = e.enabled
      BY <2>2, <2>3, <3>1 DEF Applied
    <3>3. d.confirmed <=> e.confirmed
      BY <2>2, <2>3, <3>1 DEF Applied
    <3> QED BY <2>2, <2>3, <3>2, <3>3 DEF Applied
  <2>5. p = "limits" => d.limit = e.limit
    BY <2>1, <2>2, <2>3 DEF Same, Applied
  <2>6. p = "nlocktime" => d.nlock = e.nlock
    BY <2>1, <2>2, <2>3 DEF Same, Applied
  <2>7. Same(p, d, e)
    BY <2>4, <2>5, <2>6 DEF Same
  <2> QED BY <1>2, <2>1, <2>7 DEF Seen
<1> QED BY <1>1, <1>2

\* A step of one handler that changes the part p, or none, and leaves that part right
LEMMA PartStep ==
    ASSUME IInv, IInv', SharedInv, NEW h \in Handlers, NEW y, Set(h, y), NEW p \in Parts \cup {"none"},
           insync' => insync,
           insync' => \A g \in Handlers \ {h} : InFlight(hs[g]) => Part(hs[g]) # p \/ p = "none",
           \A q \in Parts \ {p} : Same(q, srv', srv) /\ Same(q, ses', ses),
           InFlight(hs[h]) => Part(hs[h]) = p,
           InFlight(y) => Part(y) = p,
           insync' => Same(p, srv', Seen(y, ses')),
           insync' /\ y.state = "swap" => y.snap = ConfigOf(srv'),
           "email" \in srv'.enabled \cup ses'.enabled => srv'.confirmed,
           srv.confirmed => srv'.confirmed,
           Sure(y, srv')
    PROVE  SharedInv'
<1>1. \A k \in Handlers : hs'[k] = IF k = h THEN y ELSE hs[k]
  BY DEF Set, IInv
<1>2. \A k \in Handlers : Sure(hs'[k], srv')
  BY <1>1 DEF SharedInv, Sure
<1>3. ASSUME insync' PROVE Apart' /\ Agree'
  <2>1. Apart /\ Agree
    BY <1>3 DEF SharedInv
  <2>2. \A g \in Handlers : g # h /\ InFlight(hs[g]) => Part(hs[g]) # p \/ p = "none"
    BY <1>3
  <2>3. ASSUME NEW g \in Handlers, NEW k \in Handlers, g # k, InFlight(hs'[g]), InFlight(hs'[k])
        PROVE  Part(hs'[g]) # Part(hs'[k]) \/ Part(hs'[g]) = "none"
    <3>1. CASE g = h
      <4>1. hs'[g] = y /\ hs'[k] = hs[k]
        BY <1>1, <2>3, <3>1
      <4> QED BY <2>2, <2>3, <3>1, <4>1
    <3>2. CASE k = h
      <4>1. hs'[k] = y /\ hs'[g] = hs[g]
        BY <1>1, <2>3, <3>2
      <4> QED BY <2>2, <2>3, <3>2, <4>1
    <3>3. CASE g # h /\ k # h
      <4>1. hs'[k] = hs[k] /\ hs'[g] = hs[g]
        BY <1>1, <3>3
      <4> QED BY <2>1, <2>3, <4>1 DEF Apart
    <3> QED BY <3>1, <3>2, <3>3
  <2>4. ASSUME NEW k \in Handlers, InFlight(hs'[k])
        PROVE  /\ Same(Part(hs'[k]), srv', Seen(hs'[k], ses'))
               /\ hs'[k].state = "swap" => hs'[k].snap = ConfigOf(srv')
    <3>1. CASE k = h
      <4>1. hs'[k] = y
        BY <1>1, <3>1
      <4> QED BY <1>3, <2>4, <4>1
    <3>2. CASE k # h
      <4>1. PICK x, q : x = hs[k] /\ q = Part(x)
        OBVIOUS
      <4>2. hs'[k] = x /\ InFlight(x)
        BY <1>1, <2>4, <3>2, <4>1
      <4>3. q # p \/ q = "none"
        BY <2>2, <3>2, <4>1, <4>2
      <4>4. Same(q, srv, Seen(x, ses)) /\ (x.state = "swap" => x.snap = ConfigOf(srv))
        BY <2>1, <4>1, <4>2 DEF Agree
      <4>5. x.state = "swap" => q = "config"
        BY <4>1 DEF SharedInv, Sure, Part
      <4>6. CASE q = "none"
        <5>1. Same(q, srv', Seen(x, ses'))
          BY <4>6 DEF Same
        <5> QED BY <4>1, <4>2, <4>5, <4>6, <5>1
      <4>7. CASE q # "none"
        <5>1. q \in Parts \ {p}
          BY <4>1, <4>3, <4>7, PartType
        <5>2. Same(q, srv', srv) /\ Same(q, ses', ses)
          BY <5>1
        <5>3. PICK a, b : a = ses' /\ b = ses /\ a \in Session /\ b \in Session
          BY DEF IInv
        <5>4. Same(Part(x), Seen(x, a), Seen(x, b))
          BY <4>1, <5>2, <5>3, SeenPart
        <5>5. PICK u, v : u = Seen(x, a) /\ v = Seen(x, b)
          OBVIOUS
        <5>6. Same(q, u, v) /\ Same(q, srv, v)
          BY <4>1, <4>4, <5>3, <5>4, <5>5
        <5>7. Same(q, srv', u)
          BY <5>2, <5>6 DEF Same
        <5>8. x.state = "swap" => x.snap = ConfigOf(srv')
          <6>1. q = "config" => srv'.enabled = srv.enabled /\ srv'.confirmed = srv.confirmed
            BY <5>2 DEF Same
          <6>2. q = "config" => ConfigOf(srv') = ConfigOf(srv)
            BY <6>1 DEF ConfigOf
          <6> QED BY <4>4, <4>5, <6>2
        <5> QED BY <4>1, <4>2, <5>3, <5>5, <5>7, <5>8
      <4> QED BY <4>6, <4>7
    <3> QED BY <3>1, <3>2
  <2>5. ASSUME NEW q \in Parts, \A k \in Handlers : InFlight(hs'[k]) => Part(hs'[k]) # q
        PROVE  Same(q, srv', ses')
    <3>1. CASE q = p
      <4>1. ~InFlight(y)
        <5>1. hs'[h] = y
          BY <1>1
        <5> QED BY <2>5, <3>1, <5>1
      <4>2. Seen(y, ses') = ses'
        BY <4>1, FlightActing DEF Seen
      <4> QED BY <1>3, <3>1, <4>2
    <3>2. CASE q # p
      <4>1. \A k \in Handlers : InFlight(hs[k]) => Part(hs[k]) # q
        <5> SUFFICES ASSUME NEW k \in Handlers, InFlight(hs[k]) PROVE Part(hs[k]) # q
          OBVIOUS
        <5>1. CASE k = h
          BY <3>2, <5>1
        <5>2. CASE k # h
          <6>1. hs'[k] = hs[k]
            BY <1>1, <5>2
          <6> QED BY <2>5, <6>1
        <5> QED BY <5>1, <5>2
      <4>2. Same(q, srv, ses)
        BY <2>1, <4>1 DEF Agree
      <4>3. Same(q, srv', srv) /\ Same(q, ses', ses)
        BY <3>2
      <4> QED BY <4>2, <4>3 DEF Same
    <3> QED BY <3>1, <3>2
  <2>6. Apart'
    BY <2>3 DEF Apart
  <2>7. Agree'
    BY <2>4, <2>5 DEF Agree
  <2> QED BY <2>6, <2>7
<1> QED BY <1>2, <1>3 DEF SharedInv

\* An accepted call: its part will be the server's when the reply is applied
LEMMA CallAcceptedShared ==
    ASSUME IInv, IInv', SharedInv, NEW h \in Handlers, CallAccepted(h)
    PROVE  SharedInv'
<1> DEFINE d == srv'.limit < srv.limit
           z == [hs[h] EXCEPT !.state = "calling", !.reply = "ok", !.limit = srv'.limit,
                              !.decreased = d, !.acts = IF Final(hs[h]) THEN @ + 1 ELSE @]
<1>1. PICK x, y, t, p : x = hs[h] /\ t = srv' /\ y = z /\ p = Part(x)
  OBVIOUS
<1>2. /\ Good(x) /\ Set(h, y) /\ UNCHANGED ses /\ t = Effect(x) /\ Ready(x)
      /\ insync' => insync /\ ~Overlaps(h)
  BY <1>1 DEF CallAccepted, IInv
<1>3. x.state \in {"pushed", "make_call"} /\ x.op \in Op
  BY <1>2 DEF Ready, Good, Named
<1>4. /\ y.state = "calling" /\ y.reply = "ok" /\ y.limit = t.limit /\ y.decreased = d
      /\ y.action = x.action /\ y.op = x.op
  <2>1. x \in Handler
    BY <1>2 DEF Good
  <2> HIDE DEF d
  <2> QED BY <1>1, <2>1 DEF Handler
<1> HIDE DEF z
<1>5. /\ t.enabled = IF x.action = "enable_" THEN srv.enabled \cup {x.op.m}
                     ELSE IF x.action = "disable_2fa" THEN srv.enabled \ {x.op.m} ELSE srv.enabled
      /\ t.confirmed <=> \/ srv.confirmed \/ x.action = "activate_email"
                         \/ x.action = "enable_" /\ x.op.m = "email"
      /\ t.limit = IF x.action = "change_tx_limits" THEN x.op.n
                   ELSE IF x.action = "send_raw_tx" /\ x.under /\ x.op.n <= srv.limit
                   THEN srv.limit - x.op.n ELSE srv.limit
      /\ t.nlock = IF x.action = "set_nlocktime" THEN x.op.n ELSE srv.nlock
  BY <1>2, <1>3, EffectFields
<1>6. t \in Server /\ t.confirmed \in BOOLEAN /\ srv.confirmed \in BOOLEAN
  BY <1>2, <1>3, EffectType DEF Server, IInv
<1>7. Part(y) = p /\ InFlight(y) /\ Acting(y) /\ ~InFlight(x) /\ p \in Parts \cup {"none"}
  BY <1>1, <1>3, <1>4, PartType DEF Part, InFlight, Acting
<1>8. Sure(x, srv) /\ ("email" \in srv.enabled \cup ses.enabled => srv.confirmed)
  BY <1>1 DEF SharedInv
<1>9. srv.confirmed => t.confirmed
  BY <1>5
<1>10. "email" \in t.enabled \cup ses.enabled => t.confirmed
  <2>1. "email" \in t.enabled => "email" \in srv.enabled \/ (x.action = "enable_" /\ x.op.m = "email")
    BY <1>5
  <2> QED BY <1>5, <1>8, <2>1
<1>11. Sure(y, t)
  <2>1. x.action = "disable_2fa" /\ x.op.m = "email" => srv.confirmed
    BY <1>3, <1>8 DEF Sure
  <2> QED BY <1>4, <1>5, <2>1 DEF Sure, Heard
<1>12. ASSUME NEW q \in Parts \ {p} PROVE Same(q, t, srv) /\ Same(q, ses', ses)
  <2>1. q = "config" => x.action \notin {"enable_", "activate_email", "disable_2fa"}
    BY <1>1, <1>12 DEF Part
  <2>2. q = "limits" => x.action \notin {"change_tx_limits", "send_raw_tx"}
    BY <1>1, <1>12 DEF Part
  <2>3. q = "nlocktime" => x.action # "set_nlocktime"
    BY <1>1, <1>12 DEF Part
  <2>4. q = "config" => srv.confirmed = t.confirmed
    <3>1. q = "config" => (srv.confirmed <=> t.confirmed)
      BY <1>5, <2>1
    <3> QED BY <1>6, <3>1
  <2>5. Same(q, t, srv)
    BY <1>5, <2>1, <2>2, <2>3, <2>4 DEF Same
  <2> QED BY <1>2, <2>5 DEF Same
<1>13. insync' => \A g \in Handlers \ {h} : InFlight(hs[g]) => Part(hs[g]) # p \/ p = "none"
  BY <1>1, <1>2 DEF Overlaps
<1>14. ASSUME insync' PROVE Same(p, t, Seen(y, ses'))
  <2>1. CASE p = "none"
    BY <2>1 DEF Same
  <2>2. CASE p # "none"
    <3>1. p \in Parts /\ \A k \in Handlers : InFlight(hs[k]) => Part(hs[k]) # p
      BY <1>1, <1>7, <1>13, <1>14, <2>2
    <3>2. Same(p, srv, ses)
      BY <1>2, <1>14, <3>1 DEF SharedInv, Agree
    <3>3. PICK a, e : a = ses /\ e = CachedIn(a, y) /\ a \in Session
      BY DEF IInv
    <3>4. Applied(e, a, y)
      BY <3>3, CachedFields
    <3>5. p = "config" => e.enabled = t.enabled /\ e.confirmed = t.confirmed
      <4> SUFFICES ASSUME p = "config" PROVE e.enabled = t.enabled /\ e.confirmed = t.confirmed
        OBVIOUS
      <4>1. a.enabled = srv.enabled /\ a.confirmed = srv.confirmed
        BY <3>2, <3>3 DEF Same
      <4>2. e.enabled = t.enabled
        BY <1>4, <1>5, <3>4, <4>1 DEF Applied
      <4>3. x.action = "disable_2fa" /\ x.op.m = "email" => srv.confirmed
        BY <1>3, <1>8 DEF Sure
      <4>4. e.confirmed <=> t.confirmed
        BY <1>4, <1>5, <3>4, <4>1, <4>3 DEF Applied
      <4>5. e.confirmed \in BOOLEAN
        BY <3>4 DEF Applied
      <4> QED BY <1>6, <4>2, <4>4, <4>5
    <3>6. p = "limits" => e.limit = t.limit
      <4> SUFFICES ASSUME p = "limits" PROVE e.limit = t.limit
        OBVIOUS
      <4>1. a.limit = srv.limit /\ srv.limit \in Nat /\ x.op.n \in Nat
        BY <1>3, <3>2, <3>3 DEF Same, IInv, Server, Op
      <4>2. d <=> t.limit < srv.limit
        BY <1>1
      <4> HIDE DEF d
      <4>3. x.action \in {"change_tx_limits", "send_raw_tx"}
        BY <1>1 DEF Part
      <4>4. e.limit = IF y.action = "change_tx_limits" THEN y.op.n
                      ELSE IF y.action = "send_raw_tx" /\ y.decreased THEN y.limit ELSE a.limit
        BY <3>4 DEF Applied
      <4>5. CASE x.action = "change_tx_limits"
        BY <1>4, <1>5, <4>4, <4>5
      <4>6. CASE x.action = "send_raw_tx" /\ d
        BY <1>4, <4>4, <4>6
      <4>7. CASE x.action = "send_raw_tx" /\ ~d
        <5>1. e.limit = srv.limit
          BY <1>4, <4>1, <4>4, <4>7
        <5>2. t.limit <= srv.limit /\ t.limit \in Int
          BY <1>5, <4>1, <4>7
        <5> QED BY <4>1, <4>2, <4>7, <5>1, <5>2
      <4> QED BY <4>3, <4>5, <4>6, <4>7
    <3>7. p = "nlocktime" => e.nlock = t.nlock
      <4> SUFFICES ASSUME p = "nlocktime" PROVE e.nlock = t.nlock
        OBVIOUS
      <4>1. x.action = "set_nlocktime"
        BY <1>1 DEF Part
      <4> QED BY <1>4, <1>5, <3>4, <4>1 DEF Applied
    <3>8. Same(p, t, e)
      BY <3>5, <3>6, <3>7 DEF Same
    <3>9. Seen(y, ses') = e
      BY <1>2, <1>7, <3>3 DEF Seen
    <3> QED BY <3>8, <3>9
  <2> QED BY <2>1, <2>2
<1>15. insync' => insync
  BY <1>2
<1>16. y.state # "swap"
  BY <1>4
<1> QED BY <1>1, <1>2, <1>7, <1>9, <1>10, <1>11, <1>12, <1>13, <1>14, <1>15, <1>16, PartStep

\* What a call that returns leaves of the handler
Leaves(x, y) ==
    /\ y.state \in {"resolve_code", "reload", "done"} /\ y.reply = "" /\ y.op = x.op
    /\ y.state = "reload" => x.action = "disable_2fa" /\ y.action = x.action
    /\ y.action = x.action \/ y.action \in {"enable_", "activate_email"}
    /\ ~Acting(y)
\* Completed leaves just that
LEMMA CompletedFields ==
    ASSUME NEW x \in Handler, NEW y, y = Completed(x)
    PROVE  Leaves(x, y)
<1>1. CASE x.action \in {"set_email", "enable_2fa"}
  <2>1. y = OnInitDone(x)
    BY <1>1 DEF Completed
  <2>2. /\ y.state = "resolve_code" /\ y.reply = "" /\ y.op = x.op
        /\ y.action = IF x.action = "set_email" THEN "activate_email" ELSE "enable_"
    BY <2>1 DEF OnInitDone, Handler
  <2> QED BY <2>2 DEF Leaves, Acting
<1>2. CASE x.action = "request_reset" /\ ~x.confirming
  <2>1. y = [x EXCEPT !.state = "resolve_code", !.confirming = TRUE, !.methods = {"email"},
                     !.method = "email", !.attempts = TWO_FACTOR_ATTEMPTS, !.reply = ""]
    BY <1>2 DEF Completed
  <2>2. y.state = "resolve_code" /\ y.reply = "" /\ y.op = x.op /\ y.action = x.action
    BY <2>1 DEF Handler
  <2> QED BY <2>2 DEF Leaves, Acting
<1>3. CASE x.action \notin {"set_email", "enable_2fa"} /\ ~(x.action = "request_reset" /\ ~x.confirming)
  <2>1. y = [x EXCEPT !.state = IF x.action = "disable_2fa" /\ x.op.m = "gauth"
                                THEN "reload" ELSE "done", !.reply = "",
                      !.attempts = TWO_FACTOR_ATTEMPTS]
    BY <1>3 DEF Completed
  <2>2. /\ y.reply = "" /\ y.op = x.op /\ y.action = x.action
        /\ y.state = IF x.action = "disable_2fa" /\ x.op.m = "gauth" THEN "reload" ELSE "done"
    BY <2>1 DEF Handler
  <2> QED BY <2>2 DEF Leaves, Acting
<1> QED BY <1>1, <1>2, <1>3

\* The reply is applied to the part it is about
LEMMA ReplyOkShared ==
    ASSUME IInv, IInv', SharedInv, NEW h \in Handlers, ReplyOk(h)
    PROVE  SharedInv'
<1>1. PICK x, y, p, a, e : x = hs[h] /\ y = Completed(x) /\ p = Part(x) /\ a = ses /\ e = ses'
  OBVIOUS
<1>2. /\ x \in Handler /\ Set(h, y) /\ UNCHANGED <<srv, insync>> /\ ses' = Cached(x)
      /\ x.state = "calling" /\ x.reply = "ok" /\ a \in Session
  BY <1>1 DEF ReplyOk, IInv
<1>3. Leaves(x, y)
  BY <1>1, <1>2, CompletedFields
<1>4. Applied(e, a, x)
  <2>1. e = CachedIn(a, x)
    BY <1>1, <1>2, CachedIs
  <2> QED BY <1>2, <2>1, CachedFields
<1>5. Acting(x) /\ InFlight(x) /\ p \in Parts \cup {"none"}
  BY <1>1, <1>2, PartType DEF Acting, InFlight
<1>6. InFlight(y) => Part(y) = p
  <2>1. InFlight(y) => y.state = "reload"
    BY <1>3 DEF InFlight, Leaves
  <2>2. y.action = x.action => Part(y) = p
    BY <1>1 DEF Part
  <2> QED BY <1>3, <2>1, <2>2 DEF Leaves
<1>7. Sure(x, srv) /\ ("email" \in srv.enabled \cup ses.enabled => srv.confirmed)
  BY <1>1 DEF SharedInv
<1>8. Sure(y, srv)
  <2>1. y.action = "disable_2fa" => x.action = "disable_2fa"
    BY <1>3 DEF Leaves
  <2>2. x.action = "disable_2fa" /\ x.op.m = "email" => srv.confirmed
    BY <1>2, <1>7 DEF Sure
  <2> QED BY <1>3, <2>1, <2>2 DEF Sure, Heard, Leaves
<1>9. "email" \in srv.enabled \cup ses'.enabled => srv.confirmed
  <2>1. "email" \in e.enabled => "email" \in a.enabled \/ (x.action = "enable_" /\ x.op.m = "email")
    BY <1>4 DEF Applied
  <2>2. x.action = "enable_" /\ x.op.m = "email" => srv.confirmed
    BY <1>5, <1>7 DEF Sure
  <2> QED BY <1>1, <1>7, <2>1, <2>2
<1>10. ASSUME NEW q \in Parts \ {p} PROVE Same(q, srv', srv) /\ Same(q, ses', ses)
  <2>1. q = "config" => x.action \notin {"enable_", "activate_email", "disable_2fa"}
    BY <1>1, <1>10 DEF Part
  <2>2. q = "limits" => x.action \notin {"change_tx_limits", "send_raw_tx"}
    BY <1>1, <1>10 DEF Part
  <2>3. q = "nlocktime" => x.action # "set_nlocktime"
    BY <1>1, <1>10 DEF Part
  <2>4. q = "config" => e.confirmed = a.confirmed
    <3>1. q = "config" => (e.confirmed <=> a.confirmed)
      BY <1>4, <2>1 DEF Applied
    <3>2. e.confirmed \in BOOLEAN /\ a.confirmed \in BOOLEAN
      BY <1>2, <1>4 DEF Applied, Session
    <3> QED BY <3>1, <3>2
  <2>5. Same(q, e, a)
    BY <1>4, <2>1, <2>2, <2>3, <2>4 DEF Same, Applied
  <2> QED BY <1>1, <1>2, <2>5 DEF Same
<1>11. insync' => \A g \in Handlers \ {h} : InFlight(hs[g]) => Part(hs[g]) # p \/ p = "none"
  BY <1>1, <1>2, <1>5 DEF SharedInv, Apart
<1>12. insync' => Same(p, srv', Seen(y, ses'))
  <2>1. insync => Same(p, srv, Seen(x, ses))
    BY <1>1, <1>5 DEF SharedInv, Agree
  <2>2. Seen(x, ses) = ses'
    BY <1>2, <1>5, CachedIs DEF Seen
  <2>3. Seen(y, ses') = ses'
    BY <1>3 DEF Seen, Leaves
  <2> QED BY <1>2, <2>1, <2>2, <2>3
<1>13. y.state # "swap" /\ (insync' => insync)
  BY <1>2, <1>3 DEF Leaves
<1>14. InFlight(hs[h]) => Part(hs[h]) = p
  BY <1>1
<1>15. srv' = srv /\ Set(h, y)
  BY <1>2
<1> QED BY <1>5, <1>6, <1>8, <1>9, <1>10, <1>11, <1>12, <1>13, <1>14, <1>15, PartStep

\* The reload after gauth was disabled replaces the config by the server's
LEMMA ReloadShared ==
    ASSUME IInv, IInv', SharedInv, NEW h \in Handlers, ReadConfig(h) \/ SwapConfig(h) \/ ReloadFails(h)
    PROVE  SharedInv'
<1>1. PICK x, p : x = hs[h] /\ p = "config"
  OBVIOUS
<1>2. x \in Handler /\ x.state \in {"reload", "swap"} /\ UNCHANGED <<srv, insync>>
  BY <1>1 DEF ReadConfig, SwapConfig, ReloadFails, IInv
<1>3. Sure(x, srv) /\ ("email" \in srv.enabled \cup ses.enabled => srv.confirmed)
  BY <1>1 DEF SharedInv
<1>4. x.action = "disable_2fa" /\ Part(x) = p /\ InFlight(x) /\ ~Acting(x) /\ x.reply = ""
  BY <1>1, <1>2, <1>3 DEF Sure, Part, InFlight, Acting, Heard
<1>5. insync' => \A g \in Handlers \ {h} : InFlight(hs[g]) => Part(hs[g]) # p \/ p = "none"
  BY <1>1, <1>2, <1>4 DEF SharedInv, Apart
<1>6. insync => Same(p, srv, ses) /\ (x.state = "swap" => x.snap = ConfigOf(srv))
  <2>1. insync => Same(p, srv, Seen(x, ses)) /\ (x.state = "swap" => x.snap = ConfigOf(srv))
    BY <1>1, <1>4 DEF SharedInv, Agree
  <2> QED BY <1>4, <2>1 DEF Seen
<1>7. p \in Parts \cup {"none"} /\ (InFlight(hs[h]) => Part(hs[h]) = p) /\ (insync' => insync)
  BY <1>1, <1>2, <1>4 DEF Parts
<1>8. CASE ReadConfig(h)
  <2>1. PICK c, y : c = [enabled |-> srv.enabled, confirmed |-> srv.confirmed]
                    /\ y = [x EXCEPT !.state = "swap", !.snap = c]
    OBVIOUS
  <2>2. Set(h, y) /\ UNCHANGED ses
    BY <1>1, <1>8, <2>1 DEF ReadConfig
  <2>3. y.state = "swap" /\ y.snap = c /\ y.op = x.op /\ y.action = x.action /\ y.reply = x.reply
    BY <1>2, <2>1 DEF Handler
  <2>4. c = ConfigOf(srv) /\ c.enabled = srv.enabled
    BY <2>1 DEF ConfigOf
  <2>5. Part(y) = p /\ ~Acting(y)
    BY <1>1, <1>4, <2>3 DEF Part, Acting
  <2>6. x.action = "disable_2fa" /\ x.op.m = "email" => srv.confirmed
    BY <1>2, <1>3 DEF Sure
  <2>7. Sure(y, srv)
    BY <1>3, <1>4, <2>3, <2>4, <2>5, <2>6 DEF Sure, Heard
  <2>8. Seen(y, ses') = ses' /\ y.snap = ConfigOf(srv')
    BY <1>2, <2>3, <2>4, <2>5 DEF Seen, ConfigOf
  <2>9. \A q \in Parts \ {p} : Same(q, srv', srv) /\ Same(q, ses', ses)
    BY <1>2, <2>2 DEF Same
  <2> QED BY <1>2, <1>3, <1>5, <1>6, <1>7, <2>2, <2>5, <2>7, <2>8, <2>9, PartStep
<1>9. CASE SwapConfig(h)
  <2>1. PICK y, c, e, a : /\ y = [x EXCEPT !.state = "done"]
                          /\ c = x.snap /\ a = ses /\ e = [a EXCEPT !.enabled = c.enabled, !.confirmed = c.confirmed]
    OBVIOUS
  <2>2. Set(h, y) /\ x.state = "swap" /\ ses' = e /\ a \in Session
    BY <1>1, <1>9, <2>1 DEF SwapConfig, IInv
  <2>3. y.state = "done" /\ y.op = x.op /\ y.action = x.action /\ y.reply = x.reply
    BY <1>2, <2>1 DEF Handler
  <2>4. /\ e.enabled = c.enabled /\ e.confirmed = c.confirmed /\ e.limit = a.limit /\ e.nlock = a.nlock
    BY <2>1, <2>2 DEF Session
  <2>5. ~InFlight(y) /\ ~Acting(y)
    BY <2>3 DEF InFlight, Acting
  <2>6. x.action = "disable_2fa" /\ x.op.m = "email" => srv.confirmed
    BY <1>2, <1>3 DEF Sure
  <2>7. Sure(y, srv)
    BY <1>4, <2>3, <2>5, <2>6 DEF Sure, Heard
  <2>8. "email" \in srv.enabled \cup ses'.enabled => srv.confirmed
    BY <1>3, <2>1, <2>2, <2>4 DEF Sure
  <2>9. \A q \in Parts \ {p} : Same(q, srv', srv) /\ Same(q, ses', ses)
    BY <1>1, <1>2, <2>1, <2>2, <2>4 DEF Same
  <2>10. insync' => Same(p, srv', Seen(y, ses'))
    <3>1. ASSUME insync PROVE e.enabled = srv.enabled /\ e.confirmed = srv.confirmed
      <4>1. PICK u, v : u = srv.enabled /\ v = srv.confirmed
        OBVIOUS
      <4>2. c = [enabled |-> u, confirmed |-> v]
        BY <1>6, <2>1, <2>2, <3>1, <4>1 DEF ConfigOf
      <4>3. c.enabled = u /\ c.confirmed = v
        BY <4>2
      <4> QED BY <2>4, <4>1, <4>3
    <3>2. Seen(y, ses') = e
      BY <2>2, <2>5 DEF Seen
    <3> QED BY <1>1, <1>2, <3>1, <3>2 DEF Same
  <2>11. y.state # "swap"
    BY <2>3
  <2> QED BY <1>2, <1>5, <1>7, <2>2, <2>5, <2>7, <2>8, <2>9, <2>10, <2>11, PartStep
<1>10. CASE ReloadFails(h)
  <2>1. PICK y : y = set_error(x)
    OBVIOUS
  <2>2. Set(h, y) /\ UNCHANGED ses
    BY <1>1, <1>10, <2>1 DEF ReloadFails
  <2>3. y.state = "error" /\ y.reply = ""
    BY <1>2, <2>1 DEF Handler, set_error
  <2>4. ~InFlight(y) /\ ~Acting(y) /\ Sure(y, srv)
    BY <2>3 DEF InFlight, Acting, Sure, Heard
  <2>5. Seen(y, ses') = ses'
    BY <2>4 DEF Seen
  <2>6. \A q \in Parts \ {p} : Same(q, srv', srv) /\ Same(q, ses', ses)
    BY <1>2, <2>2 DEF Same
  <2>7. y.state # "swap"
    BY <2>3
  <2> QED BY <1>2, <1>3, <1>5, <1>6, <1>7, <2>2, <2>4, <2>5, <2>6, <2>7, PartStep
<1> QED BY <1>8, <1>9, <1>10

\* A step that neither changes the parts nor begins or ends a call on them
LEMMA QuietShared ==
    ASSUME IInv, IInv', SharedInv, NEW h \in Handlers, NEW y, Set(h, y), insync' => insync,
           ~InFlight(hs[h]), y.state \notin {"reload", "swap"}, ~Acting(y), Heard(y),
           srv'.enabled = srv.enabled /\ srv'.confirmed = srv.confirmed,
           srv'.limit = srv.limit /\ srv'.nlock = srv.nlock,
           ses'.enabled = ses.enabled /\ ses'.confirmed = ses.confirmed,
           ses'.limit = ses.limit /\ ses'.nlock = ses.nlock,
           \/ y.state \in {"none", "error"} \/ y.action # "disable_2fa" \/ y.op.m # "email" \/ srv.confirmed
           \/ hs[h].state \notin {"none", "error"} /\ y.action = hs[h].action /\ y.op = hs[h].op
    PROVE  SharedInv'
<1>1. PICK p : p = "none"
  OBVIOUS
<1>2. ~InFlight(y) /\ y.state # "swap"
  BY DEF InFlight, Acting
<1>3. Sure(hs[h], srv) /\ ("email" \in srv.enabled \cup ses.enabled => srv.confirmed)
  BY DEF SharedInv
<1>4. Sure(y, srv')
  BY <1>3 DEF Sure
<1>5. \A q \in Parts \ {p} : Same(q, srv', srv) /\ Same(q, ses', ses)
  BY DEF Same
<1>6. Same(p, srv', Seen(y, ses'))
  BY <1>1 DEF Same
<1>7. p \in Parts \cup {"none"}
  BY <1>1
<1> QED BY <1>1, <1>2, <1>3, <1>4, <1>5, <1>6, <1>7, PartStep

\* The constructors: a method is disabled that the session knows, so the
\* email address is confirmed if it is that one; and destruction
LEMMA MakeShared ==
    ASSUME IInv, IInv', SharedInv, NEW h \in Handlers,
           (\E op \in Ops : Create(h, op)) \/ Destroy(h)
    PROVE  SharedInv'
<1>1. CASE Destroy(h)
  <2>1. PICK y : y = NoHandler
    OBVIOUS
  <2>2. Set(h, y) /\ UNCHANGED <<srv, ses, insync>> /\ y.state = "none" /\ y.reply = "" /\ ~InFlight(hs[h])
    BY <1>1, <2>1 DEF Destroy, NoHandler, InFlight
  <2>3. y.state \notin {"reload", "swap"} /\ ~Acting(y) /\ Heard(y)
    BY <2>2 DEF Acting, Heard
  <2> QED BY <2>2, <2>3, QuietShared
<1>2. ASSUME NEW op \in Ops, Create(h, op) PROVE SharedInv'
  <2> DEFINE st == IF AlreadySo(op) \/ BadSeed(op) THEN "error"
                   ELSE IF \/ ses.enabled = {} \/ op.type = "reset"
                           \/ UnderLimit(op) \/ IsDecrease(op)
                           \/ op.type = "settings" /\ ~ChangesNlock(op)
                        THEN "make_call" ELSE "request_code"
  <2>1. PICK y : y = [NoHandler EXCEPT
         !.op = op, !.methods = ses.enabled, !.action = ActionOf(Kind(op)),
         !.under = UnderLimit(op), !.nlock = ChangesNlock(op), !.state = st]
    OBVIOUS
  <2>2. Set(h, y) /\ UNCHANGED <<srv, ses, insync>> /\ hs[h].state = "none"
    BY <1>2, <2>1 DEF Create
  <2>3. y.op = op /\ y.action = ActionOf(Kind(op)) /\ y.state = st /\ y.reply = ""
    BY <2>1 DEF NoHandler
  <2>4. st \in {"error", "make_call", "request_code"} /\ (st # "error" => ~AlreadySo(op))
    OBVIOUS
  <2> HIDE DEF st
  <2>5. ~InFlight(hs[h]) /\ y.state \notin {"reload", "swap"} /\ ~Acting(y) /\ Heard(y)
    BY <2>2, <2>3, <2>4 DEF InFlight, Acting, Heard
  <2>6. y.state = "error" \/ y.action # "disable_2fa" \/ y.op.m # "email" \/ srv.confirmed
    <3> SUFFICES ASSUME y.state # "error", y.action = "disable_2fa", op.m = "email" PROVE srv.confirmed
      BY <2>3
    <3>1. Kind(op) \in Types
      BY OpsAssumption, ActionTypes
    <3>2. PICK k \in Types : k = Kind(op) /\ ActionOf(k) = "disable_2fa"
      BY <2>3, <3>1
    <3>3. Kind(op) = "disable"
      BY <3>2, ActionNames
    <3>4. "email" \in ses.enabled
      BY <2>3, <2>4, <3>3 DEF AlreadySo
    <3> QED BY <3>4 DEF SharedInv
  <2> QED BY <2>2, <2>5, <2>6, QuietShared
<1> QED BY <1>1, <1>2

\* The dialogue for a code changes no part
LEMMA DialogueShared ==
    ASSUME IInv, IInv', SharedInv, NEW h \in Handlers,
           \/ \E m \in Methods : RequestCode(h, m) \/ RequestCodeFails(h, m)
           \/ \E right \in BOOLEAN : ResolveCode(h, right)
           \/ EnableGauthInit(h)
    PROVE  SharedInv'
<1>1. PICK x : x = hs[h] /\ x \in Handler
  BY DEF IInv
<1>2. x.state \in {"request_code", "resolve_code", "make_call"} /\ UNCHANGED <<ses, insync>>
  BY <1>1 DEF RequestCode, RequestCodeFails, ResolveCode, EnableGauthInit
<1>3. ~InFlight(hs[h]) /\ x.reply = ""
  BY <1>1, <1>2 DEF InFlight, SharedInv, Sure, Heard
<1>4. CASE EnableGauthInit(h)
  <2>1. PICK y : y = OnInitDone(x)
    OBVIOUS
  <2>2. Set(h, y) /\ UNCHANGED <<srv, ses, insync>>
    BY <1>1, <1>4, <2>1 DEF EnableGauthInit
  <2>3. y.state = "resolve_code" /\ y.action \in {"activate_email", "enable_"} /\ y.reply = ""
    BY <1>1, <2>1 DEF OnInitDone, Handler
  <2>4. y.state \notin {"reload", "swap"} /\ ~Acting(y) /\ Heard(y) /\ y.action # "disable_2fa"
    BY <2>3 DEF Acting, Heard
  <2> QED BY <1>3, <2>2, <2>4, QuietShared
<1>5. ASSUME NEW m \in Methods, RequestCode(h, m) \/ RequestCodeFails(h, m) PROVE SharedInv'
  <2>1. PICK st, i, u, v, s : /\ s = srv /\ s \in Server /\ i = Issue(x.action)
                              /\ st = IF x.op.type = "send" THEN "error" ELSE x.state
                              /\ u = [x EXCEPT !.state = "resolve_code", !.method = m,
                                        !.attempts = TWO_FACTOR_ATTEMPTS, !.under = FALSE]
                              /\ v = [x EXCEPT !.under = FALSE, !.state = st]
    BY DEF IInv
  <2>2. PICK y : y \in {u, v} /\ Set(h, y)
    BY <1>1, <1>5, <2>1 DEF RequestCode, RequestCodeFails
  <2>3. /\ u.state = "resolve_code" /\ u.action = x.action /\ u.op = x.op /\ u.reply = x.reply
        /\ v.state = st /\ v.action = x.action /\ v.op = x.op /\ v.reply = x.reply
    BY <1>1, <2>1 DEF Handler
  <2>4. y.state \in {"resolve_code", "error", "request_code", "make_call"}
    BY <1>2, <2>1, <2>2, <2>3
  <2>5. /\ y.state \notin {"reload", "swap"} /\ ~Acting(y) /\ Heard(y)
        /\ y.action = x.action /\ y.op = x.op /\ x.state \notin {"none", "error"}
    BY <1>2, <1>3, <2>2, <2>3, <2>4 DEF Acting, Heard
  <2>6. srv' = s \/ srv' = [s EXCEPT !.codes[m] = i]
    BY <1>1, <1>5, <2>1 DEF RequestCode, RequestCodeFails
  <2>7. /\ srv'.enabled = s.enabled /\ srv'.confirmed = s.confirmed
        /\ srv'.limit = s.limit /\ srv'.nlock = s.nlock
    <3>1. CASE srv' = s
      BY <3>1
    <3>2. CASE srv' = [s EXCEPT !.codes[m] = i]
      BY <2>1, <3>2, IssueFields
    <3> QED BY <2>6, <3>1, <3>2
  <2> QED BY <1>1, <1>2, <1>3, <2>1, <2>2, <2>5, <2>7, QuietShared
<1>6. ASSUME NEW right \in BOOLEAN, ResolveCode(h, right) PROVE SharedInv'
  <2>1. PICK y : y = [x EXCEPT !.state = "make_call",
                        !.code = IF right THEN [method |-> x.method, act |-> x.action] ELSE BadCode]
    OBVIOUS
  <2>2. Set(h, y) /\ UNCHANGED <<srv, ses, insync>>
    BY <1>1, <1>6, <2>1 DEF ResolveCode
  <2>3. y.state = "make_call" /\ y.action = x.action /\ y.op = x.op /\ y.reply = x.reply
    BY <1>1, <2>1 DEF Handler
  <2>4. /\ y.state \notin {"reload", "swap"} /\ ~Acting(y) /\ Heard(y)
        /\ x.state \notin {"none", "error"}
    BY <1>2, <1>3, <2>3 DEF Acting, Heard
  <2> QED BY <1>1, <1>3, <2>2, <2>3, <2>4, QuietShared
<1> QED BY <1>4, <1>5, <1>6

\* Neither does a call that is not accepted, or fails; a lost reply ends the synchronisation
LEMMA UnacceptedShared ==
    ASSUME IInv, IInv', SharedInv, NEW h \in Handlers,
           CallRejected(h) \/ CallDeclined(h) \/ ReplyDeclined(h) \/ ReplyRefused(h)
           \/ (insync' /\ CallFails(h)) \/ PushFails(h)
    PROVE  SharedInv'
<1>1. PICK x, s : x = hs[h] /\ x \in Handler /\ s = srv /\ s \in Server
  BY DEF IInv
<1>2. /\ x.state \in {"make_call", "pushed", "pushing", "calling"} /\ x.reply # "ok" /\ UNCHANGED ses
      /\ insync' => insync
  <2>1. x.reply # "" => x.state = "calling"
    BY <1>1 DEF SharedInv, Sure, Heard
  <2> QED BY <1>1, <2>1 DEF CallRejected, CallDeclined, ReplyDeclined, ReplyRefused, CallFails, PushFails,
       Ready, IInv
<1>3. ~InFlight(hs[h]) /\ x.state \notin {"none", "error"}
  BY <1>1, <1>2 DEF InFlight
<1>4. CASE CallRejected(h)
  <2>1. PICK y, reply : /\ Set(h, y) /\ y = [x EXCEPT !.state = "calling", !.reply = reply]
                        /\ reply \in {"invalid_code", "refused"}
    BY <1>1, <1>4 DEF CallRejected
  <2>2. y.state = "calling" /\ y.reply = reply /\ y.action = x.action /\ y.op = x.op
    BY <1>1, <2>1 DEF Handler
  <2>3. y.state \notin {"reload", "swap"} /\ ~Acting(y) /\ Heard(y)
    BY <2>1, <2>2 DEF Acting, Heard
  <2>4. srv' = [s EXCEPT !.codes = Miss(s.codes, x.method)]
    BY <1>1, <1>4 DEF CallRejected
  <2>5. /\ srv'.enabled = s.enabled /\ srv'.confirmed = s.confirmed
        /\ srv'.limit = s.limit /\ srv'.nlock = s.nlock
    BY <1>1, <2>4 DEF Server
  <2> QED BY <1>1, <1>2, <1>3, <2>1, <2>2, <2>3, <2>5, QuietShared
<1>5. CASE CallDeclined(h)
  <2>1. PICK y : y = [x EXCEPT !.state = "calling", !.reply = "declined", !.declined = TRUE]
    OBVIOUS
  <2>2. Set(h, y) /\ UNCHANGED srv
    BY <1>1, <1>5, <2>1 DEF CallDeclined
  <2>3. y.state = "calling" /\ y.reply = "declined" /\ y.action = x.action /\ y.op = x.op
    BY <1>1, <2>1 DEF Handler
  <2>4. y.state \notin {"reload", "swap"} /\ ~Acting(y) /\ Heard(y)
    BY <2>3 DEF Acting, Heard
  <2> QED BY <1>1, <1>2, <1>3, <2>2, <2>3, <2>4, QuietShared
<1>6. CASE ReplyDeclined(h) /\ x.action = "remove_account"
  <2>1. PICK y : y = Completed(x)
    OBVIOUS
  <2>2. Set(h, y) /\ UNCHANGED srv
    BY <1>1, <1>6, <2>1 DEF ReplyDeclined
  <2>3. y = [x EXCEPT !.state = "done", !.reply = "", !.attempts = TWO_FACTOR_ATTEMPTS]
    BY <1>6, <2>1 DEF Completed
  <2>4. y.state = "done" /\ y.reply = "" /\ y.action = x.action /\ y.op = x.op
    BY <1>1, <2>3 DEF Handler
  <2>5. y.state \notin {"reload", "swap"} /\ ~Acting(y) /\ Heard(y)
    BY <2>4 DEF Acting, Heard
  <2> QED BY <1>1, <1>2, <1>3, <2>2, <2>4, <2>5, QuietShared
<1>7. CASE \/ ReplyDeclined(h) /\ x.action # "remove_account"
           \/ ReplyRefused(h) \/ CallFails(h) \/ PushFails(h)
  <2>1. PICK y : y = set_error(x)
    OBVIOUS
  <2>2. Set(h, y) /\ UNCHANGED srv
    BY <1>1, <1>7, <2>1 DEF ReplyDeclined, ReplyRefused, CallFails, PushFails
  <2>3. y.state = "error" /\ y.reply = ""
    BY <1>1, <2>1 DEF Handler, set_error
  <2>4. y.state \notin {"reload", "swap"} /\ ~Acting(y) /\ Heard(y)
    BY <2>3 DEF Acting, Heard
  <2> QED BY <1>1, <1>2, <1>3, <2>2, <2>3, <2>4, QuietShared
<1> QED BY <1>4, <1>5, <1>6, <1>7

\* Nor does asking for a mistyped code again
LEMMA InvalidCodeShared ==
    ASSUME IInv, IInv', SharedInv, NEW h \in Handlers, ReplyInvalidCode(h)
    PROVE  SharedInv'
<1>1. PICK x, z1, z2, z3 :
        /\ x = hs[h] /\ x \in Handler
        /\ z1 = [x EXCEPT !.state = "request_code", !.action = "enable_2fa", !.reply = "",
                          !.methods = ses.enabled, !.attempts = TWO_FACTOR_ATTEMPTS]
        /\ z2 = [x EXCEPT !.state = "resolve_code", !.reply = ""]
        /\ z3 = [x EXCEPT !.attempts = @ - 1, !.reply = "",
                          !.state = IF OutOfAttempts(x) THEN "error" ELSE "resolve_code"]
  BY DEF IInv
<1>2. x.state = "calling" /\ x.reply = "invalid_code" /\ UNCHANGED <<srv, ses, insync>>
  BY <1>1 DEF ReplyInvalidCode
<1>3. ~InFlight(hs[h]) /\ hs[h].state \notin {"none", "error"}
  BY <1>1, <1>2 DEF InFlight
<1>4. PICK y : Set(h, y) /\ y \in {z1, z2, z3}
  BY <1>1 DEF ReplyInvalidCode
<1>5. z1.state = "request_code" /\ z1.action = "enable_2fa" /\ z1.reply = ""
  BY <1>1 DEF Handler
<1>6. z2.state = "resolve_code" /\ z2.action = x.action /\ z2.op = x.op /\ z2.reply = ""
  BY <1>1 DEF Handler
<1>7. z3.state \in {"error", "resolve_code"} /\ z3.action = x.action /\ z3.op = x.op /\ z3.reply = ""
  BY <1>1 DEF Handler
<1>8. y.state \in {"request_code", "resolve_code", "error"} /\ y.reply = ""
  BY <1>4, <1>5, <1>6, <1>7
<1>9. y.action # "disable_2fa" \/ (y.action = hs[h].action /\ y.op = hs[h].op)
  <2>1. CASE y = z1
    BY <1>5, <2>1
  <2>2. CASE y = z2
    BY <1>1, <1>6, <2>2
  <2>3. CASE y = z3
    BY <1>1, <1>7, <2>3
  <2> QED BY <1>4, <2>1, <2>2, <2>3
<1>10. y.state \notin {"reload", "swap"} /\ ~Acting(y) /\ Heard(y)
  BY <1>8 DEF Acting, Heard
<1> QED BY <1>2, <1>3, <1>4, <1>9, <1>10, QuietShared

\* The appearance is no part of what the claim is about
LEMMA SettingsShared ==
    ASSUME IInv, IInv', SharedInv, NEW h \in Handlers,
           ChangeSettings(h) \/ PushAppearance(h) \/ SettingsDone(h)
    PROVE  SharedInv'
<1>1. PICK x, s, a : x = hs[h] /\ x \in Handler /\ s = srv /\ s \in Server /\ a = ses /\ a \in Session
  BY DEF IInv
<1>2. x.state \in {"make_call", "pushing", "pushed"} /\ UNCHANGED insync
  BY <1>1 DEF ChangeSettings, PushAppearance, SettingsDone
<1>3. ~InFlight(hs[h]) /\ hs[h].state \notin {"none", "error"} /\ x.reply = ""
  BY <1>1, <1>2 DEF InFlight, SharedInv, Sure, Heard
<1>4. PICK y, st, n : /\ Set(h, y) /\ st \in {"pushing", "pushed", "done"}
                      /\ y = [x EXCEPT !.state = st, !.attempts = n] \/ y = [x EXCEPT !.state = st]
  BY <1>1 DEF ChangeSettings, PushAppearance, SettingsDone
<1>5. y.state = st /\ y.action = x.action /\ y.op = x.op /\ y.reply = x.reply
  BY <1>1, <1>4 DEF Handler
<1>6. y.state \notin {"reload", "swap"} /\ ~Acting(y) /\ Heard(y)
  BY <1>3, <1>4, <1>5 DEF Acting, Heard
<1>7. srv' = s \/ srv' = [s EXCEPT !.look = x.op.look]
  BY <1>1 DEF ChangeSettings, PushAppearance, SettingsDone
<1>8. ses' = a \/ ses' = [a EXCEPT !.look = x.op.look]
  BY <1>1 DEF ChangeSettings, PushAppearance, SettingsDone
<1>9. /\ srv'.enabled = s.enabled /\ srv'.confirmed = s.confirmed
      /\ srv'.limit = s.limit /\ srv'.nlock = s.nlock
  BY <1>1, <1>7 DEF Server
<1>10. /\ ses'.enabled = a.enabled /\ ses'.confirmed = a.confirmed
       /\ ses'.limit = a.limit /\ ses'.nlock = a.nlock
  BY <1>1, <1>8 DEF Session
<1> QED BY <1>1, <1>2, <1>3, <1>4, <1>5, <1>6, <1>9, <1>10, QuietShared

\* Without the synchronisation only the confirmed address is left to keep
LEMMA LostShared ==
    ASSUME IInv, SharedInv, insync' = FALSE,
           OtherApp \/ \E h \in Handlers : CallFails(h)
    PROVE  SharedInv'
<1>1. srv'.enabled = srv.enabled /\ srv'.confirmed = srv.confirmed /\ ses' = ses
  BY DEF OtherApp, CallFails, IInv, Server
<1>2. \A h \in Handlers : Sure(hs'[h], srv')
  <2>1. CASE OtherApp
    BY <1>1, <2>1 DEF OtherApp, SharedInv, Sure
  <2>2. ASSUME NEW h \in Handlers, CallFails(h) PROVE \A k \in Handlers : Sure(hs'[k], srv')
    <3>1. PICK x, y : x = hs[h] /\ x \in Handler /\ y = set_error(x)
      BY DEF IInv
    <3>2. \A k \in Handlers : hs'[k] = IF k = h THEN y ELSE hs[k]
      BY <2>2, <3>1 DEF CallFails, Set, IInv
    <3>3. y.state = "error" /\ y.reply = ""
      BY <3>1 DEF Handler, set_error
    <3>4. Sure(y, srv')
      BY <3>3 DEF Sure, Heard, Acting
    <3>5. \A k \in Handlers : Sure(hs[k], srv')
      BY <1>1 DEF SharedInv, Sure
    <3> QED BY <3>2, <3>4, <3>5
  <2> QED BY <2>1, <2>2
<1> QED BY <1>1, <1>2 DEF SharedInv

\* The invariant holds after login
LEMMA SharedInit == Init => SharedInv
<1> SUFFICES ASSUME Init PROVE SharedInv
  OBVIOUS
<1>1. \A h \in Handlers : hs[h] = NoHandler
  BY DEF Init
<1>2. ~InFlight(NoHandler) /\ Sure(NoHandler, srv)
  BY DEF InFlight, Sure, Heard, Acting, NoHandler
<1>3. /\ ses.enabled = srv.enabled /\ ses.confirmed = srv.confirmed
      /\ ses.limit = srv.limit /\ ses.nlock = srv.nlock
      /\ "email" \in srv.enabled => srv.confirmed
  BY DEF Init
<1>4. Apart
  BY <1>1, <1>2 DEF Apart
<1>5. Agree
  BY <1>1, <1>2, <1>3 DEF Agree, Same
<1> QED BY <1>1, <1>2, <1>3, <1>4, <1>5 DEF SharedInv

\* Every step keeps it
LEMMA SharedNext == IInv /\ IInv' /\ SharedInv /\ [Next]_vars => SharedInv'
<1> SUFFICES ASSUME IInv, IInv', SharedInv, [Next]_vars PROVE SharedInv'
  OBVIOUS
<1>1. CASE UNCHANGED vars
  BY <1>1 DEF vars, core, SharedInv, Apart, Agree
<1>2. CASE OtherApp
  BY <1>2, LostShared DEF OtherApp
<1>3. ASSUME NEW h \in Handlers,
             \/ \E op \in Ops : Create(h, op)
             \/ Destroy(h)
             \/ \E m \in Methods : RequestCode(h, m) \/ RequestCodeFails(h, m)
             \/ \E right \in BOOLEAN : ResolveCode(h, right)
             \/ Answer(h) \/ Fail(h)
      PROVE  SharedInv'
  <2>1. CASE (\E op \in Ops : Create(h, op)) \/ Destroy(h)
    BY <2>1, MakeShared
  <2>2. CASE \/ \E m \in Methods : RequestCode(h, m) \/ RequestCodeFails(h, m)
             \/ \E right \in BOOLEAN : ResolveCode(h, right)
             \/ EnableGauthInit(h)
    BY <2>2, DialogueShared
  <2>3. CASE CallAccepted(h)
    BY <2>3, CallAcceptedShared
  <2>4. CASE ReplyOk(h)
    BY <2>4, ReplyOkShared
  <2>5. CASE ReadConfig(h) \/ SwapConfig(h) \/ ReloadFails(h)
    BY <2>5, ReloadShared
  <2>6. CASE CallRejected(h) \/ CallDeclined(h) \/ ReplyDeclined(h) \/ ReplyRefused(h) \/ PushFails(h)
    BY <2>6, UnacceptedShared
  <2>7. CASE CallFails(h)
    <3>1. CASE insync'
      BY <2>7, <3>1, UnacceptedShared
    <3>2. CASE ~insync'
      <4>1. insync' = FALSE
        BY <3>2 DEF IInv
      <4> QED BY <2>7, <4>1, LostShared
    <3> QED BY <3>1, <3>2
  <2>8. CASE ReplyInvalidCode(h)
    BY <2>8, InvalidCodeShared
  <2>9. CASE ChangeSettings(h) \/ PushAppearance(h) \/ SettingsDone(h)
    BY <2>9, SettingsShared
  <2> QED BY <1>3, <2>1, <2>2, <2>3, <2>4, <2>5, <2>6, <2>7, <2>8, <2>9 DEF Answer, Fail
<1> QED BY <1>1, <1>2, <1>3 DEF Next

\* What the invariant says about the session's copy
LEMMA SharedImplies == SharedInv => ConfigCurrent
<1> SUFFICES ASSUME SharedInv, insync,
                    NEW p \in Parts, \A h \in Handlers : InFlight(hs[h]) => Part(hs[h]) # p
             PROVE  Same(p, srv, ses)
  BY DEF ConfigCurrent, Same, Parts
<1> QED BY DEF SharedInv, Agree

\* However many handlers an application works on at once: the session's two factor
\* methods, limits and nlocktime (set_twofactor_config, update_spending_limits,
\* set_nlocktime_locked) are the server's, each whenever no call that changes it is under
\* way, until a reply is lost, another app makes a change, or two calls on the same one
\* are under way together.
THEOREM ConfigStaysCurrent == Spec => []ConfigCurrent
BY InitIInv, Inductive, SharedInit, SharedNext, SharedImplies, PTL DEF Spec
=============================================================================
