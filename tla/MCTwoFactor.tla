----------------------------- MODULE MCTwoFactor -----------------------------
(* TLC instance of TwoFactor, in three parts: one handler at a time over    *)
(* the dialogues that change the two factor methods, one at a time over the *)
(* calls that two factor authorization protects, and two handlers together. *)
EXTENDS TwoFactor

CONSTANTS h1, h2
VARIABLE part

MCHandlers == {h1, h2}

MCOp(type, m, n, look) == [type |-> type, m |-> m, n |-> n, look |-> look]
\* the dialogues that change the two factor methods
MCMethodOps ==
    {MCOp(type, m, 0, 0) : type \in {"enable", "disable"}, m \in Methods}
    \cup {MCOp("set_email", "email", 0, 0), MCOp("reset", "email", 0, 0),
          MCOp("enable", "gauth", 1, 0)}
\* the calls that two factor authorization protects
MCSpendOps ==
    {MCOp("limits", "email", n, 0) : n \in 0 .. 2}
    \cup {MCOp("send", "email", n, 0) : n \in 1 .. 2}
    \cup {MCOp("settings", "email", n, look) : n \in 0 .. 1, look \in 0 .. 1}
    \cup {MCOp("set_nlocktime", "email", 1, 0), MCOp("remove_account", "email", 0, 0)}
\* two calls on the methods, two on the limits, and one on the nlocktime
MCSharedOps ==
    {MCOp("enable", "sms", 0, 0), MCOp("disable", "gauth", 0, 0),
     MCOp("limits", "email", 1, 0), MCOp("send", "email", 1, 0),
     MCOp("set_nlocktime", "email", 1, 0)}
MCOps == MCMethodOps \cup MCSpendOps \cup MCSharedOps

MCInit ==
    /\ Init
    /\ \/ part = "methods" /\ ses.limit = 0
       \/ part = "spend" /\ ses.enabled \subseteq {"email"} /\ ses.confirmed
       \/ part = "together" /\ ses.enabled = {"gauth"} /\ ~ses.confirmed /\ ses.limit = 2
\* A dialogue in which the session got out of step with the server is followed
\* by such as disable a method only
MCNext ==
    /\ Next
    /\ UNCHANGED part
    /\ part # "together" => hs'[h2].state = "none"
    /\ part = "methods" => srv'.limit = 0 /\ (hs[h1].state = "none" => hs'[h1].op \notin MCSpendOps)
    /\ part = "methods" /\ ~insync /\ hs[h1].state = "none" => hs'[h1].op.type = "disable"
    /\ part = "spend" => (hs[h1].state = "none" => hs'[h1].op \notin MCMethodOps)
    /\ part = "together" => \A h \in Handlers :
         IF hs[h].state = "none" THEN hs'[h].op \in {NoOp} \cup MCSharedOps ELSE hs'[h].state # "none"
MCSpec == MCInit /\ [][MCNext]_<<vars, part>> /\ Fairness
=============================================================================
