--------------------------- MODULE SessionRegistry ---------------------------
(***************************************************************************)
(* What login and refresh promise, without transactions, row locks, clocks *)
(* or crashes.  A login grants a token; a refresh examines the token it is *)
(* shown and, if that was live, uses it up and grants its successor in one *)
(* step.  Calls that examined a token before any of them used it up may    *)
(* each succeed.  The answer a client holds constrains what may still      *)
(* happen: after "ok" the call's token is there, after a refusal it never  *)
(* will be, and after "internal" the call is in doubt.                     *)
(***************************************************************************)
EXTENDS Naturals

CONSTANTS Call, User, None, TTL, Instant

VARIABLES
    tokens,    \* the token that each call granted: its user, predecessor and issue
    used,      \* the tokens that have been used up
    claim,     \* the token a refresh has examined, and whether it was live
    answer     \* what each call was told

registry == <<tokens, used, claim, answer>>

Init ==
    /\ tokens = [c \in Call |-> None]
    /\ used = {}
    /\ claim = [c \in Call |-> None]
    /\ answer = [c \in Call |-> "none"]

Granted(t) == tokens[t] # None
Live(c) == claim[c] # None /\ claim[c].live

Examine(c, t) ==
    /\ answer[c] = "none" /\ claim[c] = None
    /\ Granted(t)
    /\ claim' = [claim EXCEPT ![c] = [token |-> t, live |-> t \notin used]]
    /\ UNCHANGED <<tokens, used, answer>>

\* A call grants at most one token, and none once it was refused.
Grant(c, token) ==
    /\ answer[c] \in {"none", "internal"}
    /\ ~Granted(c)
    /\ tokens' = [tokens EXCEPT ![c] = token]
    /\ UNCHANGED <<claim, answer>>

LogIn(c, u, instant) ==
    /\ claim[c] = None
    /\ Grant(c, [user |-> u, from |-> None, issued |-> instant])
    /\ UNCHANGED used

\* The successor is the same user's, and issued before its predecessor expired.
Rotate(c, instant) ==
    /\ Live(c)
    /\ LET t == claim[c].token
       IN  /\ instant < tokens[t].issued + TTL
           /\ Grant(c, [user |-> tokens[t].user, from |-> t, issued |-> instant])
           /\ used' = used \cup {t}

Tell(c, a) ==
    /\ answer[c] = "none"
    /\ answer' = [answer EXCEPT ![c] = a]
    /\ UNCHANGED <<tokens, used, claim>>

Accept(c) == Granted(c) /\ Tell(c, "ok")

RefuseStranger(c) ==
    /\ claim[c] = None /\ ~Granted(c)
    /\ \E a \in {"credentials", "invalid"} : Tell(c, a)

\* A token that had been used up is reported as that and as nothing else.
RefuseReplay(c) == claim[c] # None /\ ~Live(c) /\ Tell(c, "revoked")

Refuse(c) ==
    /\ Live(c) /\ ~Granted(c)
    /\ \E a \in {"expired", "notSigned"} : Tell(c, a)

LeaveInDoubt(c) == (claim[c] = None \/ Live(c)) /\ Tell(c, "internal")

Next ==
    \E c \in Call :
        \/ \E t \in Call : Examine(c, t)
        \/ \E u \in User, instant \in Instant : LogIn(c, u, instant)
        \/ \E instant \in Instant : Rotate(c, instant)
        \/ Accept(c) \/ RefuseStranger(c) \/ RefuseReplay(c) \/ Refuse(c) \/ LeaveInDoubt(c)

Spec == Init /\ [][Next]_registry
=============================================================================
