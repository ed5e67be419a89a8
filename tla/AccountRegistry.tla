--------------------------- MODULE AccountRegistry ---------------------------
(***************************************************************************)
(* What registration promises, without transactions, tables or crashes.    *)
(* An account and its announcement come into being in one step, and the    *)
(* answer a client holds constrains what may still happen: after "ok" the  *)
(* account is there, after a refusal it never will be, and after           *)
(* "internal" the call is in doubt, so it may still open its account.      *)
(***************************************************************************)
CONSTANTS Request, Email

VARIABLES
    accounts,    \* the accounts there are, each opened by a request
    announced,   \* the accounts whose creation has been announced
    answer       \* what each request was told

registry == <<accounts, announced, answer>>

HasAccount(r) == \E a \in accounts : a.id = r

Init ==
    /\ accounts = {}
    /\ announced = {}
    /\ answer = [r \in Request |-> "none"]

\* An account is opened and announced together, under an email of its own.
Open(r, e) ==
    /\ answer[r] \in {"none", "internal"}
    /\ ~HasAccount(r)
    /\ \A a \in accounts : a.email # e
    /\ accounts' = accounts \cup {[id |-> r, email |-> e]}
    /\ announced' = announced \cup {[id |-> r, email |-> e]}
    /\ UNCHANGED answer

Tell(r, a) ==
    /\ answer[r] = "none"
    /\ answer' = [answer EXCEPT ![r] = a]
    /\ UNCHANGED <<accounts, announced>>

Accept(r) == HasAccount(r) /\ Tell(r, "ok")

RefuseInvalid(r) == ~HasAccount(r) /\ Tell(r, "invalid")

\* Only another account makes an email taken.
RefuseTaken(r) == ~HasAccount(r) /\ accounts # {} /\ Tell(r, "conflict")

LeaveInDoubt(r) == Tell(r, "internal")

Next ==
    \E r \in Request :
        \/ \E e \in Email : Open(r, e)
        \/ Accept(r) \/ RefuseInvalid(r) \/ RefuseTaken(r) \/ LeaveInDoubt(r)

Spec == Init /\ [][Next]_registry
=============================================================================
