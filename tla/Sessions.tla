------------------------------ MODULE Sessions ------------------------------
(***************************************************************************)
(* Sessions of the identity service: the loginuser use case, which grants  *)
(* a refresh token, and the refreshtoken use case, which rotates one:      *)
(* validates a snapshot of the presented token's row, then revokes it and  *)
(* inserts its replacement in one transaction.                             *)
(*                                                                         *)
(* The refresh token a call creates has a fresh id and a fresh secret, so  *)
(* both are the call itself.  As in Registration, the goroutine (pc) and   *)
(* the database's side of its transaction (tx) advance separately.  Users  *)
(* are never deleted and their rows never change.                          *)
(***************************************************************************)
EXTENDS Naturals, FiniteSets

CONSTANTS
    Call,           \* calls of the login and refresh handlers
    User,           \* registered users
    None,           \* no call
    TTL,            \* lifetime of a refresh token
    MaxTime,        \* the last instant of the model's clock
    Fault,          \* what may fail: "sign", "database", "process"
    ForeignKey      \* the schemas considered: {TRUE}, {FALSE} or both

ASSUME SessionAssumption == /\ None \notin Call
                            /\ TTL \in Nat \ {0}
                            /\ MaxTime \in Nat
                            /\ Fault \subseteq {"sign", "database", "process"}
                            /\ ForeignKey \subseteq BOOLEAN

\* What stands for no token is none.
ASSUME NoneAssumption ==
    /\ None \notin [user : User, from : Call \cup {None}, issued : 0 .. MaxTime]
    /\ None \notin [token : Call, live : BOOLEAN]

VARIABLES
    replacedByFK, \* replaced_by REFERENCES refresh_tokens, checked at once
    now,         \* the wall clock
    pc,          \* where the goroutine of each call is
    owner,       \* the user a call, and the token it creates, is for
    presented,   \* the token a refresh call presents
    current,     \* the status of that token when the call looked it up
    stamp,       \* the instant the call took for "now"
    answer,      \* what the client was told
    tx,          \* the state of a call's transaction in the database
    staged,      \* the statements it has executed
    status,      \* the committed row of the token a call creates
    replacedBy   \* its replaced_by column

request == <<owner, presented, current, stamp>>
rows == <<status, replacedBy>>
world == <<replacedByFK, now>>
vars == <<world, pc, request, answer, tx, staged, rows>>

Stopped == {"done", "lost"}
Location == {"idle", "check", "prepare", "persist", "revoke", "insert", "commit",
             "commitSent", "rollback"} \cup Stopped
\* "notSigned" and "internal" both reach the client as INTERNAL.
Refusal == {"credentials", "invalid", "revoked", "expired", "notSigned"}
Answer == {"none", "ok", "internal"} \cup Refusal
TxState == {"none", "open", "orphaned", "committing", "committed", "aborted"}
Status == {"absent", "active", "revoked"}

TypeOK ==
    /\ replacedByFK \in ForeignKey
    /\ now \in 0 .. MaxTime
    /\ pc \in [Call -> Location]
    /\ owner \in [Call -> User \cup {None}]
    /\ presented \in [Call -> Call \cup {None}]
    /\ current \in [Call -> Status]
    /\ stamp \in [Call -> 0 .. MaxTime]
    /\ answer \in [Call -> Answer]
    /\ tx \in [Call -> TxState]
    /\ staged \in [Call -> SUBSET {"revoke", "insert"}]
    /\ status \in [Call -> Status]
    /\ replacedBy \in [Call -> Call \cup {None}]

Init ==
    /\ replacedByFK \in ForeignKey
    /\ now = 0
    /\ pc = [c \in Call |-> "idle"]
    /\ owner = [c \in Call |-> None]
    /\ presented = [c \in Call |-> None]
    /\ current = [c \in Call |-> "absent"]
    /\ stamp = [c \in Call |-> 0]
    /\ answer = [c \in Call |-> "none"]
    /\ tx = [c \in Call |-> "none"]
    /\ staged = [c \in Call |-> {}]
    /\ status = [c \in Call |-> "absent"]
    /\ replacedBy = [c \in Call |-> None]

\* The columns of the token of call c, fixed when the call took its stamp.
ExpiresAt(c) == stamp[c] + TTL

\* Mutant of IsExpired: a token still counts at the instant it expires.
IsExpiredLate(c, instant) == instant > ExpiresAt(c)

IsExpired(c, instant) == instant >= ExpiresAt(c)

-----------------------------------------------------------------------------
Goto(c, l) == pc' = [pc EXCEPT ![c] = l]

Reply(c, a) ==
    /\ pc' = [pc EXCEPT ![c] = "done"]
    /\ answer' = [answer EXCEPT ![c] = a]

\* Malformed or unknown email, or a password that does not verify.
RefuseLogin(c) ==
    /\ pc[c] = "idle"
    /\ Reply(c, "credentials")
    /\ UNCHANGED <<world, request, tx, staged, rows>>

\* The credentials of u verify; the access token is signed, the refresh token
\* generated and the clock read.
Login(c, u) ==
    /\ pc[c] = "idle"
    /\ Goto(c, "persist")
    /\ owner' = [owner EXCEPT ![c] = u]
    /\ stamp' = [stamp EXCEPT ![c] = now]
    /\ UNCHANGED <<world, presented, current, answer, tx, staged, rows>>

\* Outside a transaction, the INSERT is one by itself: sent, then applied or not.
PersistLogin(c) ==
    /\ pc[c] = "persist"
    /\ Goto(c, "commitSent")
    /\ tx' = [tx EXCEPT ![c] = "committing"]
    /\ staged' = [staged EXCEPT ![c] = {"insert"}]
    /\ UNCHANGED <<world, request, answer, rows>>

-----------------------------------------------------------------------------
\* No token, or one that was never stored.
RefuseUnknown(c) ==
    /\ pc[c] = "idle"
    /\ Reply(c, "invalid")
    /\ UNCHANGED <<world, request, tx, staged, rows>>

\* A client presents a token it was given; GetByHash copies its row.
Lookup(c, t) ==
    /\ pc[c] = "idle"
    /\ answer[t] = "ok"
    /\ Goto(c, "check")
    /\ presented' = [presented EXCEPT ![c] = t]
    /\ current' = [current EXCEPT ![c] = status[t]]
    /\ owner' = [owner EXCEPT ![c] = owner[t]]
    /\ UNCHANGED <<world, stamp, answer, tx, staged, rows>>

\* Mutant of Check: expired is checked before revoked.
CheckExpiredFirst(c) ==
    /\ pc[c] = "check"
    /\ stamp' = [stamp EXCEPT ![c] = now]
    /\ \/ IsExpired(presented[c], now) /\ Reply(c, "expired")
       \/ /\ ~IsExpired(presented[c], now) /\ current[c] = "revoked"
          /\ Reply(c, "revoked")
       \/ /\ ~IsExpired(presented[c], now) /\ current[c] # "revoked"
          /\ Goto(c, "prepare")
          /\ UNCHANGED answer
    /\ UNCHANGED <<world, owner, presented, current, tx, staged, rows>>

\* Revoked is checked before expired.
Check(c) ==
    /\ pc[c] = "check"
    /\ stamp' = [stamp EXCEPT ![c] = now]
    /\ \/ current[c] = "revoked" /\ Reply(c, "revoked")
       \/ /\ current[c] # "revoked" /\ IsExpired(presented[c], now)
          /\ Reply(c, "expired")
       \/ /\ current[c] # "revoked" /\ ~IsExpired(presented[c], now)
          /\ Goto(c, "prepare")
          /\ UNCHANGED answer
    /\ UNCHANGED <<world, owner, presented, current, tx, staged, rows>>

\* The access token cannot be signed: nothing has been written yet.
SignFails(c) ==
    /\ "sign" \in Fault
    /\ pc[c] = "prepare"
    /\ Reply(c, "notSigned")
    /\ UNCHANGED <<world, request, tx, staged, rows>>

\* The user is loaded, the access token signed, the next token generated; BEGIN.
BeginRotation(c) ==
    /\ pc[c] = "prepare"
    /\ Goto(c, "revoke")
    /\ tx' = [tx EXCEPT ![c] = "open"]
    /\ UNCHANGED <<world, request, answer, staged, rows>>

\* Transactions that are not decided; they hold the locks of the rows they wrote.
Undecided == {d \in Call : tx[d] \in {"open", "orphaned", "committing"}}

Locked(c) ==
    \E d \in Undecided \ {c} : "revoke" \in staged[d] /\ presented[d] = presented[c]

\* UPDATE refresh_tokens SET revoked_at, replaced_by WHERE id: it waits for the
\* row's lock and then matches the row whatever its revoked_at has become.
Revoke(c) ==
    /\ pc[c] = "revoke" /\ tx[c] = "open"
    /\ ~replacedByFK
    /\ ~Locked(c)
    /\ staged' = [staged EXCEPT ![c] = @ \cup {"revoke"}]
    /\ Goto(c, "insert")
    /\ UNCHANGED <<world, request, answer, tx, rows>>

\* With the foreign key the statement fails (23503): the replacement the row
\* would point to is inserted by the next statement.
RevokeDangles(c) ==
    /\ pc[c] = "revoke" /\ tx[c] = "open"
    /\ replacedByFK
    /\ ~Locked(c)
    /\ Goto(c, "rollback")
    /\ UNCHANGED <<world, request, answer, tx, staged, rows>>

InsertNext(c) ==
    /\ pc[c] = "insert" /\ tx[c] = "open"
    /\ staged' = [staged EXCEPT ![c] = @ \cup {"insert"}]
    /\ Goto(c, "commit")
    /\ UNCHANGED <<world, request, answer, tx, rows>>

SendCommit(c) ==
    /\ pc[c] = "commit" /\ tx[c] = "open"
    /\ tx' = [tx EXCEPT ![c] = "committing"]
    /\ Goto(c, "commitSent")
    /\ UNCHANGED <<world, request, answer, staged, rows>>

\* Mutant of CommitAcked: the error of Commit is dropped.
CommitAckedAnyway(c) ==
    /\ pc[c] = "commitSent"
    /\ Reply(c, "ok")
    /\ UNCHANGED <<world, request, tx, staged, rows>>

\* The acknowledgement of COMMIT, or of the login's INSERT, arrives.
CommitAcked(c) ==
    /\ pc[c] = "commitSent" /\ tx[c] = "committed"
    /\ Reply(c, "ok")
    /\ UNCHANGED <<world, request, tx, staged, rows>>

\* Mutant of Rollback: the deferred function commits whatever the error.
RollbackCommits(c) ==
    /\ pc[c] = "rollback"
    /\ tx' = [tx EXCEPT ![c] = IF @ = "open" THEN "committing" ELSE @]
    /\ Reply(c, "internal")
    /\ UNCHANGED <<world, request, staged, rows>>

\* Mutant of Rollback: the error is returned and the transaction left open.
RollbackForgotten(c) ==
    /\ pc[c] = "rollback"
    /\ Reply(c, "internal")
    /\ UNCHANGED <<world, request, tx, staged, rows>>

Rollback(c) ==
    /\ pc[c] = "rollback"
    /\ tx' = [tx EXCEPT ![c] = "aborted"]
    /\ Reply(c, "internal")
    /\ UNCHANGED <<world, request, staged, rows>>

-----------------------------------------------------------------------------
\* A call to the database fails before the transaction begins: the lookup of the
\* account or of the presented token, the loading of the user, or BEGIN.
NoTransaction(c) ==
    /\ "database" \in Fault
    /\ pc[c] \in {"idle", "prepare", "persist"}
    /\ Reply(c, "internal")
    /\ UNCHANGED <<world, request, tx, staged, rows>>

\* Mutant of StatementFails: the callback drops the error of its second statement.
StatementFailsUnseen(c) ==
    /\ "database" \in Fault
    /\ pc[c] \in {"revoke", "insert"}
    /\ Goto(c, IF pc[c] = "insert" THEN "commit" ELSE "rollback")
    /\ UNCHANGED <<world, request, answer, tx, staged, rows>>

\* A statement of the transaction fails, or the callback panics.
StatementFails(c) ==
    /\ "database" \in Fault
    /\ pc[c] \in {"revoke", "insert"}
    /\ Goto(c, "rollback")
    /\ UNCHANGED <<world, request, answer, tx, staged, rows>>

RollbackLost(c) ==
    /\ "database" \in Fault
    /\ pc[c] = "rollback" /\ tx[c] = "open"
    /\ tx' = [tx EXCEPT ![c] = "orphaned"]
    /\ Reply(c, "internal")
    /\ UNCHANGED <<world, request, staged, rows>>

CommitUnsent(c) ==
    /\ "database" \in Fault
    /\ pc[c] = "commit"
    /\ tx' = [tx EXCEPT ![c] = IF @ = "open" THEN "orphaned" ELSE @]
    /\ Reply(c, "internal")
    /\ UNCHANGED <<world, request, staged, rows>>

CommitUnacked(c) ==
    /\ "database" \in Fault
    /\ pc[c] = "commitSent"
    /\ Reply(c, "internal")
    /\ UNCHANGED <<world, request, tx, staged, rows>>

\* The database aborts a transaction: its connection or the server is gone.
ServerAbort(c) ==
    /\ "database" \in Fault
    /\ c \in Undecided
    /\ tx' = [tx EXCEPT ![c] = "aborted"]
    /\ UNCHANGED <<world, pc, request, answer, staged, rows>>

\* The process dies with every call in flight.
Crash ==
    /\ "process" \in Fault
    /\ \E c \in Call : pc[c] \notin {"idle"} \cup Stopped
    /\ pc' = [c \in Call |->
                IF pc[c] \in {"idle"} \cup Stopped THEN pc[c] ELSE "lost"]
    /\ tx' = [c \in Call |-> IF tx[c] = "open" THEN "orphaned" ELSE tx[c]]
    /\ UNCHANGED <<world, request, answer, staged, rows>>

\* A transaction takes effect at once: the presented token is revoked in favour
\* of the new one, and the new one is there.
ServerCommit(c) ==
    /\ tx[c] = "committing"
    /\ tx' = [tx EXCEPT ![c] = "committed"]
    /\ status' = [t \in Call |->
          IF t = c /\ "insert" \in staged[c] THEN "active"
          ELSE IF t = presented[c] /\ "revoke" \in staged[c] THEN "revoked"
          ELSE status[t]]
    /\ replacedBy' = [t \in Call |->
          IF t = presented[c] /\ "revoke" \in staged[c] THEN c ELSE replacedBy[t]]
    /\ UNCHANGED <<world, pc, request, answer, staged>>

Tick ==
    /\ now < MaxTime
    /\ now' = now + 1
    /\ UNCHANGED <<replacedByFK, pc, request, answer, tx, staged, rows>>

-----------------------------------------------------------------------------
Arrive(c) ==
    \/ RefuseLogin(c) \/ RefuseUnknown(c)
    \/ \E u \in User : Login(c, u)
    \/ \E t \in Call : Lookup(c, t)

Work(c) ==
    \/ PersistLogin(c) \/ Check(c) \/ BeginRotation(c) \/ Revoke(c)
    \/ RevokeDangles(c) \/ InsertNext(c) \/ SendCommit(c) \/ CommitAcked(c)
    \/ Rollback(c)

Trouble(c) ==
    \/ NoTransaction(c) \/ StatementFails(c) \/ RollbackLost(c)
    \/ CommitUnsent(c) \/ CommitUnacked(c)

Next ==
    \/ \E c \in Call : Arrive(c) \/ Work(c) \/ SignFails(c) \/ Trouble(c)
    \/ \E c \in Call : ServerCommit(c) \/ ServerAbort(c)
    \/ Crash
    \/ Tick

Spec == Init /\ [][Next]_vars

\* As in Registration: goroutines run, the database decides what it can.
Fairness ==
    \A c \in Call :
        /\ WF_vars(Work(c) \/ (tx[c] = "aborted" /\ Trouble(c)))
        /\ WF_vars(ServerCommit(c) \/ (tx[c] # "open" /\ ServerAbort(c)))

FairSpec == Spec /\ Fairness

-----------------------------------------------------------------------------
\* Rotation is one step: a token is revoked exactly if a replacement for it was
\* inserted, and the replacement it points to was made from it, for its user.
RotationIsAtomic ==
    /\ \A t \in Call : status[t] = "revoked" =>
          \E c \in Call : /\ replacedBy[t] = c
                          /\ status[c] # "absent"
                          /\ presented[c] = t
                          /\ owner[c] = owner[t]
    /\ \A c \in Call : status[c] # "absent" /\ presented[c] # None =>
          status[presented[c]] = "revoked"

\* A token that was rotated before a call looked it up buys nothing, and the
\* call says so even when the token has expired since: a replayed token is
\* reported as revoked, not as expired.
ReplayIsReported ==
    \A c \in Call : current[c] = "revoked" =>
        /\ answer[c] \in {"none", "revoked"}
        /\ c \notin Undecided
        /\ status[c] = "absent"

\* A rotation that took effect was of a token that had not expired when the call
\* read the clock: the chain of a login has no gap of a whole lifetime.
ChainHasNoGap ==
    \A c \in Call : status[c] # "absent" /\ presented[c] # None =>
        stamp[presented[c]] + TTL > stamp[c]

\* The tokens a client holds are stored, and the call that made them committed.
AcceptedIsDurable ==
    \A c \in Call : answer[c] = "ok" => tx[c] = "committed" /\ status[c] # "absent"

\* A refused call has written nothing and no undecided transaction of it will.
RefusedLeavesNothing ==
    \A c \in Call : answer[c] \in Refusal =>
        c \notin Undecided /\ status[c] = "absent"

\* When nothing fails, nobody is told of an internal error: a refresh with a
\* live token rotates it.
HealthyRefreshSucceeds ==
    Fault = {} => \A c \in Call : answer[c] # "internal"

\* Revocation is for good, and a stored token is never lost.
RevocationIsPermanent ==
    [][\A t \in Call : /\ status[t] # "absent" => status'[t] # "absent"
                       /\ status[t] = "revoked" => status'[t] = "revoked"]_vars

Registry == INSTANCE SessionRegistry WITH
    Instant <- 0 .. MaxTime,
    tokens <- [c \in Call |->
        IF status[c] = "absent" THEN None
        ELSE [user |-> owner[c], from |-> presented[c], issued |-> stamp[c]]],
    used <- {t \in Call : status[t] = "revoked"},
    claim <- [c \in Call |->
        IF presented[c] = None THEN None
        ELSE [token |-> presented[c], live |-> current[c] # "revoked"]]

\* To its clients the service is a registry of sessions that uses a token up and
\* grants its successor in one step, and whose refusals are final, whatever
\* happens between the two statements, to COMMIT or to its acknowledgement.
ImplementsSessions == Registry!Spec

\* A call that started ends, however many others are after the same row.
EveryCallEnds ==
    \A c \in Call : pc[c] \in {"check", "persist"} ~> pc[c] \in Stopped

-----------------------------------------------------------------------------
(* The inductive strengthening of the safety properties. *)

InTx == {"revoke", "insert", "commit", "rollback"}
Refreshes(c) == presented[c] # None

\* Where a goroutine is tells how far its transaction can be.
ControlInv ==
    \A c \in Call :
        /\ pc[c] \in {"idle", "check", "prepare", "persist"} => tx[c] = "none"
        /\ pc[c] \in InTx => tx[c] \in {"open", "aborted"}
        /\ pc[c] = "commitSent" => tx[c] \in {"committing", "committed", "aborted"}
        /\ tx[c] = "open" => pc[c] \in InTx
        /\ pc[c] \in {"idle", "persist"} => ~Refreshes(c)
        /\ pc[c] \in {"check", "prepare"} \cup InTx => Refreshes(c)
        /\ pc[c] = "insert" => "revoke" \in staged[c]
        /\ pc[c] = "commit" \/ tx[c] \in {"committing", "committed"} =>
               staged[c] = IF Refreshes(c) THEN {"revoke", "insert"} ELSE {"insert"}
        /\ answer[c] # "none" <=> pc[c] = "done"

\* A call that writes is for a user; a rotation is for the user of the token it
\* presents, which somebody was given and which was live when it was checked.
MemoryInv ==
    \A c \in Call :
        /\ pc[c] = "persist" \/ tx[c] # "none" => owner[c] \in User
        /\ Refreshes(c) =>
               /\ answer[presented[c]] = "ok"
               /\ owner[c] = owner[presented[c]]
        /\ Refreshes(c) /\ (pc[c] = "prepare" \/ tx[c] # "none") =>
               stamp[c] < ExpiresAt(presented[c])
        /\ current[c] = "revoked" =>
               /\ Refreshes(c) /\ status[presented[c]] = "revoked"
               /\ tx[c] = "none"
               /\ pc[c] \in {"check", "done", "lost"} /\ answer[c] \in {"none", "revoked"}

\* The rows are those of the committed transactions.
TablesInv ==
    \A c \in Call :
        /\ status[c] # "absent" <=> tx[c] = "committed"
        /\ tx[c] = "committed" /\ Refreshes(c) => status[presented[c]] = "revoked"
        /\ status[c] = "revoked" =>
               /\ replacedBy[c] \in Call
               /\ tx[replacedBy[c]] = "committed" /\ presented[replacedBy[c]] = c

\* What each answer says of the transaction behind it.
AnswerInv ==
    \A c \in Call :
        /\ answer[c] = "ok" => tx[c] = "committed"
        /\ answer[c] \in Refusal => tx[c] = "none"

Inv == TypeOK /\ ControlInv /\ MemoryInv /\ TablesInv /\ AnswerInv
=============================================================================
