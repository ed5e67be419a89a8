---------------------------- MODULE Registration ----------------------------
(***************************************************************************)
(* Account registration of the identity service: the registeruser use      *)
(* case, the transaction it runs through pkg/postgres.WithTx, the two      *)
(* tables it writes (users and the transactional outbox), and the gRPC and *)
(* GraphQL handlers in front of it.                                        *)
(*                                                                         *)
(* A request is one call of a handler.  Its goroutine (pc) and the server  *)
(* side of its transaction (tx) advance separately: a COMMIT that was sent *)
(* may be applied, or not, after the goroutine has already given up.       *)
(* The id generator returns a fresh uuid at each call, so the id of the    *)
(* user a request creates is the request itself.                           *)
(***************************************************************************)
EXTENDS Naturals, FiniteSets

CONSTANTS
    Request,          \* calls of the registration handlers
    Mailbox,          \* the mailboxes addresses denote
    RawEmail,         \* the spellings of addresses that clients send
    PasswordLength,   \* the lengths, in runes, of the passwords they send
    NoEmail           \* the email of a request that has not been read yet

Style == {"lower", "mixedCase", "padded"}
Spelling == [mailbox : Mailbox, style : Style,
             form : {"plain", "displayName", "malformed"}, long : BOOLEAN]
\* What the email column can hold: an address as it was spelled.
Email == [mailbox : Mailbox, style : Style]

ASSUME InputAssumption == /\ RawEmail \subseteq Spelling
                          /\ PasswordLength \subseteq Nat
                          /\ NoEmail \notin Email

MinPasswordLength == 8
MaxPasswordLength == 1024

-----------------------------------------------------------------------------
\* Mutant of Normalised: trimmed but not lowered.
NormalisedTrimOnly(raw) ==
    [mailbox |-> raw.mailbox,
     style |-> IF raw.style = "padded" THEN "lower" ELSE raw.style]

\* strings.ToLower(strings.TrimSpace(raw)).
Normalised(raw) == [mailbox |-> raw.mailbox, style |-> "lower"]

\* ParseEmail succeeds: the normalised text has at most 254 bytes and is one
\* bare address (no display name).
IsAddress(raw) == raw.form = "plain" /\ ~raw.long

IsStrong(length) == length \in MinPasswordLength .. MaxPasswordLength

-----------------------------------------------------------------------------
VARIABLES
    pc,           \* where the goroutine of each request is
    via,          \* the API a request came through
    email,        \* the parsed email of a request
    failure,      \* the error the transaction's callback returned
    answer,       \* what the client was told
    tx,           \* the state of a request's transaction in the database
    stagedUser,   \* the transaction has inserted its users row
    stagedEvent,  \* the serial of the outbox row it has inserted, 0 if none
    users,        \* committed rows of users
    outbox,       \* committed rows of outbox
    serial        \* last value taken from the sequence of outbox.id

client == <<pc, via, email, failure, answer>>
tables == <<users, outbox>>
staged == <<stagedUser, stagedEvent>>
vars == <<client, tx, staged, tables, serial>>

Api == {"grpc", "graphql"}
InTx == {"insert", "publish", "commit", "commitSent", "rollback"}
Stopped == {"done", "lost"}
Location == {"idle", "begin", "readBack"} \cup InTx \cup Stopped
Answer == {"none", "ok", "invalid", "conflict", "notFound", "internal"}
TxState == {"none", "open", "orphaned", "committing", "committed", "aborted"}

\* The rows request r writes.
UserRow(r) == [id |-> r, email |-> email[r]]
EventRow(r) == [serial |-> stagedEvent[r], aggregate |-> r, email |-> email[r]]

User == [id : Request, email : Email]
Event == [serial : Nat, aggregate : Request, email : Email]

TypeOK ==
    /\ pc \in [Request -> Location]
    /\ via \in [Request -> Api]
    /\ email \in [Request -> Email \cup {NoEmail}]
    /\ failure \in [Request -> {"none", "conflict", "internal"}]
    /\ answer \in [Request -> Answer]
    /\ tx \in [Request -> TxState]
    /\ stagedUser \in [Request -> BOOLEAN]
    /\ stagedEvent \in [Request -> Nat]
    /\ users \subseteq User
    /\ outbox \subseteq Event
    /\ serial \in Nat

Init ==
    /\ pc = [r \in Request |-> "idle"]
    /\ via = [r \in Request |-> "grpc"]
    /\ email = [r \in Request |-> NoEmail]
    /\ failure = [r \in Request |-> "none"]
    /\ answer = [r \in Request |-> "none"]
    /\ tx = [r \in Request |-> "none"]
    /\ stagedUser = [r \in Request |-> FALSE]
    /\ stagedEvent = [r \in Request |-> 0]
    /\ users = {}
    /\ outbox = {}
    /\ serial = 0

-----------------------------------------------------------------------------
Goto(r, l) == pc' = [pc EXCEPT ![r] = l]

\* The handler returns; toStatus and toGraphQLError keep the kind of the error.
Reply(r, a) ==
    /\ pc' = [pc EXCEPT ![r] = "done"]
    /\ answer' = [answer EXCEPT ![r] = a]

Fail(r, kind) ==
    /\ Goto(r, "rollback")
    /\ failure' = [failure EXCEPT ![r] = kind]

\* Invalid input is refused before anything is touched.
Reject(r, raw, length) ==
    /\ pc[r] = "idle"
    /\ ~ (IsAddress(raw) /\ IsStrong(length))
    /\ Reply(r, "invalid")
    /\ UNCHANGED <<via, email, failure, tx, staged, tables, serial>>

\* Valid input: the password is hashed, the user and its event are built.
Prepare(r, raw, length, api) ==
    /\ pc[r] = "idle"
    /\ IsAddress(raw) /\ IsStrong(length)
    /\ Goto(r, "begin")
    /\ via' = [via EXCEPT ![r] = api]
    /\ email' = [email EXCEPT ![r] = Normalised(raw)]
    /\ UNCHANGED <<failure, answer, tx, staged, tables, serial>>

\* The hash, the event's encoding or BEGIN fails: there is no transaction.
NoTransaction(r) ==
    /\ pc[r] = "begin"
    /\ Reply(r, "internal")
    /\ UNCHANGED <<via, email, failure, tx, staged, tables, serial>>

BeginTx(r) ==
    /\ pc[r] = "begin"
    /\ Goto(r, "insert")
    /\ tx' = [tx EXCEPT ![r] = "open"]
    /\ UNCHANGED <<via, email, failure, answer, staged, tables, serial>>

-----------------------------------------------------------------------------
\* Transactions that are not decided; their staged rows are in the unique index.
Undecided == {s \in Request : tx[s] \in {"open", "orphaned", "committing"}}

\* INSERT INTO users waits for an undecided transaction that has inserted the
\* same email: whether it commits tells if the email is taken.
Blocked(r) == \E s \in Undecided \ {r} : stagedUser[s] /\ email[s] = email[r]

Taken(r) == \E u \in users : u.email = email[r]

InsertUser(r) ==
    /\ pc[r] = "insert" /\ tx[r] = "open"
    /\ ~Blocked(r) /\ ~Taken(r)
    /\ stagedUser' = [stagedUser EXCEPT ![r] = TRUE]
    /\ Goto(r, "publish")
    /\ UNCHANGED <<via, email, failure, answer, tx, stagedEvent, tables, serial>>

\* Mutant of InsertTaken: an email is taken as soon as somebody is inserting it.
InsertTakenEarly(r) ==
    /\ pc[r] = "insert" /\ tx[r] = "open"
    /\ Blocked(r) \/ Taken(r)
    /\ Fail(r, "conflict")
    /\ UNCHANGED <<via, email, answer, tx, staged, tables, serial>>

\* The unique index refuses the row (23505): ErrEmailTaken.
InsertTaken(r) ==
    /\ pc[r] = "insert" /\ tx[r] = "open"
    /\ ~Blocked(r) /\ Taken(r)
    /\ Fail(r, "conflict")
    /\ UNCHANGED <<via, email, answer, tx, staged, tables, serial>>

\* Mutant of Publish: the publisher is bound to the pool.
PublishOutsideTx(r) ==
    /\ pc[r] = "publish" /\ tx[r] = "open"
    /\ serial' = serial + 1
    /\ outbox' = outbox \cup
          {[serial |-> serial + 1, aggregate |-> r, email |-> email[r]]}
    /\ Goto(r, "commit")
    /\ UNCHANGED <<via, email, failure, answer, tx, staged, users>>

\* Mutant of Publish: the serial is read and not taken.
PublishSameSerial(r) ==
    /\ pc[r] = "publish" /\ tx[r] = "open"
    /\ stagedEvent' = [stagedEvent EXCEPT ![r] = serial + 1]
    /\ Goto(r, "commit")
    /\ UNCHANGED <<via, email, failure, answer, tx, stagedUser, tables, serial>>

\* The publisher is bound to the same transaction as the users repository.
Publish(r) ==
    /\ pc[r] = "publish" /\ tx[r] = "open"
    /\ serial' = serial + 1
    /\ stagedEvent' = [stagedEvent EXCEPT ![r] = serial + 1]
    /\ Goto(r, "commit")
    /\ UNCHANGED <<via, email, failure, answer, tx, stagedUser, tables>>

\* A statement fails (the request's context ends, the connection breaks, the
\* database is gone) or the callback panics.
StatementFails(r) ==
    /\ pc[r] \in {"insert", "publish"}
    /\ Fail(r, "internal")
    /\ UNCHANGED <<via, email, answer, tx, staged, tables, serial>>

\* Mutant of Rollback: the deferred function commits whatever the error.
RollbackCommits(r) ==
    /\ pc[r] = "rollback"
    /\ tx' = [tx EXCEPT ![r] = IF @ = "open" THEN "committing" ELSE @]
    /\ Reply(r, failure[r])
    /\ UNCHANGED <<via, email, failure, staged, tables, serial>>

\* Mutant of Rollback: the error is returned and the transaction left open.
RollbackForgotten(r) ==
    /\ pc[r] = "rollback"
    /\ Reply(r, failure[r])
    /\ UNCHANGED <<via, email, failure, tx, staged, tables, serial>>

\* The callback failed: roll back, under a context that cannot be cancelled,
\* and return its error.
Rollback(r) ==
    /\ pc[r] = "rollback"
    /\ tx' = [tx EXCEPT ![r] = "aborted"]
    /\ Reply(r, failure[r])
    /\ UNCHANGED <<via, email, failure, staged, tables, serial>>

\* ROLLBACK does not get through: the errors are joined, the connection is
\* closed and the database is left to notice.
RollbackLost(r) ==
    /\ pc[r] = "rollback" /\ tx[r] = "open"
    /\ tx' = [tx EXCEPT ![r] = "orphaned"]
    /\ Reply(r, failure[r])
    /\ UNCHANGED <<via, email, failure, staged, tables, serial>>

\* Mutant of SendCommit: the resolver reads back without waiting for COMMIT.
SendCommitNoWait(r) ==
    /\ pc[r] = "commit" /\ tx[r] = "open"
    /\ tx' = [tx EXCEPT ![r] = "committing"]
    /\ Goto(r, IF via[r] = "graphql" THEN "readBack" ELSE "commitSent")
    /\ UNCHANGED <<via, email, failure, answer, staged, tables, serial>>

SendCommit(r) ==
    /\ pc[r] = "commit" /\ tx[r] = "open"
    /\ tx' = [tx EXCEPT ![r] = "committing"]
    /\ Goto(r, "commitSent")
    /\ UNCHANGED <<via, email, failure, answer, staged, tables, serial>>

\* Commit(ctx) fails before COMMIT is sent; pgx closes the connection.
CommitUnsent(r) ==
    /\ pc[r] = "commit"
    /\ tx' = [tx EXCEPT ![r] = IF @ = "open" THEN "orphaned" ELSE @]
    /\ Reply(r, "internal")
    /\ UNCHANGED <<via, email, failure, staged, tables, serial>>

\* Mutant of CommitAcked: the error of Commit is dropped.
CommitAckedAnyway(r) ==
    /\ pc[r] = "commitSent"
    /\ \/ via[r] = "grpc" /\ Reply(r, "ok")
       \/ via[r] = "graphql" /\ Goto(r, "readBack") /\ UNCHANGED answer
    /\ UNCHANGED <<via, email, failure, tx, staged, tables, serial>>

\* The acknowledgement of COMMIT arrives.  The gRPC handler answers; the
\* GraphQL resolver reads the user back first.
CommitAcked(r) ==
    /\ pc[r] = "commitSent" /\ tx[r] = "committed"
    /\ \/ via[r] = "grpc" /\ Reply(r, "ok")
       \/ via[r] = "graphql" /\ Goto(r, "readBack") /\ UNCHANGED answer
    /\ UNCHANGED <<via, email, failure, tx, staged, tables, serial>>

\* It does not: the context ends or the connection breaks first.
CommitUnacked(r) ==
    /\ pc[r] = "commitSent"
    /\ Reply(r, "internal")
    /\ UNCHANGED <<via, email, failure, tx, staged, tables, serial>>

ReadBack(r) ==
    /\ pc[r] = "readBack"
    /\ Reply(r, IF \E u \in users : u.id = r THEN "ok" ELSE "notFound")
    /\ UNCHANGED <<via, email, failure, tx, staged, tables, serial>>

ReadBackFails(r) ==
    /\ pc[r] = "readBack"
    /\ Reply(r, "internal")
    /\ UNCHANGED <<via, email, failure, tx, staged, tables, serial>>

-----------------------------------------------------------------------------
\* The database applies a COMMIT it has received: every staged row at once.
ServerCommit(r) ==
    /\ tx[r] = "committing"
    /\ tx' = [tx EXCEPT ![r] = "committed"]
    /\ users' = users \cup (IF stagedUser[r] THEN {UserRow(r)} ELSE {})
    /\ outbox' = outbox \cup (IF stagedEvent[r] # 0 THEN {EventRow(r)} ELSE {})
    /\ UNCHANGED <<client, staged, serial>>

\* The database aborts a transaction: its connection is gone, or the server
\* went down before the commit record was durable.
ServerAbort(r) ==
    /\ r \in Undecided
    /\ tx' = [tx EXCEPT ![r] = "aborted"]
    /\ UNCHANGED <<client, staged, tables, serial>>

\* The process dies with every call in flight; the database sees the
\* connections of their transactions close.
Crash ==
    /\ \E r \in Request : pc[r] \notin {"idle"} \cup Stopped
    /\ pc' = [r \in Request |->
                IF pc[r] \in {"idle"} \cup Stopped THEN pc[r] ELSE "lost"]
    /\ tx' = [r \in Request |-> IF tx[r] = "open" THEN "orphaned" ELSE tx[r]]
    /\ UNCHANGED <<via, email, failure, answer, staged, tables, serial>>

-----------------------------------------------------------------------------
Arrive(r) ==
    \E raw \in RawEmail, length \in PasswordLength :
        \/ Reject(r, raw, length)
        \/ \E api \in Api : Prepare(r, raw, length, api)

\* What a healthy goroutine does next.
Work(r) ==
    \/ BeginTx(r) \/ InsertUser(r) \/ InsertTaken(r) \/ Publish(r)
    \/ Rollback(r) \/ SendCommit(r) \/ CommitAcked(r) \/ ReadBack(r)

\* What can go wrong under it, at any call.
Trouble(r) ==
    \/ NoTransaction(r) \/ StatementFails(r) \/ RollbackLost(r)
    \/ CommitUnsent(r) \/ CommitUnacked(r) \/ ReadBackFails(r)

Next ==
    \/ \E r \in Request : Arrive(r) \/ Work(r) \/ Trouble(r)
    \/ \E r \in Request : ServerCommit(r) \/ ServerAbort(r)
    \/ Crash

Spec == Init /\ [][Next]_vars

\* A goroutine that can run does, and one whose transaction the database has
\* aborted is told so at its next call.  The database decides a transaction
\* whose COMMIT it holds or whose connection is closed.  Nothing bounds the
\* wait for another transaction's email: no statement timeout is set.
Fairness ==
    \A r \in Request :
        /\ WF_vars(Work(r) \/ (tx[r] = "aborted" /\ Trouble(r)))
        /\ WF_vars(ServerCommit(r) \/ (tx[r] # "open" /\ ServerAbort(r)))

FairSpec == Spec /\ Fairness

-----------------------------------------------------------------------------
\* However two requests spell a mailbox, at most one account exists for it
\* (ParseEmail's normalisation and idx_users_email, under any interleaving of
\* the inserts).
OneAccountPerMailbox ==
    \A u, v \in users : u.email.mailbox = v.email.mailbox => u = v

\* The transactional outbox: at every moment, crashes included, the committed
\* events are exactly one UserRegistered per committed user, carrying the
\* user's own email.
OneEventPerUser ==
    /\ \A u \in users :
          \E e \in outbox : e.aggregate = u.id /\ e.email = u.email
    /\ \A e \in outbox : \E u \in users : u.id = e.aggregate
    /\ \A e, f \in outbox :
          e.aggregate = f.aggregate \/ e.serial = f.serial => e = f

\* A client told "ok" has a durable account under the address it sent,
\* whatever crashes or aborts happen around the acknowledgement.
AcceptedIsDurable ==
    \A r \in Request : answer[r] = "ok" => UserRow(r) \in users

\* A client told that its input is invalid or its email taken has no account,
\* now or later: no undecided transaction of it can still bring the row in.
RefusedIsFinal ==
    \A r \in Request : answer[r] \in {"invalid", "conflict", "notFound"} =>
        /\ \A u \in users : u.id # r
        /\ ~ (r \in Undecided /\ stagedUser[r])

\* "Email taken" is never said on account of a transaction that may still be
\* rolled back: somebody else's account is committed under that email.
ConflictIsHonest ==
    \A r \in Request : answer[r] = "conflict" =>
        \E u \in users : u.email = email[r] /\ u.id # r

\* A call that was accepted for processing ends: it is answered, unless the
\* process died with it.  No wait for another request's email is for ever.
EveryCallEnds ==
    \A r \in Request : pc[r] = "begin" ~> pc[r] \in Stopped

\* Registration implements the abstract registry: users are its accounts, and
\* the users the outbox tells of are the announced ones.
Registry == INSTANCE AccountRegistry WITH
    accounts <- users,
    announced <- {[id |-> e.aggregate, email |-> e.email] : e \in outbox}

ImplementsRegistry == Registry!Spec

-----------------------------------------------------------------------------
(* The inductive strengthening of the safety properties. *)

\* Where a goroutine is tells how far its transaction can be.
ControlInv ==
    \A r \in Request :
        /\ pc[r] \in {"idle", "begin"} => tx[r] = "none" /\ answer[r] = "none"
        /\ pc[r] \in InTx \cup {"readBack"} => answer[r] = "none"
        /\ pc[r] \in {"insert", "publish", "commit", "rollback"} =>
               tx[r] \in {"open", "aborted"}
        /\ pc[r] = "commitSent" => tx[r] \in {"committing", "committed", "aborted"}
        /\ pc[r] = "readBack" => tx[r] = "committed"
        /\ pc[r] \in {"idle", "begin", "insert"} =>
               ~stagedUser[r] /\ stagedEvent[r] = 0
        /\ pc[r] = "publish" => stagedUser[r] /\ stagedEvent[r] = 0
        /\ pc[r] = "commit" => stagedUser[r] /\ stagedEvent[r] # 0
        /\ tx[r] = "open" => pc[r] \in {"insert", "publish", "commit", "rollback"}
        /\ tx[r] \in {"committing", "committed"} => stagedUser[r] /\ stagedEvent[r] # 0
        /\ pc[r] = "lost" => answer[r] = "none"

\* What the goroutine remembers of its request and of its failure.
MemoryInv ==
    \A r \in Request :
        /\ email[r] = NoEmail => pc[r] \in {"idle", "done"} /\ tx[r] = "none"
        /\ email[r] # NoEmail => pc[r] # "idle" /\ email[r].style = "lower"
        /\ pc[r] = "rollback" => failure[r] # "none"
        /\ failure[r] = "conflict" =>
               ~stagedUser[r] /\ \E u \in users : u.email = email[r] /\ u.id # r

\* The rows of the two tables are those of the committed transactions, and the
\* unique index holds.
TablesInv ==
    /\ \A u \in users : tx[u.id] = "committed" /\ u = UserRow(u.id)
    /\ \A e \in outbox : tx[e.aggregate] = "committed" /\ e = EventRow(e.aggregate)
    /\ \A r \in Request : tx[r] = "committed" =>
          UserRow(r) \in users /\ EventRow(r) \in outbox
    /\ \A u, v \in users : u.email = v.email => u = v

\* A staged users row keeps every other one with its email out.
LockInv ==
    \A r \in Undecided : stagedUser[r] =>
        /\ ~Taken(r)
        /\ ~Blocked(r)

\* The sequence gives every staged event a serial of its own.
SerialInv ==
    /\ \A r \in Request : stagedEvent[r] <= serial
    /\ \A r, s \in Request :
          stagedEvent[r] = stagedEvent[s] /\ stagedEvent[r] # 0 => r = s

\* What each answer says of the transaction behind it.
AnswerInv ==
    \A r \in Request :
        /\ answer[r] = "ok" => tx[r] = "committed"
        /\ answer[r] = "invalid" => tx[r] = "none"
        /\ answer[r] = "conflict" => failure[r] = "conflict"
        /\ answer[r] # "notFound"
        /\ pc[r] = "done" => answer[r] # "none"

Inv == /\ TypeOK /\ ControlInv /\ MemoryInv /\ TablesInv
       /\ LockInv /\ SerialInv /\ AnswerInv
=============================================================================
