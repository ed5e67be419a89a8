# Identity service: models, checks and proofs

This directory is the formal companion of the `identity` service of
go-distributed-shop: TLA+ modules translated from the Go source, configurations
that model-check them with TLC on small instances, and theorems proved with
TLAPS for every instance. Paths below are relative to the repository's root.

## 1. The system

One Go process (`services/identity`) serves a gRPC API to other services and a
GraphQL subgraph to the Apollo router, over one PostgreSQL database. The shared
libraries under `pkg/` are part of it.

| part | code | state it keeps | operations | interacts by |
|---|---|---|---|---|
| registration | `internal/app/registeruser`, `internal/domain/{email,password,user}.go` | `users`, `outbox` rows | Execute: parse, validate, hash, encode, insert user and event in one transaction | called by the gRPC handler and by the GraphQL resolver, which reads the user back |
| sessions | `internal/app/loginuser`, `internal/app/refreshtoken`, `internal/domain/refresh_token.go` | `refresh_tokens` rows | login: insert; refresh: look up, revoke and replace | gRPC and GraphQL (login only) |
| access tokens | `pkg/auth`, `internal/adapters/outbound/jwt`, `internal/app/verifytoken` | the signing key of the process | Issue, Verify, serve the JWKS | the router caches the JWKS and verifies at the edge |
| principal | `deploy/router/router.rhai`, `internal/adapters/inbound/graphql/{middleware,context}.go`, `internal/adapters/inbound/grpc/server.go` | none | claims to headers, headers to caller, self-or-admin rule | HTTP headers, gRPC metadata |
| transactions | `pkg/postgres/{tx,pool}.go`, `internal/adapters/outbound/postgres/tx_manager.go` | connections of the pool | WithTx: begin, run, commit or roll back | every use case that writes |
| gRPC pipeline | `pkg/grpc`, `internal/adapters/inbound/grpc/errors.go`, the handlers of `proto/gen/go/identity/v1/identity_grpc.pb.go` | health status | recovery, request id, logging, error mapping | wraps every handler |
| GraphQL pipeline | `internal/adapters/inbound/graphql`, with the generated executor and federation code | per request: values, nulls counted, entities, wait groups, errors | dispatch of root fields, resolvers, entity resolution, error mapping | HTTP from the router |
| password hashing | `internal/adapters/outbound/argon2/password_hasher.go` | parameters in each stored hash | Hash, Verify | registration and login |
| lifecycle | `cmd/identity/main.go` | servers, pool, telemetry | start, serve, drain, stop | signals, listener errors |
| logging and telemetry | `pkg/logger`, `pkg/otel` | attributes and groups of a handler, a once-only shutdown | Handle, WithAttrs, WithGroup; Init, shutdown | the context of each request |
| error kinds | `pkg/errors` | none | Is, IsKind, As over wrapped chains | every layer |
| database schema | `services/identity/migrations`, `queries` | tables, unique indexes, foreign keys | | |

What is hard in it:

* **Interleavings.** Handlers run concurrently. Two registrations can be after
  one email, and two refreshes after one token: the second validates a snapshot
  that the first makes stale (`refreshtoken.go:48` reads, `:92` writes, with no
  condition on `revoked_at`).
* **Partial failure.** Every call to the database can fail, a COMMIT can be
  applied although its acknowledgement is lost (`tx.go:39`), a rollback can fail
  too (`tx.go:35`) and a callback can panic (`tx.go:29`).
* **Crashes.** The process may die between any two steps of a call. Nothing is
  recovered at start: what is durable is what PostgreSQL committed.
* **Waiting.** An insert into a unique index waits for the transaction that
  holds the key and an UPDATE waits for the row's lock, with no timeout
  (no `statement_timeout` or `lock_timeout` is set in `pool.go`).
* **Time.** Refresh tokens expire at an instant, checked at one clock read and
  acted on later.
* **Fan-out.** The fields of a GraphQL query and the entities of a federation
  call each run in a goroutine, over a shared list, shared counters and one wait
  group per type; any of them can fail or panic beside the others
  (`generated.go:2523`, `federation.go:103`). Mutation fields must not.
* **Hidden errors.** An error changes form several times on its way out, and what
  it was must neither leak nor be taken for something else (`errors.go`).
* **Stopping.** In-flight calls, the two servers, the pool and telemetry are
  stopped in an order, each against its own deadline (`main.go:186-211`).

What makes each part correct:

* registration: one account per mailbox; the outbox tells of exactly the users
  there are; "ok" means durable, a refusal is final, and a conflict is always
  backed by a committed account; every call ends.
* sessions: rotation is atomic; a replayed token buys nothing and is reported as
  revoked; a refused call writes nothing; a failed rotation does not use the
  token up; every call ends.
* access tokens: a token verifies from its issue to the expiry it advertises and
  not after; tokens of a replaced key are refused once caches expire.
* principal: only the edge's verified claims reach a resolver; self-or-admin.
* transactions: a connection always returns to the pool; nobody waits for a
  connection while holding one.
* GraphQL: a response is null where the schema says so and nowhere else, each null
  has its error, entities stay in their places, and every request is answered.
* logging: a line carries the attributes of its own logger, and the ids of its call
  where they are searched for.
* password hashing: a hash outlives the parameters it was made with.
* lifecycle: after a signal nothing in use is closed; stopping takes a bounded time.

## 2. Plan

In order of importance.

| | module | state |
|---|---|---|
| 1 | `Registration`, with its abstract specification `AccountRegistry` | done |
| 2 | `Sessions` | done |
| 3 | `Registration_proofs`: the safety of registration and the refinement | done |
| 4 | `ConnPool` and `ConnPool_proofs`: the pool under `WithTx` | done |
| 5 | `Lifecycle`: `main.run`, the drain, the deferred calls | done |
| 6 | `AccessTokens`: issue, verify, the router's copy of the key set, the key file, restarts | done |
| 7 | `GrpcPipeline`: order of the interceptors, panics, answers and log lines | done |
| 8 | `Principal`, `ErrorKinds`, `ContextLogger`, `PasswordHash`: the algorithms that the pipelines share | done |
| 9 | `Subgraph`: one GraphQL request, with the executor, federation and the resolvers | done |
| 10 | `AccessTokens_proofs`: the safety of access tokens | done |
| 11 | `SessionRegistry`: chains of tokens, the abstract specification that `Sessions` implements | done |
| 12 | `Sessions_proofs`: the safety of sessions and the refinement | done |
| 13 | `Lifecycle_proofs`: the order of release, the drain, the flush of telemetry | done |
| 14 | `ErrorKinds_proofs`: what wrapping an error changes and what it does not | done |
| 15 | `GrpcPipeline_proofs`: answers, log lines and loggers, for any calls and errors | done |
| 16 | `Subgraph_proofs`: the response, its errors and the effects of mutations, for any operation | done |

How they compose: `Registration` implements `AccountRegistry` and `Sessions`
`SessionRegistry`; `GrpcPipeline`
extends `ErrorKinds`, `Principal` and `ContextLogger`; `Subgraph` extends
`ErrorKinds`, `Principal` and `PasswordHash`. `Subgraph_proofs` and
`GrpcPipeline_proofs` build on `ErrorKinds_proofs`. `ConnPool` is the pool that the
transactions of `Registration` and `Sessions` draw on, seen from the pool.

## 3. How the models read

Each module is one component; its header comment says what it stands for, its
actions carry the names of what the code does, and an operator that begins with
"Mutant of" in its comment is a plausible mistake in that code, kept beside the
definition it would replace: it is used by no specification and documents which
mistake each property is there to catch. `MC*.tla` modules only add the small
sets and the symmetry that TLC needs; `ConnPool` needs neither.

Conventions shared by the modules of the database:

* A handler is its goroutine (`pc`) and the database's side of its transaction
  (`tx`), which advance separately. `tx` is `open` while the connection is
  healthy; `orphaned` once the connection is closed and the database has not
  noticed; `committing` once COMMIT is on its way; then `committed` or
  `aborted`. So a COMMIT can be applied after the client has been told of a
  failure (`tx.go:39`), and a lock outlives the goroutine that took it.
* `uuid.NewV7` and the token generator return fresh values, so the row a call
  inserts is named by the call.
* A statement can fail wherever the code makes a call: the disjuncts of
  `Trouble`. A panic inside the callback takes the path of an error through the
  deferred function of `WithTx`; `ConnPool` keeps the two apart.
* A crash loses every call in flight and closes its connections.

### 3.1 Registration and AccountRegistry

`Registration` is `registeruser.UseCase.Execute` under both handlers.

| code | model |
|---|---|
| `ParseEmail` (`domain/email.go`) | `Normalised`, `IsAddress`: an address is a mailbox, a style (lower, mixed case, padded), a form and whether it is too long; normalising forgets the style |
| `PlainPassword.Validate` | `IsStrong`, on the length |
| `users.Insert` against `idx_users_email` | `InsertUser`, `InsertTaken`: waits (`Blocked`) for an undecided transaction that staged the same address, then finds it `Taken` or not |
| `events.Publish` (`outbox`, a `BIGSERIAL`) | `Publish`: takes a serial that is never given back and stages the row |
| `WithTx` | `BeginTx`, `SendCommit`, `CommitAcked`, `CommitUnsent`, `CommitUnacked`, `Rollback`, `RollbackLost` |
| PostgreSQL | `ServerCommit` (all staged rows at once), `ServerAbort` |
| the GraphQL resolver's second query | `ReadBack`, `ReadBackFails` |

`AccountRegistry` is what is promised: an account and its announcement come into
being in one step; after "ok" the account is there, after a refusal it never
will be, and after "internal" the call is in doubt. `Registration` implements it
(`ImplementsRegistry`) with accounts as the committed users and announcements as
the committed events.

### 3.2 Sessions and SessionRegistry

`loginuser` and `refreshtoken`. A refresh copies the row of the presented token
(`Lookup`, `refreshtoken.go:48`), checks revoked before expired against one clock
read (`Check`), signs (`SignFails` or `BeginRotation`) and then, in a
transaction, revokes (`Revoke`, which waits for the row's lock and matches the
row whatever its `revoked_at` has become since) and inserts (`InsertNext`).
A login's INSERT has no explicit transaction: it is sent, then applied or not.

`replacedByFK` chooses between two descriptions of `refresh_tokens`. FALSE is the
contract that the use case, its fakes and its unit tests are written against:
`replaced_by` is a plain column. TRUE is the schema of the migrations, where it
is a foreign key checked at the end of each statement; there `Revoke`, which
names a row that the next statement inserts, always fails (`RevokeDangles`). The
properties hold of both; what the second one breaks is the finding below.

`SessionRegistry` is what is promised: a refresh examines a token, and if it was
live uses it up and grants its successor in one step; refusals are final, and a
token that was used up is reported as that. Two calls that examine one token before
either uses it up may both succeed, as they do in the code. `Sessions` implements
it (`ImplementsSessions`) with the committed rows as its tokens.

### 3.3 ConnPool

Calls of the handlers over `pgxpool`: `Program` says which queries and
transactions each handler asks for, in order. A connection is `free`, or `held`
by a call; requests for one are served in order of arrival (`queue`). `row` is
the lock of one contended row, standing for the index entry or the token row that
concurrent handlers are after: with a single row, waits for row locks cannot form
a cycle, and neither can they in the code, where a transaction locks one row that
others may want and inserts one of its own. What is asked is whether waits for
rows and waits for connections can. Calls are cyclic: a goroutine that is done may
serve another call, so queues form again and again.

### 3.4 Lifecycle

`main.run`. `Boot` is the table of the start: one entry per function that can fail,
with what it acquires and defers, the socket it opens, and what it undoes when it
fails. `res` is what a deferred call will release (telemetry, the pool); `bound` are
the servers whose listening socket is open, which no deferred call closes: `net.Listen`
opens that of gRPC (`main.go:139`) two steps before anybody serves it, `Serve` closes its
own when it fails, and so do `Shutdown`, `GracefulStop` and `Stop`. Then serving, the `select` of `main.go:184` (either case
when both are ready), `Shutdown` of the HTTP server, the goroutine of
`GracefulStop`, `Stop` at the deadline, and the deferred calls, last in first out.
Each call of a handler is running, in the database or over; its verdict says
whether it was answered, cut off, or refused by a closed pool. Time passes only
while `run` is blocked (`Blocked`), as its own steps take none.

### 3.5 AccessTokens

`Second` ticks make a second: `ExpiresAt` is the instant `Issue` returns,
`ExpClaim` the NumericDate in the token, which drops the fraction. The router is
external and taken to honour the `Cache-Control` that the key set is served with
(`jwks.go:26`). Signatures are ideal: a token verifies with the key that signed
it and no other. `keyFile` is what the configured file holds: the key in PKCS#1 or
PKCS#8, a key of another kind, or nothing readable. Whether a file is configured
is chosen when the system is set up; the operator may then write it anew at any
time (`RewriteKeyFile`). `loadSigningKey` is the set of keys a start may go on
with: it is empty, and the process does not come up, if the file cannot be used;
without a file each start mints a key.

### 3.6 ErrorKinds, Principal, ContextLogger, PasswordHash

Modules without state, used by the two pipelines.

* `ErrorKinds` is `pkg/errors` and the two adapters' `errors.go`. An error is the
  sequence of its links, outermost first: an envelope's kind, or "plain" for
  `fmt.Errorf` and foreign types. `As` finds the outermost envelope
  (`Envelopes` are the links that are one); `ToStatus` and `ToGraphQLError`
  say what the client reads: a code, and as text nothing, a generic sentence or the
  message of the envelope.
* `Principal`: `Forward` is `router.rhai`, `Lift` the GraphQL middleware,
  `CallerFromMetadata` and `CanAccessUser` the gRPC server. The comma-separated list
  of roles is the set of its parts: no code tells apart lists that differ in order
  or in repetitions. The router's check of the token itself is in `AccessTokens`.
* `ContextLogger` is `contextHandler`. A logger has a prefix of an array which
  other loggers may share, as Go slices do, so that appending in place can be told
  from copying (`appendOp`, `logger.go:101`). `Handle` gives the attributes of a
  line, each with the groups that enclose it (a group is told from another of its
  name by the position at which it was opened): what the context knows comes before
  the chain, and so outside every group.
* `PasswordHash`: a hash is its algorithm, version, parameters and key. Two
  parameter sets stand for those of this release and of an earlier one.

### 3.7 GrpcPipeline

The frames of a unary call: the generated handler decodes the request or refuses
it (`RefuseRequest`, one of five alike), then recovery, request id, logging,
handler, and back. `Deny` is `GetUser`'s own check. A request id is one the client
sent or one minted for the call, which the call itself stands for. No handler
derives a logger today; `DeriveAttrs` and `DeriveGroup` let one do what the handler
of `pkg/logger` is written and tested for, at any point of a call and in any order.

### 3.8 Subgraph

One request. `Init` chooses the operation, the token's claims (or none) and the
accounts there are, with hashes of this release, of an earlier one, or unreadable.

| code | model |
|---|---|
| `AuthMiddleware`, `Exec` | `Execute`: the caller is lifted out of the headers and every root field that needs a resolver is dispatched |
| `_Query`, `_Mutation` (`generated.go:2467-2635`) | `Runs` and `InOrder`: fields of a query in any order, of a mutation one after the other; `Finish`: the value is stored, a null counted; `Answer`: null for the whole response if any was |
| `Me`, `RegisterUser`, `LoginUser` | `Me`, `Register`, `ReadBack`, `RefuseRegistration`, `Login`, `RefuseLogin`; the outcomes of the use cases, by the state of the accounts and by what can fail (`GetUser`, `NotRegistered`, `NotLoggedIn`) |
| `__resolve_entities` | `StartEntities`, `ResolveEntity` and `Done` (one goroutine per representation), `GroupsDone`, `MarshalEntities` |
| gqlgen's recovery | `Broken`: an error without a code |

Field values are pairs of a field's name and the account it was read from, so that
a value in the wrong place is seen. A write and its answer are separate: a use case
may have committed and still be reported as failed (`Register`, `Login`); how that
comes about is `Registration` and `Sessions`. `OthersRegister` lets accounts appear
while a request runs. An error of an entity names the representation (`of`), which
on the wire it does not: its path is that of the root field.

`Operation` is any set of operations that the validation of the schema lets through:
each root field is one of its kind of operation, with a selection of its own type
(`Selectable`), and the arguments that the schema declares non-null are there
(`SubgraphAssumption`). `None` and `Null` stand for what is absent and for the JSON
null; that they are no account, list, object or text is `AbsenceAssumption`.

## 4. What TLC checks

Every run takes less than three minutes with two workers.

| run | instance | what it asks |
|---|---|---|
| `Registration.cfg` | 3 requests, 2 mailboxes, 4 spellings (one refused), passwords of 7 and 8 | all the safety properties, the inductive invariant `Inv`, and the refinement of `AccountRegistry` |
| `RegistrationLive.cfg` | 3 requests, 1 mailbox | `EveryCallEnds`: each waits for the others' index entry |
| `Sessions.cfg` | 3 calls of 1 user, lifetime 1, clock up to 2, every fault, both schemas | safety, the inductive invariant `Inv`, the refinement of `SessionRegistry`, and `EveryCallEnds`: rotations wait for each other's row lock |
| `SessionsHealthy.cfg` | 2 calls, no fault, the schema of the migrations | finding 1 |
| `ConnPool.cfg` | 3 calls, 2 connections | conservation, no hold-and-wait, `Inv`, no deadlock, and `EveryCallEnds` |
| `Lifecycle.cfg` | 2 HTTP and 2 gRPC calls, deadline 2 | `DrainedUntilDeadline`, `ReleasedInOrder`, `MetricsHaveTime`, the inductive invariant `Inv`, and `StopEnds` |
| `LifecycleBounded.cfg` | 1 and 1 call, deadline 2 | finding 2 |
| `AccessTokens.cfg` | 2 tokens, 2 ticks to a second, lifetime 3, cache age 2, 3 keys, 8 instants, without a key file and with one that is rewritten | `NeverOverstays`, `OldKeysDie`, `RestartKeepsTokens` |
| `AccessTokensExpiry.cfg` | the same, 5 instants | finding 3 |
| `GrpcPipeline.cfg` | 2 calls, 1 client id, 6 requests (of another method; to `GetUser` with empty metadata for a user and for the empty id, without roles for itself, for another, of an admin), 10 errors, up to 3 derived loggers a call | `AnswerIsHonest`, `TransportsAgree`, `LineIsCorrelated`, `LoggersKeepTheirChain`, `FaultsRaiseErrors` |
| `GrpcPipelineChain.cfg` | 1 call | finding 4 |
| `Subgraph.cfg` | 2 accounts and 1 unknown key; 5 queries and 3 mutations of up to 4 fields and 3 representations; with and without a token | the shape of the response, its errors, the places of entities, the effects of mutations, `EveryRequestIsAnswered` |

What the properties say, in short:

* `OneAccountPerMailbox`, `OneEventPerUser`, `AcceptedIsDurable`,
  `RefusedIsFinal`, `ConflictIsHonest`: see section 1; the last two are about
  undecided transactions, which can still change what a client was told.
* `RotationIsAtomic`: a token is revoked exactly if a replacement for it, of the
  same user, is stored. `ReplayIsReported`: a token rotated before it was looked
  up buys nothing and is reported as revoked even once it has expired.
  `ChainHasNoGap`: no rotation of an expired token. `ImplementsSessions` says more of
  the same: tokens are granted and used up in one step, a revoked one stays revoked,
  nothing stored is lost, and an answer, once given, binds what may still happen;
  the parts of it with a name of their own (`AcceptedIsDurable`,
  `RefusedLeavesNothing`, `RevocationIsPermanent`) are proved.
* `NoLeak`, `NoHoldAndWait`: connections and locks are conserved over errors,
  panics and contexts that end; nobody waits for a connection while holding one.
* `DrainedUntilDeadline`: after a signal and until the deadline, no accepted call
  notices. `ReleasedInOrder`: telemetry and the pool are released on every path,
  the pool first, and a stop on a signal closes both sockets before the pool. The
  sockets have no deferred call, and the property says which paths leave one open: that
  of gRPC when the start fails behind `net.Listen` (`main.go:154-157`), and that of the
  other server, which goes on accepting calls while the pool closes, when a server's error
  ends serving (`main.go:184-186`). The end of the process then closes it. `MetricsHaveTime`: a trace exporter that hangs leaves time for the
  metrics. `StopEnds`: the process ends even if handlers never do.
* `NeverOverstays`, `OldKeysDie`, `RestartKeepsTokens`: no verifier accepts a
  token past its expiry; a dead key's tokens are refused once the cached set is
  too old, and that set hides the new key no longer than that; with a key file a restart ends no session.
* `AnswerIsHonest`, `LineIsCorrelated`, `FaultsRaiseErrors`: "OK" exactly if the
  handler succeeded, nothing of a failure of the service's own in the text, and no
  foreign user for anyone but an admin, nor the empty id for empty metadata; the line of a call is found by the id the
  client holds, at the top level; a line at level error exactly for the service's
  own faults, panics included. `TransportsAgree`: gRPC and GraphQL tell the same of
  an error. `LoggersKeepTheirChain`: no logger writes what was added to another.
* `DataFollowsSchema`: the response is null exactly if a non-null field failed.
  `NullsAreExplained`: each failure has one error and each error one failure.
  `SlotsKeepTheirPlace`: entities answer the representation in their place.
  `MeIsTheSubject`: `me` is the token's subject. `RefusalsChangeNothing`: what was
  written is never reported as a refusal. `EffectsInOrder`: mutations see what those
  before them did. `PasswordsOutliveParameters`: a login is "unauthorized" exactly
  for want of the account or the password.

**Why these bounds are enough.** Three requests are the least number where one
waits for a second that itself was let through by a third (two aborts in a row
hand the index entry on); two mailboxes let an address be free while another is
not. Three calls of `Sessions` are a login and two rotations of its token, or a
chain of two rotations; expiry needs one instant before and one after, and a
chain of two lives a third. Three calls on two connections are two transactions
that contend for the row while a third call waits for a connection, which is
where the pool and the row could block each other; longer queues, and leaving
one from its middle, are covered by the proof. In `Lifecycle` the deadline of 2
makes half of it different from nothing and from all of it, and `MaxTime` lies
beyond the two deadlines together. In `AccessTokens` a lifetime of 3 with 2
ticks to a second puts issue and expiry on either side of a second's boundary,
and 3 keys are the current one, the cached one and one between. In `GrpcPipeline`
three derived loggers are a parent and two siblings, the least number that can
overwrite each other. The operations of `MCSubgraph` put each kind of root field
beside a failing one, representations of several types into one call and of one
type into two calls, and a registration before the login, or the second
registration, that depends on it.

**Deadlock** is checked in `ConnPool`, whose calls are cyclic. Elsewhere a state
with no successor is a proper end: requests are one-shot, the process exits, the
clock is bounded; there `EveryCallEnds` and `StopEnds` say that nothing is stuck
before.

**Fairness.** Goroutines that can run do (Go's scheduler), and one whose
transaction the database has aborted is told so at its next call. The database
decides a transaction whose COMMIT it holds or whose connection is closed; it is
*not* assumed to answer a statement that waits for a lock in bounded time, since
no `statement_timeout` or `lock_timeout` is set (`pool.go:36-43`). Failures are
never forced. In `ConnPool`, strong fairness of `LockRow` stands for PostgreSQL's
queue of waiters on a lock. In `Lifecycle` only `run`, the goroutine of
`GracefulStop`, time, and the end of queries in the database are fair: handlers
may run for ever, as nothing bounds them. In `Subgraph` the goroutines of the
request are fair and each call of a resolver returns or panics: that the use cases
end is the liveness of `Registration`, `Sessions` and `ConnPool`.

## 5. What is proved

The theorems hold for any number of requests, addresses, passwords, calls,
connections, tokens, keys, instants, errors, operations, fields and
representations; the only assumptions are those on the constants
(`InputAssumption`, `SessionAssumption`, `NoneAssumption`, `PoolAssumption`,
`TokenAssumption`, `LifecycleAssumption`, `PipelineAssumption`,
`SubgraphAssumption`, `AbsenceAssumption`), which TLC evaluates on the instances of
the runs. Every invariant and every action property that a passing run checks is
the statement of a theorem.

**Registration.** None of the safety properties is inductive: that no two users
share an address depends on who is waiting in the unique index, which depends on
where each goroutine and each transaction are. `Inv` adds: how far a transaction
can be for each location of its goroutine (`ControlInv`); what a goroutine
remembers (`MemoryInv`: a conflict was decided on a committed account);
that the tables hold exactly the rows of the committed transactions
(`TablesInv`); that a staged row keeps every other one with its address out
(`LockInv`, the heart of the argument); that serials are distinct (`SerialInv`);
and what an answer says of the transaction behind it (`AnswerInv`). There is one
lemma per conjunct, one case per action that disturbs it, then `Invariance`, and
the properties as corollaries: `MailboxUniqueness`, `OutboxAtomicity`,
`Durability`, `Finality`, `Honesty`, `TypeCorrect`. `Refinement` shows that every
step maps to a step of `AccountRegistry` or to a stutter: `ServerCommit` opens
and announces an account, a reply tells, everything else is invisible.

**Sessions.** `Inv` relates the goroutine to its transaction and to the statements it
has executed (`ControlInv`), says what a call remembers of the token it presents:
that it was given out, whose it is, that its check was passed in time, and that a
token seen revoked stays so and gets its call nowhere (`MemoryInv`), that the rows
are those of the committed transactions and a revoked one leads to its replacement
(`TablesInv`), and what an answer says of the transaction (`AnswerInv`). The
difficulty is that a presented row is read outside the transaction: what is true
of it then must survive every later step of others. `SessionInvariance` gives
`Atomicity`, `ReplayDetection`, `ChainContinuity`, `TokensAreStored`,
`RefusalsAreFinal` and `Permanence`. `SessionRefinement`: a lookup is the registry's
examination of a token, the commit of a login or of a rotation is its grant, a reply
tells, and everything else is invisible. It holds for both schemas and whatever
number of calls rotate one token.

**ConnPool.** `PoolInvariance` shows `Inv` = `TypeOK`, `NoLeak`, `NoHoldAndWait`
and `WaitInv` (who is in the queue waits, who waits knows for what, the holder of
the row has a transaction). Three lemmas say what leaving the middle, leaving the
head and joining the tail do to a queue without repetition. `Conservation` and
`AcquisitionOrder` follow.

**AccessTokens.** What the router may accept depends on keys that are gone. `KeyInv`
adds to the types that keys are minted in order, that a cached key other than the
current one was fetched before its last process stopped (`FetchedInUse`), and that
with a key file there is one key only (`OneKey`). `OldKeysAreRefused` and
`RestartsKeepTokens` follow from it; `ExpiryIsRespected` needs only the types and
that a whole number of seconds is never later than the instant it was cut from
(`WholeSeconds`).

**Lifecycle.** `Inv` says what `run` holds and has deferred at each stage of its
start, of its stop and of the deferred calls (`HeldInv`), why it is there and how
far the goroutine of `GracefulStop` can be (`CauseInv`), which sockets are open and that
a stop on a signal leaves none (`SocketInv`), that a server told to stop
accepts nothing and that before the deadline `run` goes on only when the calls of
the server have ended (`DrainInv`), and that the flush of the traces keeps to half
of the deadline (`TimeInv`). `LifecycleInvariance` is for any calls, any grace
period and a failure at any entry of `Boot`. `ReleaseOrder` follows from
`HeldInv` and `SocketInv`.
`GracefulDrain` and `MetricsAreFlushed` are about steps: a step that closes what a
call may be using is one of `run` past `grpc`, where `DrainInv` leaves no call.

**Error kinds.** `As` looks for the first envelope of an error of any length; it is a
minimum over positions and not a recursion, so that it can be reasoned about
(`AsOutermost`, `AsNone`). `WrappingKeepsTheAnswer`: an error that a layer wraps with
`fmt.Errorf` is told to the clients of both APIs as if it were not.
`EnvelopeDecides`: an envelope hides the kind of whatever it is put around.

**gRPC pipeline.** `Inv` says of each call where it is in the frames, with the failure
and the status that explain it (`EndOf`), that from its interceptor on the id is that
of the client or its own (`IdOf`), that each logger its handler has derived finds in
the shared arrays what it was made with (`ChainOf`, the heart of the argument: a
longer array belongs to no one else's prefix), and that the log is exactly the lines
of the calls that are over (`LogInv`). A line is known by its call, so the
properties of the log become properties of one call. `HonestAnswers`,
`AgreeingTransports`, `FaultsAreErrors` and `CorrelatedLines` follow, for errors of any
length and any number of calls; `ChainsAreKept` for any number of derived loggers.

**Subgraph.** What a response says depends on what every goroutine has done by then.
`Inv` relates them: the caller is that of the claims, and each stored hash that can be
read was made with the parameters it names (`CallerInv`); a root field that has begun
in a mutation has only finished ones before it (`FieldOf`); a value is null exactly if
the field has one error of its own (`ValueOf`); a slot of the shared list holds the
account of its representation, or its goroutine has left one error (`TaskOf`); each
wait group counts the goroutines of its type that are not yet done (`WaitInv`, which
is what lets `GroupsDone` mean that all slots are settled); and the nulls counted are
those of fields that may not be null (`NullInv`). `RegisteredInv` adds that the
account of a committed registration has the hash of the password asked for. The
steps are first brought into a few kinds (`Kinds`): a field ends with a value or
with null and an error (`Ends`), with what its use case has written (`Wrote`) and what
it may answer (`Outcome`, one lemma per resolver). There is then one lemma per part of
the invariant, one case per kind. `SubgraphInvariance` gives `ResponseFollowsSchema`,
`OneErrorPerNull` and `SlotsByPosition`. `MeIsTheCaller`, `RefusalsAreClean`,
`MutationsAreSerial` and `PasswordsOutlive` are inductive relative to it: the value and
the errors of a field change only in the step in which it ends (`Progress`), and a
commit is that of the field's own use case (`Commits`).

The inductive invariants of `GrpcPipeline` and of `Subgraph` are proved and are not
listed in a configuration; TLC finds no violation of them on the instances of
`GrpcPipeline.cfg` and `Subgraph.cfg` either.

**Model-checked only:** liveness (`EveryCallEnds`, `StopEnds`,
`EveryRequestIsAnswered`), as TLAPS has no support for fairness and ENABLED, and the
four runs that show a disagreement. No theorem needs an induction over data: what
the models compute over sequences is said by quantifiers over positions.

## 6. Where code and documentation disagree

1. *Every refresh fails on the migrated schema* (`SessionsHealthy.cfg`).
   `refreshtoken.go:92` sets `replaced_by` to the id of a row that line 95 inserts
   afterwards; `migrations/00002_refresh_tokens.up.sql:8` makes it a foreign key
   that is not deferrable. The unit tests run on fakes without the constraint and
   the repository's test inserts the replacement first.
2. *Stopping is not bounded* (`LifecycleBounded.cfg`). `main.go:3-5` promises "a
   bounded graceful shutdown"; the deferred `pool.Close` of line 105 waits, with no
   deadline, for an HTTP handler that `Shutdown` left behind in a query.
3. *A token expires before its advertised expiry* (`AccessTokensExpiry.cfg`), by
   less than a second: `token.go:51` returns the instant that the NumericDate of
   line 38 has truncated.
4. *The chain of an internal error is logged nowhere* (`GrpcPipelineChain.cfg`).
   `errors.go:11-12` of the gRPC adapter says the logging interceptor has logged
   it; the interceptor gets the status that replaced it.

## 7. What is not modelled, and why

* Two hazards are covered only as far as the code goes: a client that repeats a
  registration whose answer it lost is told the address is taken, by itself
  (`idempotency_keys` is used by no code); and a lost acknowledgement of a rotation
  leaves its client with a revoked token.
* Two overlapping refreshes of one token both pass the check and fork the session
  (`refreshtoken.go:48` and `:92`): the model without the foreign key has these
  behaviours, and no property forbids what the code does not prevent.
* That an internal error of a GraphQL resolver is logged nowhere (`errors.go:17` of that
  adapter): nothing in the repository says that it is, and the model of the subgraph has
  no log.
* Of the GraphQL executor: the fields of the introspection types (one value stands
  for each), query complexity (no limit is configured), `@defer` (the only transport
  is POST, which does not deliver deferred parts), fragments and aliases (a root
  field is one entry of the collected selection), the `Entity` object with its
  `findUserByID` field (`generated.go:2403`; no type of the schema leads to it), and
  resolvers of many entities at once (`isMulti` is false of every type).
* Of password hashing: salts, base64 and the derivation itself; of refresh tokens:
  that random strings differ.
* The `Is` of `pkg/errors`, which compares kinds only, has no caller in the service.
* That an access token whose roles do not parse is refused (`token_parser.go:26-33`): the
  service signs roles that it has itself parsed (`mapping.go:37`), so within one release
  none does.
* The relay of the outbox, change of email and mass revocation have no code that
  runs them. Configuration is read once and has no state. Cryptography, the
  messages generated from the protobuf sources (plain data), the smoke test and the
  local stack are outside what these models can say.
