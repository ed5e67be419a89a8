------------------------------ MODULE ConnPool ------------------------------
(***************************************************************************)
(* The connections of the identity service: handlers run their queries and *)
(* transactions (pkg/postgres.WithTx) over one bounded pool.  A query      *)
(* borrows a connection for itself, a transaction for as long as its       *)
(* callback runs; inside a callback the repositories are bound to the      *)
(* transaction, so they borrow none.  Transactions also wait for each      *)
(* other's row: one contended row stands for the unique index entry or the *)
(* token row that concurrent handlers are after.                           *)
(***************************************************************************)
EXTENDS Naturals, SequencesExt

CONSTANTS
    Call,        \* the goroutines of handlers, each serving one call after another
    Conn,        \* the connections of the pool, MaxConns of them
    None         \* no call

ASSUME PoolAssumption == Conn # {} /\ None \notin Call

\* What each handler asks of the pool, in order.
Program ==
    [register        |-> <<"tx">>,
     registerGraphQL |-> <<"tx", "query">>,
     login           |-> <<"query", "query">>,
     refresh         |-> <<"query", "query", "tx">>,
     getUser         |-> <<"query">>]

VARIABLES
    at,      \* where each call is
    todo,    \* what it has still to ask of the pool
    held,    \* the connections it holds
    free,    \* the connections nobody holds
    queue,   \* the calls waiting for a connection, in order of arrival
    row      \* the call whose transaction has locked the contended row

vars == <<at, todo, held, free, queue, row>>

Place == {"done", "between", "waiting", "query", "tx", "locked", "failed", "panicked"}

TypeOK ==
    /\ at \in [Call -> Place]
    /\ todo \in [Call -> Seq({"tx", "query"})]
    /\ held \in [Call -> SUBSET Conn]
    /\ free \in SUBSET Conn
    /\ queue \in Seq(Call) /\ IsInjective(queue)
    /\ row \in Call \cup {None}

Init ==
    /\ at = [c \in Call |-> "done"]
    /\ todo = [c \in Call |-> <<>>]
    /\ held = [c \in Call |-> {}]
    /\ free = Conn
    /\ queue = <<>>
    /\ row = None

-----------------------------------------------------------------------------
Goto(c, p) == at' = [at EXCEPT ![c] = p]

\* c gets a connection.
Take(c) ==
    \E k \in free :
        /\ held' = [held EXCEPT ![c] = @ \cup {k}]
        /\ free' = free \ {k}

\* What it holds goes back, and with it the lock of its transaction.  (A broken
\* connection is closed, and makes room for a new one.)
GiveBack(c) ==
    /\ held' = [held EXCEPT ![c] = {}]
    /\ free' = free \cup held[c]
    /\ row' = IF row = c THEN None ELSE row

\* The handler goes on with what it has to ask next, or returns an error.
GoOn(c) ==
    \/ Goto(c, "between") /\ todo' = [todo EXCEPT ![c] = Tail(@)]
    \/ Goto(c, "done") /\ UNCHANGED todo

Arrive(c, kind) ==
    /\ at[c] = "done"
    /\ Goto(c, "between")
    /\ todo' = [todo EXCEPT ![c] = Program[kind]]
    /\ UNCHANGED <<held, free, queue, row>>

\* A free connection is handed out at once if nobody is waiting for one.
Acquire(c) ==
    /\ at[c] = "between" /\ todo[c] # <<>>
    /\ queue = <<>>
    /\ Goto(c, Head(todo[c]))
    /\ Take(c)
    /\ UNCHANGED <<todo, queue, row>>

Enqueue(c) ==
    /\ at[c] = "between" /\ todo[c] # <<>>
    /\ free = {} \/ queue # <<>>
    /\ Goto(c, "waiting")
    /\ queue' = Append(queue, c)
    /\ UNCHANGED <<todo, held, free, row>>

\* The longest waiting call gets the next connection that is free.
Grant(c) ==
    /\ queue # <<>> /\ Head(queue) = c
    /\ Goto(c, Head(todo[c]))
    /\ Take(c)
    /\ queue' = Tail(queue)
    /\ UNCHANGED <<todo, row>>

\* Mutant of GiveUp: a call that gives up stays in the queue.
GiveUpQueued(c) ==
    /\ at[c] = "waiting"
    /\ Goto(c, "done")
    /\ UNCHANGED <<todo, held, free, queue, row>>

\* The request's context ends while it waits.
GiveUp(c) ==
    /\ at[c] = "waiting"
    /\ Goto(c, "done")
    /\ \E i \in DOMAIN queue : queue[i] = c /\ queue' = RemoveAt(queue, i)
    /\ UNCHANGED <<todo, held, free, row>>

QueryEnds(c) ==
    /\ at[c] = "query"
    /\ GiveBack(c)
    /\ GoOn(c)
    /\ UNCHANGED queue

-----------------------------------------------------------------------------
\* Mutant of LockRow: the callback's repositories are bound to the pool, and
\* the statement waits for a connection of its own.
LockRowOnPool(c) ==
    /\ at[c] = "tx" /\ row = None
    /\ IF queue = <<>> /\ free # {}
       THEN Goto(c, "locked") /\ Take(c) /\ row' = c /\ UNCHANGED queue
       ELSE Goto(c, "waiting") /\ queue' = Append(queue, c) /\ UNCHANGED <<held, free, row>>
    /\ UNCHANGED todo

\* The callback's statement locks the row, on the transaction's own connection;
\* until it can, the call stays where it is.
LockRow(c) ==
    /\ at[c] = "tx" /\ row = None
    /\ row' = c
    /\ Goto(c, "locked")
    /\ UNCHANGED <<todo, held, free, queue>>

\* BEGIN or a statement of the callback fails, its context ends, or it panics.
CallbackFails(c) ==
    /\ at[c] \in {"tx", "locked"}
    /\ Goto(c, "failed") \/ Goto(c, "panicked")
    /\ UNCHANGED <<todo, held, free, queue, row>>

\* COMMIT succeeds, or fails and the connection is closed; either way the
\* transaction is over.
Commit(c) ==
    /\ at[c] = "locked"
    /\ GiveBack(c)
    /\ GoOn(c)
    /\ UNCHANGED queue

\* Mutant of Rollback: a panicking callback is not rolled back.
RollbackNoPanic(c) ==
    /\ at[c] \in {"failed", "panicked"}
    /\ IF at[c] = "failed" THEN GiveBack(c) ELSE UNCHANGED <<held, free, row>>
    /\ Goto(c, "done")
    /\ UNCHANGED <<todo, queue>>

\* The deferred function rolls back, on an error as on a panic, and the handler
\* returns the error or has the panic recovered above it.
Rollback(c) ==
    /\ at[c] \in {"failed", "panicked"}
    /\ GiveBack(c)
    /\ Goto(c, "done")
    /\ UNCHANGED <<todo, queue>>

Finish(c) ==
    /\ at[c] = "between" /\ todo[c] = <<>>
    /\ Goto(c, "done")
    /\ UNCHANGED <<todo, held, free, queue, row>>

-----------------------------------------------------------------------------
\* What a call does by itself; giving up and failing are not up to it.
Work(c) ==
    \/ Acquire(c) \/ Enqueue(c) \/ Grant(c) \/ QueryEnds(c)
    \/ LockRow(c) \/ Commit(c) \/ Rollback(c) \/ Finish(c)

Next ==
    \E c \in Call :
        \/ \E kind \in DOMAIN Program : Arrive(c, kind)
        \/ Work(c) \/ GiveUp(c) \/ CallbackFails(c)

Spec == Init /\ [][Next]_vars

\* Goroutines run, and of the transactions waiting for the row none is passed
\* over for ever (PostgreSQL queues them).
FairSpec == Spec /\ \A c \in Call : WF_vars(Work(c)) /\ SF_vars(LockRow(c))

-----------------------------------------------------------------------------
\* Connections are neither lost, nor made up, nor shared: each is free or held
\* by one call; and a call that is asking for nothing, or that ended by an
\* answer, an error or a panic, keeps none and no lock either.
NoLeak ==
    /\ \A k \in Conn : k \in free <=> \A c \in Call : k \notin held[c]
    /\ \A c, d \in Call : c # d => held[c] \cap held[d] = {}
    /\ \A c \in Call : at[c] \in {"done", "between"} => held[c] = {} /\ row # c

\* Nobody waits for a connection while holding one or a lock, so that with any
\* number of calls on any pool the pool and the row locks do not block each other.
NoHoldAndWait ==
    \A c \in Call : at[c] = "waiting" => held[c] = {} /\ row # c

\* Who is in the queue waits; who waits or has borrowed knows what for; and the
\* lock of the row is held by a transaction that has it.
WaitInv ==
    /\ \A i \in DOMAIN queue : at[queue[i]] = "waiting"
    /\ \A c \in Call : at[c] \notin {"done", "between"} => todo[c] # <<>>
    /\ \A c \in Call : row = c => at[c] \in {"locked", "failed", "panicked"}

\* The inductive invariant: what the pool and the row look like between steps.
Inv == TypeOK /\ NoLeak /\ NoHoldAndWait /\ WaitInv

\* Every call ends, however small the pool and however contended the row.
EveryCallEnds == \A c \in Call : at[c] = "between" ~> at[c] = "done"
=============================================================================
