----------------------------- MODULE Lifecycle -----------------------------
(***************************************************************************)
(* main.run of the identity service: it starts telemetry, the pool and two *)
(* servers, serves until a signal or a listener's error, drains the        *)
(* servers on one deadline and unwinds its deferred calls.  Handlers run   *)
(* meanwhile and use the pool.  Time passes only while run is blocked: its *)
(* own steps are quick.                                                    *)
(***************************************************************************)
EXTENDS Naturals, SequencesExt

CONSTANTS
    Http, Grpc,    \* the calls each server may get
    Timeout,       \* cfg.ShutdownTimeout
    MaxTime        \* bound of the model: time is counted up to here

ASSUME LifecycleAssumption ==
    /\ Http \cap Grpc = {}
    /\ Timeout \in Nat \ {0} /\ MaxTime \in Nat /\ MaxTime > 2 * Timeout

Call == Http \cup Grpc
Server(c) == IF c \in Http THEN "http" ELSE "grpc"

VARIABLES
    stage,     \* where run is
    defers,    \* its deferred calls that release something, the last one first to run
    res,       \* what was acquired for a deferred call to release, and is not released yet
    bound,     \* the servers whose listening socket is open: no deferred call closes one
    cause,     \* what ended the start, or serving
    signal,    \* a termination signal has arrived
    broken,    \* the servers whose error is in serveErr
    drain,     \* the goroutine of GracefulStop
    elapsed,   \* time since run began to stop
    since,     \* when the shutdown of telemetry began
    phase,     \* what each call is doing
    verdict    \* how it ended, or how it is bound to

vars == <<stage, defers, res, bound, cause, signal, broken, drain, elapsed, since, phase, verdict>>
main == <<stage, defers, res, cause, drain, elapsed, since>>
calls == <<phase, verdict>>

\* The steps of the start: what each acquires and defers, the socket it opens, and
\* what it undoes when it fails.  A step with none of these only fails or goes on.
Then(next) == [next |-> next, gets |-> {}, undoes |-> {}, defers |-> <<>>, binds |-> {}]

buildResource == Then("traceExporter")
pickTraceExporter == [Then("metricReader") EXCEPT !.gets = {"traces"}]
pickMetricReader ==
    [Then("pool") EXCEPT !.gets = {"metrics"}, !.undoes = {"traces"}, !.defers = <<"telemetry">>]
OpenPool == [Then("ping") EXCEPT !.gets = {"pool"}]
Ping == [Then("key") EXCEPT !.undoes = {"pool"}, !.defers = <<"pool">>]
Key == Then("listen")
Listen == [Then("jwks") EXCEPT !.binds = {"grpc"}]

\* The last step that can fail; then both servers begin to serve, and the HTTP server
\* opens its own socket.
RenderKeySet == [Then("serving") EXCEPT !.binds = {"http"}]

Boot ==
    [resource |-> buildResource, traceExporter |-> pickTraceExporter,
     metricReader |-> pickMetricReader, pool |-> OpenPool, ping |-> Ping,
     key |-> Key, listen |-> Listen, jwks |-> RenderKeySet]

\* The servers that accept calls: before serving, and after a start that failed, a
\* socket that is open is served by nobody.
Open == IF stage \in DOMAIN Boot \cup {"exited"} \/ cause = "startErr" THEN {} ELSE bound

Live(server) == {c \in Call : Server(c) = server /\ phase[c] \in {"running", "inDB"}}
InDB == {c \in Call : phase[c] = "inDB"}

TypeOK ==
    /\ stage \in DOMAIN Boot \cup {"serving", "http", "grpc", "unwind", "closing",
                                   "traces", "metrics", "exited"}
    /\ defers \in {<<>>, <<"telemetry">>, <<"telemetry", "pool">>}
    /\ res \subseteq {"traces", "metrics", "pool"}
    /\ cause \in {"none", "signal", "serveErr", "startErr"}
    /\ signal \in BOOLEAN
    /\ broken \subseteq {"http", "grpc"} /\ bound \subseteq {"http", "grpc"}
    /\ drain \in {"no", "asked", "draining", "done"}
    /\ elapsed \in 0 .. MaxTime /\ since \in 0 .. MaxTime
    /\ phase \in [Call -> {"none", "running", "inDB", "ended"}]
    /\ verdict \in [Call -> {"none", "ok", "cut", "poolClosed"}]

Init ==
    /\ stage = "resource"
    /\ defers = <<>>
    /\ res = {}
    /\ cause = "none"
    /\ signal = FALSE
    /\ broken = {} /\ bound = {}
    /\ drain = "no"
    /\ elapsed = 0 /\ since = 0
    /\ phase = [c \in Call |-> "none"]
    /\ verdict = [c \in Call |-> "none"]

-----------------------------------------------------------------------------
(* The start. *)

BootStep ==
    /\ stage \in DOMAIN Boot
    /\ stage' = Boot[stage].next
    /\ res' = res \cup Boot[stage].gets
    /\ defers' = defers \o Boot[stage].defers
    /\ bound' = bound \cup Boot[stage].binds
    /\ UNCHANGED <<cause, signal, broken, drain, elapsed, since, calls>>

\* Mutant of BootFails: what the failing function has built stays behind.
BootFailsLeaks ==
    /\ stage \in DOMAIN Boot
    /\ stage' = "unwind" /\ cause' = "startErr"
    /\ UNCHANGED <<defers, res, bound, signal, broken, drain, elapsed, since, calls>>

\* The socket of a start that fails after Listen is left to the end of the process.
BootFails ==
    /\ stage \in DOMAIN Boot
    /\ stage' = "unwind" /\ cause' = "startErr"
    /\ res' = res \ Boot[stage].undoes
    /\ UNCHANGED <<defers, bound, signal, broken, drain, elapsed, since, calls>>

-----------------------------------------------------------------------------
(* Serving. *)

\* Further signals change nothing: the handler of the first stays in place.
SignalArrives ==
    /\ ~signal /\ stage # "exited"
    /\ signal' = TRUE
    /\ UNCHANGED <<main, bound, broken, calls>>

\* Serve of one server closes its socket and returns an error; the other one goes on.
ServeFails(server) ==
    /\ server \in Open
    /\ broken' = broken \cup {server}
    /\ bound' = bound \ {server}
    /\ UNCHANGED <<main, signal, calls>>

Accept(c) ==
    /\ phase[c] = "none" /\ Server(c) \in Open
    /\ phase' = [phase EXCEPT ![c] = "running"]
    /\ UNCHANGED <<main, signal, bound, broken, verdict>>

\* A handler asks the pool for a connection: a closing pool refuses, and so does
\* any pool when the context of the call is cancelled.
Acquire(c) ==
    /\ phase[c] = "running"
    /\ IF "pool" \in res /\ stage # "closing" /\ verdict[c] = "none"
       THEN phase' = [phase EXCEPT ![c] = "inDB"] /\ UNCHANGED verdict
       ELSE /\ phase' = [phase EXCEPT ![c] = "ended"]
            /\ verdict' = [verdict EXCEPT ![c] = IF @ = "none" THEN "poolClosed" ELSE @]
    /\ UNCHANGED <<main, signal, bound, broken>>

Release(c) ==
    /\ phase[c] = "inDB"
    /\ phase' = [phase EXCEPT ![c] = "running"]
    /\ UNCHANGED <<main, signal, bound, broken, verdict>>

Answer(c) ==
    /\ phase[c] = "running"
    /\ phase' = [phase EXCEPT ![c] = "ended"]
    /\ verdict' = [verdict EXCEPT ![c] = IF @ = "none" THEN "ok" ELSE @]
    /\ UNCHANGED <<main, signal, bound, broken>>

-----------------------------------------------------------------------------
(* Draining.  select takes either case when both are ready. *)

SeeServeErr ==
    /\ stage = "serving" /\ broken # {}
    /\ stage' = "unwind" /\ cause' = "serveErr"
    /\ UNCHANGED <<defers, res, bound, signal, broken, drain, elapsed, since, calls>>

\* httpServer.Shutdown closes the listener at once and then waits.
SeeSignal ==
    /\ stage = "serving" /\ signal
    /\ stage' = "http" /\ cause' = "signal"
    /\ bound' = bound \ {"http"}
    /\ UNCHANGED <<defers, res, signal, broken, drain, elapsed, since, calls>>

\* Mutant of HttpShutdown: waits with no deadline.
HttpShutdownUnbounded ==
    /\ stage = "http" /\ Live("http") = {}
    /\ stage' = "grpc" /\ drain' = "asked"
    /\ UNCHANGED <<defers, res, bound, cause, signal, broken, elapsed, since, calls>>

\* It returns when the calls have ended or at the deadline; handlers that are
\* late run on, undisturbed.
HttpShutdown ==
    /\ stage = "http" /\ (Live("http") = {} \/ elapsed >= Timeout)
    /\ stage' = "grpc" /\ drain' = "asked"
    /\ UNCHANGED <<defers, res, bound, cause, signal, broken, elapsed, since, calls>>

GracefulStopBegins ==
    /\ drain = "asked" /\ stage # "exited"
    /\ drain' = "draining"
    /\ bound' = bound \ {"grpc"}
    /\ UNCHANGED <<stage, defers, res, cause, signal, broken, elapsed, since, calls>>

GracefulStopEnds ==
    /\ drain = "draining" /\ Live("grpc") = {} /\ stage # "exited"
    /\ drain' = "done"
    /\ UNCHANGED <<stage, defers, res, bound, cause, signal, broken, elapsed, since, calls>>

SeeStopped ==
    /\ stage = "grpc" /\ drain = "done"
    /\ stage' = "unwind"
    /\ UNCHANGED <<defers, res, bound, cause, signal, broken, drain, elapsed, since, calls>>

\* Mutant of ForceStop: Stop right after the HTTP server, without draining.
ForceStopAtOnce ==
    /\ stage = "grpc"
    /\ stage' = "unwind"
    /\ bound' = bound \ {"grpc"}
    /\ verdict' = [c \in Call |-> IF c \in Live("grpc") THEN "cut" ELSE verdict[c]]
    /\ UNCHANGED <<defers, res, cause, signal, broken, drain, elapsed, since, phase>>

\* Stop closes the connections of the RPCs and cancels their contexts; it does
\* not wait for their handlers.
ForceStop ==
    /\ stage = "grpc" /\ elapsed >= Timeout
    /\ stage' = "unwind"
    /\ bound' = bound \ {"grpc"}
    /\ verdict' = [c \in Call |-> IF c \in Live("grpc") THEN "cut" ELSE verdict[c]]
    /\ UNCHANGED <<defers, res, cause, signal, broken, drain, elapsed, since, phase>>

-----------------------------------------------------------------------------
(* The deferred calls, and the end. *)

\* Mutant of Unwind: the deferred calls run in the order they were deferred in.
UnwindInOrder ==
    /\ stage = "unwind" /\ defers # <<>>
    /\ defers' = Tail(defers)
    /\ IF Head(defers) = "pool"
       THEN stage' = "closing" /\ UNCHANGED since
       ELSE stage' = "traces" /\ since' = elapsed
    /\ UNCHANGED <<res, bound, cause, signal, broken, drain, elapsed, calls>>

Unwind ==
    /\ stage = "unwind" /\ defers # <<>>
    /\ defers' = Front(defers)
    /\ IF Last(defers) = "pool"
       THEN stage' = "closing" /\ UNCHANGED since
       ELSE stage' = "traces" /\ since' = elapsed
    /\ UNCHANGED <<res, bound, cause, signal, broken, drain, elapsed, calls>>

\* Close returns when every connection has been given back.
PoolClosed ==
    /\ stage = "closing" /\ InDB = {}
    /\ stage' = "unwind" /\ res' = res \ {"pool"}
    /\ UNCHANGED <<defers, bound, cause, signal, broken, drain, elapsed, since, calls>>

TracesFlushed ==
    /\ stage = "traces"
    /\ stage' = "metrics" /\ res' = res \ {"traces"}
    /\ UNCHANGED <<defers, bound, cause, signal, broken, drain, elapsed, since, calls>>

MetricsFlushed ==
    /\ stage = "metrics"
    /\ stage' = "unwind" /\ res' = res \ {"metrics"}
    /\ UNCHANGED <<defers, bound, cause, signal, broken, drain, elapsed, since, calls>>

\* The process ends, and whatever still runs in it.
Exit ==
    /\ stage = "unwind" /\ defers = <<>>
    /\ stage' = "exited"
    /\ phase' = [c \in Call |-> IF phase[c] = "none" THEN "none" ELSE "ended"]
    /\ verdict' = [c \in Call |-> IF phase[c] # "none" /\ verdict[c] = "none"
                                  THEN "cut" ELSE verdict[c]]
    /\ UNCHANGED <<defers, res, bound, cause, signal, broken, drain, elapsed, since>>

-----------------------------------------------------------------------------
\* Mutant of TracesUntil: the trace provider gets the whole deadline.
TracesUntilDeadline == since + Timeout

\* The trace provider gets half of the time that telemetry has.
TracesUntil == since + Timeout \div 2

\* run waits for something that takes time.
Blocked ==
    \/ stage = "http" /\ Live("http") # {} /\ elapsed < Timeout
    \/ stage = "grpc" /\ drain = "draining" /\ Live("grpc") # {} /\ elapsed < Timeout
    \/ stage = "closing" /\ InDB # {}
    \/ stage = "traces" /\ elapsed < TracesUntil
    \/ stage = "metrics" /\ elapsed < since + Timeout

Tick ==
    /\ Blocked /\ elapsed < MaxTime
    /\ elapsed' = elapsed + 1
    /\ UNCHANGED <<stage, defers, res, bound, cause, signal, broken, drain, since, calls>>

Run ==
    \/ BootStep \/ SeeServeErr \/ SeeSignal \/ HttpShutdown \/ SeeStopped \/ ForceStop
    \/ Unwind \/ PoolClosed \/ TracesFlushed \/ MetricsFlushed \/ Exit

Next ==
    \/ Run \/ BootFails \/ Tick
    \/ GracefulStopBegins \/ GracefulStopEnds
    \/ SignalArrives
    \/ \E server \in {"http", "grpc"} : ServeFails(server)
    \/ \E c \in Call : Accept(c) \/ Acquire(c) \/ Release(c) \/ Answer(c)

Spec == Init /\ [][Next]_vars

\* Goroutines run, time passes, and the database ends what it was asked to do.
\* Nothing is assumed of the handlers: a call may take for ever.
FairSpec ==
    /\ Spec
    /\ WF_vars(Run) /\ WF_vars(Tick)
    /\ WF_vars(GracefulStopBegins) /\ WF_vars(GracefulStopEnds)
    /\ \A c \in Call : WF_vars(Release(c))

-----------------------------------------------------------------------------
\* After a signal every call that was accepted is answered as if nothing had
\* happened, until the deadline: none is cut off, and none finds the pool closed
\* or telemetry gone.
DrainedUntilDeadline ==
    [][cause' = "signal" /\ elapsed' < Timeout =>
          \A c \in Call :
              /\ verdict'[c] # verdict[c] => verdict'[c] = "ok"
              /\ phase'[c] = "ended" /\ phase[c] # "ended" => {"traces", "metrics"} \subseteq res]_vars

\* What the deferred calls stand for is released by the end, however far the start
\* got, and the pool, whose queries are traced, never outlives telemetry.  The sockets
\* have no deferred call.  A stop on a signal closes both before the pool; a socket
\* that is still open when the pool closes, and at the end of the process, is that of
\* gRPC after a start that failed behind it, or that of the server that goes on when
\* the other one's error has ended serving.
ReleasedInOrder ==
    /\ stage = "exited" => res = {}
    /\ "pool" \in res => {"traces", "metrics"} \subseteq res
    /\ stage \in {"closing", "exited"} /\ bound # {} =>
           \/ cause = "startErr" /\ bound = {"grpc"}
           \/ cause = "serveErr" /\ broken # {} /\ broken \cap bound = {}

\* A trace exporter that hangs leaves time for the metrics.
MetricsHaveTime ==
    [][stage = "traces" /\ stage' = "metrics" => elapsed < since + Timeout]_vars

-----------------------------------------------------------------------------
(* The inductive invariant. *)

Telemetry == {"traces", "metrics"}
Acquired == Telemetry \cup {"pool"}

\* What run holds, and has deferred the release of, where it is.
HeldInv ==
    /\ stage \in {"resource", "traceExporter"} => defers = <<>> /\ res = {}
    /\ stage = "metricReader" => defers = <<>> /\ res = {"traces"}
    /\ stage = "pool" => defers = <<"telemetry">> /\ res = Telemetry
    /\ stage \in {"ping", "closing"} => defers = <<"telemetry">> /\ res = Acquired
    /\ stage \in {"key", "listen", "jwks", "serving", "http", "grpc"} =>
           defers = <<"telemetry", "pool">> /\ res = Acquired
    /\ stage = "unwind" =>
           \/ defers = <<>> /\ res = {}
           \/ defers = <<"telemetry">> /\ res = Telemetry
           \/ defers = <<"telemetry", "pool">> /\ res = Acquired
    /\ stage = "traces" => defers = <<>> /\ res = Telemetry
    /\ stage = "metrics" => defers = <<>> /\ res = {"metrics"}
    /\ stage = "exited" => defers = <<>> /\ res = {}

\* Why run is where it is, and how far the goroutine of GracefulStop can be.
CauseInv ==
    /\ stage \in DOMAIN Boot \cup {"serving"} <=> cause = "none"
    /\ stage \in {"http", "grpc"} => cause = "signal"
    /\ stage \in DOMAIN Boot \cup {"serving", "http"} => drain = "no"

\* The sockets: those of the start are opened one by one, a server whose error is in
\* serveErr has closed its own, and a stop on a signal leaves none.
SocketInv ==
    /\ stage \in DOMAIN Boot => broken = {} /\ bound = IF stage = "jwks" THEN {"grpc"} ELSE {}
    /\ broken \cap bound = {}
    /\ cause = "startErr" => bound \subseteq {"grpc"}
    /\ cause = "serveErr" => broken # {}
    /\ cause = "signal" => /\ "http" \notin bound
                           /\ stage \notin {"http", "grpc"} => bound = {}

\* A server that was told to stop accepts no calls; before the deadline run goes
\* on only when those of the server have ended.
DrainInv ==
    /\ drain \in {"draining", "done"} => "grpc" \notin bound
    /\ drain = "done" => Live("grpc") = {}
    /\ cause = "signal" /\ elapsed < Timeout =>
           /\ stage # "http" => Live("http") = {}
           /\ stage \notin {"http", "grpc"} => drain = "done"
    /\ \A c \in Call : phase[c] = "ended" => verdict[c] # "none"

\* The trace provider is given up at its own deadline.
TimeInv == stage = "traces" => elapsed <= TracesUntil

Inv == TypeOK /\ HeldInv /\ CauseInv /\ SocketInv /\ DrainInv /\ TimeInv

-----------------------------------------------------------------------------
\* A process told to stop, or whose listener failed, or that failed to start,
\* ends, even if handlers never do.
StopEnds == signal \/ broken # {} \/ stage = "unwind" ~> stage = "exited"

\* The graceful shutdown is bounded: by the deadline of the servers and that of
\* telemetry.  (It is not: closing the pool waits for an HTTP handler that
\* Shutdown has left behind in a query.)
StopBounded == cause = "signal" /\ stage # "exited" => elapsed <= 2 * Timeout
=============================================================================
