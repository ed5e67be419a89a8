-------------------------- MODULE Lifecycle_proofs --------------------------
(***************************************************************************)
(* The safety of Lifecycle for any number of calls and any deadline: Inv   *)
(* is inductive and implies ReleasedInOrder, and no step from a state that *)
(* satisfies it breaks DrainedUntilDeadline or MetricsHaveTime.            *)
(***************************************************************************)
EXTENDS Lifecycle, SequenceTheorems, TLAPS

Name == {"telemetry", "pool"}

\* The deferred calls that there can be.
LEMMA Deferrable ==
    /\ <<>> \in Seq(Name) /\ Len(<<>>) = 0
    /\ <<"telemetry">> \in Seq(Name) /\ Len(<<"telemetry">>) = 1
    /\ <<"telemetry">>[1] = "telemetry"
    /\ <<"pool">> \in Seq(Name) /\ Len(<<"pool">>) = 1 /\ <<"pool">>[1] = "pool"
    /\ <<"telemetry", "pool">> \in Seq(Name) /\ Len(<<"telemetry", "pool">>) = 2
    /\ <<"telemetry", "pool">>[1] = "telemetry" /\ <<"telemetry", "pool">>[2] = "pool"
    BY DEF Name

\* To defer nothing changes nothing; the pool is deferred after telemetry.
LEMMA Deferring ==
    /\ \A s \in Seq(Name) : s \o <<>> = s /\ <<>> \o s = s
    /\ <<"telemetry">> \o <<"pool">> = <<"telemetry", "pool">>
<1>1. \A s \in Seq(Name) : s \o <<>> = s /\ <<>> \o s = s
    BY ConcatEmptySeq
<1> DEFINE both == <<"telemetry">> \o <<"pool">>
<1>2. /\ both \in Seq(Name) /\ Len(both) = 2
      /\ both[1] = "telemetry" /\ both[2] = "pool"
    BY Deferrable, ConcatProperties
<1>3. \A i \in 1 .. 2 : both[i] = <<"telemetry", "pool">>[i]
    BY <1>2, Deferrable
<1> HIDE DEF both
<1>4. both = <<"telemetry", "pool">>
    BY <1>2, <1>3, Deferrable, SeqEqual
<1> QED  BY <1>1, <1>4 DEF both

\* The pool is released first.
LEMMA Unwinding ==
    /\ Front(<<"telemetry">>) = <<>> /\ Last(<<"telemetry">>) = "telemetry"
    /\ Front(<<"telemetry", "pool">>) = <<"telemetry">>
    /\ Last(<<"telemetry", "pool">>) = "pool"
<1>1. Last(<<"telemetry">>) = "telemetry" /\ Last(<<"telemetry", "pool">>) = "pool"
    BY Deferrable DEF Last
<1>2. Front(<<"telemetry">>) = <<>>
    BY Deferrable, SubSeqEmpty DEF Front
<1> DEFINE both == <<"telemetry", "pool">>
           rest == SubSeq(both, 1, 1)
<1>3. \A i \in 1 .. 1 : both[i] \in Name
    BY Deferrable DEF Name
<1>4. rest \in Seq(Name) /\ Len(rest) = 1 /\ rest[1] = both[1]
    BY <1>3, SubSeqProperties
<1>5. \A i \in 1 .. 1 : rest[i] = <<"telemetry">>[i]
    BY <1>4, Deferrable
<1> HIDE DEF rest
<1>6. rest = <<"telemetry">>
    BY <1>4, <1>5, Deferrable, SeqEqual
<1>7. Front(both) = rest
    BY Deferrable DEF Front, rest
<1> QED  BY <1>1, <1>2, <1>6, <1>7

-----------------------------------------------------------------------------
(* The inductive invariant. *)

\* The table of the start.
LEMMA BootTable ==
    /\ Boot["resource"].next = "traceExporter" /\ Boot["resource"].gets = {}
       /\ Boot["resource"].undoes = {} /\ Boot["resource"].defers = <<>>
    /\ Boot["traceExporter"].next = "metricReader" /\ Boot["traceExporter"].gets = {"traces"}
       /\ Boot["traceExporter"].undoes = {} /\ Boot["traceExporter"].defers = <<>>
    /\ Boot["metricReader"].next = "pool" /\ Boot["metricReader"].gets = {"metrics"}
       /\ Boot["metricReader"].undoes = {"traces"} /\ Boot["metricReader"].defers = <<"telemetry">>
    /\ Boot["pool"].next = "ping" /\ Boot["pool"].gets = {"pool"}
       /\ Boot["pool"].undoes = {} /\ Boot["pool"].defers = <<>>
    /\ Boot["ping"].next = "key" /\ Boot["ping"].gets = {}
       /\ Boot["ping"].undoes = {"pool"} /\ Boot["ping"].defers = <<"pool">>
    /\ Boot["key"].next = "listen" /\ Boot["key"].gets = {}
       /\ Boot["key"].undoes = {} /\ Boot["key"].defers = <<>>
    /\ Boot["listen"].next = "jwks" /\ Boot["listen"].gets = {}
       /\ Boot["listen"].undoes = {} /\ Boot["listen"].defers = <<>>
    /\ Boot["jwks"].next = "serving" /\ Boot["jwks"].gets = {}
       /\ Boot["jwks"].undoes = {} /\ Boot["jwks"].defers = <<>>
    BY DEF Boot, Then, buildResource, pickTraceExporter, pickMetricReader,
           OpenPool, Ping, Key, Listen, RenderKeySet

LEMMA BootStages ==
    DOMAIN Boot = {"resource", "traceExporter", "metricReader", "pool",
                   "ping", "key", "listen", "jwks"}
    BY DEF Boot

\* Two of its entries open a socket.
LEMMA BootSockets ==
    /\ Boot["listen"].binds = {"grpc"} /\ Boot["jwks"].binds = {"http"}
    /\ \A s \in DOMAIN Boot \ {"listen", "jwks"} : Boot[s].binds = {}
<1> USE DEF Boot, Then, buildResource, pickTraceExporter, pickMetricReader,
            OpenPool, Ping, Key, Listen, RenderKeySet
<1>1. Boot["listen"].binds = {"grpc"} /\ Boot["jwks"].binds = {"http"}
    OBVIOUS
<1>2. /\ Boot["resource"].binds = {} /\ Boot["traceExporter"].binds = {}
      /\ Boot["metricReader"].binds = {} /\ Boot["pool"].binds = {}
      /\ Boot["ping"].binds = {} /\ Boot["key"].binds = {}
    OBVIOUS
<1>3. DOMAIN Boot \ {"listen", "jwks"} =
          {"resource", "traceExporter", "metricReader", "pool", "ping", "key"}
    BY BootStages
<1> QED  BY <1>1, <1>2, <1>3

LEMMA InitInv == Init => Inv
<1> SUFFICES ASSUME Init PROVE Inv
    OBVIOUS
<1>1. TypeOK
    <2>1. /\ stage \in DOMAIN Boot /\ cause = "none" /\ signal = FALSE /\ drain = "no"
          /\ res = {} /\ broken = {} /\ bound = {} /\ defers = <<>>
          /\ elapsed = 0 /\ since = 0
        BY BootStages DEF Init
    <2>2. 0 \in 0 .. MaxTime
        BY LifecycleAssumption
    <2>3. /\ phase \in [Call -> {"none", "running", "inDB", "ended"}]
          /\ verdict \in [Call -> {"none", "ok", "cut", "poolClosed"}]
        BY DEF Init
    <2> QED  BY <2>1, <2>2, <2>3 DEF TypeOK
<1>2. HeldInv /\ CauseInv /\ SocketInv /\ DrainInv /\ TimeInv
    BY BootStages DEF Init, HeldInv, CauseInv, SocketInv, DrainInv, TimeInv, Live
<1> QED  BY <1>1, <1>2 DEF Inv

\* What a step of the start does, stage by stage.
LEMMA Starting ==
    ASSUME BootStep
    PROVE  \/ stage = "resource" /\ stage' = "traceExporter" /\ res' = res /\ defers' = defers \o <<>>
           \/ stage = "traceExporter" /\ stage' = "metricReader"
              /\ res' = res \cup {"traces"} /\ defers' = defers \o <<>>
           \/ stage = "metricReader" /\ stage' = "pool"
              /\ res' = res \cup {"metrics"} /\ defers' = defers \o <<"telemetry">>
           \/ stage = "pool" /\ stage' = "ping"
              /\ res' = res \cup {"pool"} /\ defers' = defers \o <<>>
           \/ stage = "ping" /\ stage' = "key" /\ res' = res /\ defers' = defers \o <<"pool">>
           \/ stage = "key" /\ stage' = "listen" /\ res' = res /\ defers' = defers \o <<>>
           \/ stage = "listen" /\ stage' = "jwks" /\ res' = res /\ defers' = defers \o <<>>
           \/ stage = "jwks" /\ stage' = "serving" /\ res' = res /\ defers' = defers \o <<>>
<1>1. PICK s \in DOMAIN Boot : stage = s
    BY DEF BootStep
<1>2. \/ s = "resource" \/ s = "traceExporter" \/ s = "metricReader" \/ s = "pool"
      \/ s = "ping" \/ s = "key" \/ s = "listen" \/ s = "jwks"
    BY BootStages
<1>3. stage' = Boot[s].next /\ res' = res \cup Boot[s].gets /\ defers' = defers \o Boot[s].defers
    BY <1>1 DEF BootStep
<1>4. res \cup {} = res
    OBVIOUS
<1> QED  BY <1>1, <1>2, <1>3, <1>4, BootTable

\* The sockets that a step of the start opens.
LEMMA Binding ==
    ASSUME BootStep
    PROVE  \/ stage = "jwks" /\ stage' = "serving" /\ bound' = bound \cup {"http"}
           \/ stage = "listen" /\ stage' = "jwks" /\ bound' = bound \cup {"grpc"}
           \/ /\ stage \in DOMAIN Boot \ {"listen", "jwks"}
              /\ stage' \in DOMAIN Boot \ {"jwks"}
              /\ bound' = bound
<1>1. PICK s \in DOMAIN Boot : stage = s
    BY DEF BootStep
<1>2. \/ s = "resource" \/ s = "traceExporter" \/ s = "metricReader" \/ s = "pool"
      \/ s = "ping" \/ s = "key" \/ s = "listen" \/ s = "jwks"
    BY BootStages
<1>3. stage' = Boot[s].next /\ bound' = bound \cup Boot[s].binds
    BY <1>1 DEF BootStep
<1>4. bound \cup {} = bound
    OBVIOUS
<1> QED  BY <1>1, <1>2, <1>3, <1>4, BootTable, BootSockets, BootStages

\* What a failing start leaves behind.
LEMMA FailingStart ==
    ASSUME BootFails
    PROVE  /\ stage \in DOMAIN Boot /\ stage' = "unwind" /\ defers' = defers
           /\ stage = "metricReader" => res' = res \ {"traces"}
           /\ stage = "ping" => res' = res \ {"pool"}
           /\ stage \notin {"metricReader", "ping"} => res' = res
<1>1. PICK s \in DOMAIN Boot : stage = s
    BY DEF BootFails
<1>2. \/ s = "resource" \/ s = "traceExporter" \/ s = "metricReader" \/ s = "pool"
      \/ s = "ping" \/ s = "key" \/ s = "listen" \/ s = "jwks"
    BY BootStages
<1>3. stage' = "unwind" /\ defers' = defers /\ res' = res \ Boot[s].undoes
    BY <1>1 DEF BootFails
<1>4. res \ {} = res
    OBVIOUS
<1> QED  BY <1>1, <1>2, <1>3, <1>4, BootTable

\* Only run and its failing start move run on.
LEMMA WhoMoves ==
    ASSUME [Next]_vars
    PROVE  \/ BootStep \/ SeeServeErr \/ SeeSignal \/ HttpShutdown \/ SeeStopped \/ ForceStop
           \/ Unwind \/ PoolClosed \/ TracesFlushed \/ MetricsFlushed \/ Exit \/ BootFails
           \/ UNCHANGED <<stage, defers, res, cause, since>>
    BY DEF Next, Run, vars, main, calls, Tick, GracefulStopBegins, GracefulStopEnds,
           SignalArrives, ServeFails, Accept, Acquire, Release, Answer

LEMMA HeldStep == ASSUME Inv, [Next]_vars PROVE HeldInv'
<1> USE DEF HeldInv, Telemetry, Acquired
<1>0. HeldInv
    BY DEF Inv
<1>1. CASE BootStep
    <2>1. /\ <<>> \o <<>> = <<>> /\ <<>> \o <<"telemetry">> = <<"telemetry">>
          /\ <<"telemetry">> \o <<>> = <<"telemetry">>
          /\ <<"telemetry">> \o <<"pool">> = <<"telemetry", "pool">>
          /\ <<"telemetry", "pool">> \o <<>> = <<"telemetry", "pool">>
        BY Deferring, Deferrable
    <2> QED  BY <1>0, <1>1, <2>1, Starting
<1>2. CASE SeeServeErr
    BY <1>0, <1>2 DEF SeeServeErr
<1>3. CASE SeeSignal
    BY <1>0, <1>3 DEF SeeSignal
<1>4. CASE HttpShutdown
    BY <1>0, <1>4 DEF HttpShutdown
<1>5. CASE SeeStopped
    BY <1>0, <1>5 DEF SeeStopped
<1>6. CASE ForceStop
    BY <1>0, <1>6 DEF ForceStop
<1>7. CASE Unwind
    BY <1>0, <1>7, Unwinding DEF Unwind
<1>8. CASE PoolClosed
    BY <1>0, <1>8 DEF PoolClosed
<1>9. CASE TracesFlushed
    BY <1>0, <1>9 DEF TracesFlushed
<1>10. CASE MetricsFlushed
    BY <1>0, <1>10 DEF MetricsFlushed
<1>11. CASE Exit
    BY <1>0, <1>11 DEF Exit
<1>12. CASE BootFails
    BY <1>0, <1>12, FailingStart DEF Boot
<1>13. CASE UNCHANGED <<stage, defers, res, cause, since>>
    BY <1>0, <1>13
<1> QED  BY <1>1, <1>2, <1>3, <1>4, <1>5, <1>6, <1>7, <1>8, <1>9, <1>10, <1>11,
            <1>12, <1>13, WhoMoves

LEMMA CauseStep == ASSUME Inv, [Next]_vars PROVE CauseInv'
<1> USE DEF CauseInv
<1>0. CauseInv /\ HeldInv
    BY DEF Inv
<1>1. CASE BootStep
    BY <1>0, <1>1, Starting, BootStages DEF BootStep
<1>2. CASE SeeServeErr
    BY <1>0, <1>2, BootStages DEF SeeServeErr
<1>3. CASE SeeSignal
    BY <1>0, <1>3, BootStages DEF SeeSignal
<1>4. CASE HttpShutdown
    BY <1>0, <1>4, BootStages DEF HttpShutdown
<1>5. CASE SeeStopped
    BY <1>0, <1>5, BootStages DEF SeeStopped
<1>6. CASE ForceStop
    BY <1>0, <1>6, BootStages DEF ForceStop
<1>7. CASE Unwind
    BY <1>0, <1>7, BootStages DEF Unwind
<1>8. CASE PoolClosed
    BY <1>0, <1>8, BootStages DEF PoolClosed
<1>9. CASE TracesFlushed
    BY <1>0, <1>9, BootStages DEF TracesFlushed
<1>10. CASE MetricsFlushed
    BY <1>0, <1>10, BootStages DEF MetricsFlushed
<1>11. CASE Exit
    BY <1>0, <1>11, BootStages DEF Exit
<1>12. CASE BootFails
    BY <1>0, <1>12, BootStages DEF BootFails
<1>13. CASE GracefulStopBegins
    BY <1>0, <1>13 DEF GracefulStopBegins
<1>14. CASE GracefulStopEnds
    BY <1>0, <1>14 DEF GracefulStopEnds
<1>15. CASE UNCHANGED <<stage, cause, drain>>
    BY <1>0, <1>15
<1> QED  BY <1>1, <1>2, <1>3, <1>4, <1>5, <1>6, <1>7, <1>8, <1>9, <1>10, <1>11,
            <1>12, <1>13, <1>14, <1>15
         DEF Next, Run, vars, main, calls, Tick, SignalArrives, ServeFails, Accept,
             Acquire, Release, Answer

LEMMA SocketStep == ASSUME Inv, [Next]_vars PROVE SocketInv'
<1> USE DEF SocketInv
<1>0. SocketInv /\ CauseInv /\ DrainInv /\ TypeOK
    BY DEF Inv
<1>1. CASE BootStep
    <2>1. /\ cause' = "none" /\ broken' = broken /\ broken = {}
          /\ bound = IF stage = "jwks" THEN {"grpc"} ELSE {}
        BY <1>0, <1>1, BootStages DEF BootStep, CauseInv
    <2>2. stage' \in DOMAIN Boot => bound' = IF stage' = "jwks" THEN {"grpc"} ELSE {}
        BY <1>1, <2>1, Binding, BootStages
    <2> QED  BY <2>1, <2>2
<1>2. CASE BootFails
    BY <1>0, <1>2, BootStages DEF BootFails
<1>3. CASE SeeServeErr
    BY <1>0, <1>3, BootStages DEF SeeServeErr
<1>4. CASE SeeSignal
    BY <1>0, <1>4, BootStages DEF SeeSignal
<1>5. CASE HttpShutdown
    BY <1>0, <1>5, BootStages DEF HttpShutdown
<1>6. CASE SeeStopped
    \* Whatever had failed by then, both sockets are closed.
    BY <1>0, <1>6, BootStages DEF SeeStopped, DrainInv, TypeOK
<1>7. CASE ForceStop
    BY <1>0, <1>7, BootStages DEF ForceStop, CauseInv, TypeOK
<1>8. CASE Unwind \/ PoolClosed \/ TracesFlushed \/ MetricsFlushed \/ Exit
    BY <1>0, <1>8, BootStages DEF Unwind, PoolClosed, TracesFlushed, MetricsFlushed, Exit
<1>9. CASE GracefulStopBegins
    BY <1>0, <1>9, BootStages DEF GracefulStopBegins, CauseInv
<1>10. ASSUME NEW server \in {"http", "grpc"}, ServeFails(server) PROVE SocketInv'
    <2>1. server \in bound /\ stage \notin DOMAIN Boot
        BY <1>10 DEF ServeFails, Open
    <2> QED  BY <1>0, <1>10, <2>1 DEF ServeFails, main, Boot
<1>11. CASE UNCHANGED <<stage, bound, broken, cause>>
    BY <1>0, <1>11 DEF Boot
<1> QED  BY <1>1, <1>2, <1>3, <1>4, <1>5, <1>6, <1>7, <1>8, <1>9, <1>10, <1>11
         DEF Next, Run, vars, main, calls, GracefulStopEnds, SignalArrives, Tick, Accept,
             Acquire, Release, Answer

LEMMA TimeStep == ASSUME Inv, [Next]_vars PROVE TimeInv'
<1> USE DEF TimeInv, TracesUntil
<1>0. /\ TimeInv /\ elapsed \in Nat /\ since \in Nat
      /\ Timeout \in Nat /\ Timeout \div 2 \in Nat
    BY LifecycleAssumption DEF Inv, TypeOK
<1>1. CASE Unwind
    BY <1>0, <1>1 DEF Unwind
<1>2. CASE Tick
    <2>1. stage = "traces" => elapsed < since + Timeout \div 2
        BY <1>2 DEF Tick, Blocked
    <2> QED  BY <1>0, <1>2, <2>1 DEF Tick
<1>3. CASE BootStep
    BY <1>0, <1>3, Starting DEF BootStep
<1>4. CASE UNCHANGED <<stage, elapsed, since>>
    BY <1>0, <1>4
<1>5. CASE stage' # "traces"
    BY <1>5
<1> QED  BY <1>1, <1>2, <1>3, <1>4, <1>5
         DEF Next, Run, vars, main, calls, SeeServeErr, SeeSignal, HttpShutdown, SeeStopped,
             ForceStop, PoolClosed, TracesFlushed, MetricsFlushed, Exit, BootFails,
             GracefulStopBegins, GracefulStopEnds, SignalArrives, ServeFails, Accept,
             Acquire, Release, Answer

LEMMA DrainStep == ASSUME Inv, [Next]_vars PROVE DrainInv'
<1> USE DEF DrainInv, Live
<1>0. DrainInv /\ CauseInv /\ HeldInv /\ SocketInv /\ TypeOK
    BY DEF Inv
<1>1. CASE BootStep
    <2>1. cause' = "none" /\ drain' = "no"
        BY <1>0, <1>1, BootStages DEF BootStep, CauseInv
    <2> QED  BY <1>0, <1>1, <2>1 DEF BootStep, calls
<1>2. CASE SeeServeErr
    BY <1>0, <1>2 DEF SeeServeErr, calls
<1>3. CASE SeeSignal
    BY <1>0, <1>3 DEF SeeSignal, calls, CauseInv
<1>4. CASE HttpShutdown
    BY <1>0, <1>4, LifecycleAssumption DEF HttpShutdown, calls, CauseInv, TypeOK
<1>5. CASE SeeStopped
    BY <1>0, <1>5 DEF SeeStopped, calls
<1>6. CASE ForceStop
    BY <1>0, <1>6, LifecycleAssumption DEF ForceStop, TypeOK
<1>7. CASE Unwind
    BY <1>0, <1>7 DEF Unwind, calls
<1>8. CASE PoolClosed
    BY <1>0, <1>8 DEF PoolClosed, calls
<1>9. CASE TracesFlushed
    BY <1>0, <1>9 DEF TracesFlushed, calls
<1>10. CASE MetricsFlushed
    BY <1>0, <1>10 DEF MetricsFlushed, calls
<1>11. CASE Exit
    BY <1>0, <1>11 DEF Exit, TypeOK
<1>12. CASE BootFails
    <2>1. cause' = "startErr" /\ drain' = "no"
        BY <1>0, <1>12, BootStages DEF BootFails, CauseInv
    <2> QED  BY <1>0, <1>12, <2>1 DEF BootFails, calls
<1>13. CASE GracefulStopBegins
    BY <1>0, <1>13 DEF GracefulStopBegins, calls
<1>14. CASE GracefulStopEnds
    BY <1>0, <1>14 DEF GracefulStopEnds, calls
<1>15. CASE Tick
    BY <1>0, <1>15, LifecycleAssumption DEF Tick, TypeOK, calls
<1>16. ASSUME NEW server \in {"http", "grpc"}, ServeFails(server) PROVE DrainInv'
    BY <1>0, <1>16 DEF ServeFails, calls, main
<1>17. ASSUME NEW c \in Call, Accept(c) PROVE DrainInv'
    <2>1. Server(c) \in bound
        BY <1>17 DEF Accept, Open
    <2> QED  BY <1>0, <1>17, <2>1 DEF Accept, main, TypeOK, SocketInv
<1>18. ASSUME NEW c \in Call, Acquire(c) PROVE DrainInv'
    BY <1>0, <1>18 DEF Acquire, main, TypeOK
<1>19. ASSUME NEW c \in Call, Release(c) PROVE DrainInv'
    BY <1>0, <1>19 DEF Release, main, TypeOK
<1>20. ASSUME NEW c \in Call, Answer(c) PROVE DrainInv'
    BY <1>0, <1>20 DEF Answer, main, TypeOK
<1>21. CASE SignalArrives
    BY <1>0, <1>21 DEF SignalArrives, main, calls
<1>22. CASE UNCHANGED vars
    BY <1>0, <1>22 DEF vars, calls
<1> QED  BY <1>1, <1>2, <1>3, <1>4, <1>5, <1>6, <1>7, <1>8, <1>9, <1>10, <1>11, <1>12, <1>13,
            <1>14, <1>15, <1>16, <1>17, <1>18, <1>19, <1>20, <1>21, <1>22 DEF Next, Run

LEMMA TypeStep == ASSUME Inv, [Next]_vars PROVE TypeOK'
<1>0. TypeOK /\ HeldInv /\ HeldInv'
    BY HeldStep DEF Inv
<1>1. /\ stage' \in DOMAIN Boot \cup {"serving", "http", "grpc", "unwind", "closing",
                                     "traces", "metrics", "exited"}
      /\ cause' \in {"none", "signal", "serveErr", "startErr"} /\ signal' \in BOOLEAN
      /\ drain' \in {"no", "asked", "draining", "done"}
      /\ elapsed' \in 0 .. MaxTime /\ since' \in 0 .. MaxTime
    <2>1. CASE BootStep
        BY <1>0, <2>1, Starting, BootStages DEF BootStep, TypeOK
    <2>2. CASE BootFails
        BY <1>0, <2>2 DEF BootFails, TypeOK
    <2>3. CASE Tick
        BY <1>0, <2>3, LifecycleAssumption DEF Tick, TypeOK
    <2>4. CASE SeeServeErr \/ SeeSignal \/ HttpShutdown \/ SeeStopped \/ ForceStop \/ Unwind
               \/ PoolClosed \/ TracesFlushed \/ MetricsFlushed \/ Exit
        BY <1>0, <2>4 DEF SeeServeErr, SeeSignal, HttpShutdown, SeeStopped, ForceStop, Unwind,
               PoolClosed, TracesFlushed, MetricsFlushed, Exit, TypeOK
    <2>5. CASE GracefulStopBegins \/ GracefulStopEnds
        BY <1>0, <2>5 DEF GracefulStopBegins, GracefulStopEnds, TypeOK
    <2>6. CASE SignalArrives
        BY <1>0, <2>6 DEF SignalArrives, main, TypeOK
    <2>7. CASE UNCHANGED <<main, signal>>
        BY <1>0, <2>7 DEF main, TypeOK
    <2> QED  BY <2>1, <2>2, <2>3, <2>4, <2>5, <2>6, <2>7
             DEF Next, Run, vars, main, ServeFails, Accept, Acquire, Release, Answer
<1>2. /\ defers' \in {<<>>, <<"telemetry">>, <<"telemetry", "pool">>}
      /\ res' \subseteq {"traces", "metrics", "pool"}
    BY <1>0, <1>1, BootStages DEF HeldInv, Telemetry, Acquired
<1>3. broken' \subseteq {"http", "grpc"} /\ bound' \subseteq {"http", "grpc"}
    <2>1. CASE UNCHANGED <<broken, bound>>
        BY <1>0, <2>1 DEF TypeOK
    <2>2. ASSUME NEW server \in {"http", "grpc"}, ServeFails(server)
          PROVE  broken' \subseteq {"http", "grpc"} /\ bound' \subseteq {"http", "grpc"}
        BY <1>0, <2>2 DEF ServeFails, TypeOK
    <2>3. CASE BootStep
        BY <1>0, <2>3, Binding DEF BootStep, TypeOK
    <2>4. CASE SeeSignal \/ ForceStop \/ GracefulStopBegins
        BY <1>0, <2>4 DEF SeeSignal, ForceStop, GracefulStopBegins, TypeOK
    <2> QED  BY <2>1, <2>2, <2>3, <2>4
             DEF Next, Run, vars, BootFails, Tick, SeeServeErr, HttpShutdown, SeeStopped, Unwind,
                 PoolClosed, TracesFlushed, MetricsFlushed, Exit, GracefulStopEnds, SignalArrives,
                 Accept, Acquire, Release, Answer
<1>4. /\ phase' \in [Call -> {"none", "running", "inDB", "ended"}]
      /\ verdict' \in [Call -> {"none", "ok", "cut", "poolClosed"}]
    <2>1. CASE UNCHANGED calls
        BY <1>0, <2>1 DEF TypeOK, calls
    <2>2. CASE ForceStop
        BY <1>0, <2>2 DEF ForceStop, TypeOK
    <2>3. CASE Exit
        BY <1>0, <2>3 DEF Exit, TypeOK
    <2>4. ASSUME NEW c \in Call, Accept(c) \/ Acquire(c) \/ Release(c) \/ Answer(c)
          PROVE  /\ phase' \in [Call -> {"none", "running", "inDB", "ended"}]
                 /\ verdict' \in [Call -> {"none", "ok", "cut", "poolClosed"}]
        BY <1>0, <2>4 DEF Accept, Acquire, Release, Answer, TypeOK
    <2> QED  BY <2>1, <2>2, <2>3, <2>4
             DEF Next, Run, vars, calls, BootStep, BootFails, Tick, SeeServeErr, SeeSignal,
                 HttpShutdown, SeeStopped, Unwind, PoolClosed, TracesFlushed, MetricsFlushed,
                 GracefulStopBegins, GracefulStopEnds, SignalArrives, ServeFails
<1> QED  BY <1>1, <1>2, <1>3, <1>4 DEF TypeOK

\* The inductive invariant of Lifecycle holds in every reachable state.
THEOREM LifecycleInvariance == Spec => []Inv
<1>1. Init => Inv
    BY InitInv
<1>2. Inv /\ [Next]_vars => Inv'
    BY TypeStep, HeldStep, CauseStep, SocketStep, DrainStep, TimeStep DEF Inv
<1> QED  BY <1>1, <1>2, PTL DEF Spec

-----------------------------------------------------------------------------
(* The properties. *)

\* Whatever run had deferred the release of when it stopped starting is released
\* before the process exits, the pool before the telemetry that traces its queries;
\* and the pool never closes under a server that listens but where the start, or the
\* other server, has failed.
THEOREM ReleaseOrder == Spec => []ReleasedInOrder
<1>1. Inv => ReleasedInOrder
    <2> SUFFICES ASSUME Inv PROVE ReleasedInOrder
        OBVIOUS
    <2>0. TypeOK /\ HeldInv /\ CauseInv /\ SocketInv
        BY DEF Inv
    <2>1. stage = "exited" => res = {}
        BY <2>0 DEF HeldInv
    <2>2. "pool" \in res => {"traces", "metrics"} \subseteq res
        BY <2>0, BootStages DEF TypeOK, HeldInv, Telemetry, Acquired
    <2>3. ASSUME stage \in {"closing", "exited"}, bound # {}
          PROVE  \/ cause = "startErr" /\ bound = {"grpc"}
                 \/ cause = "serveErr" /\ broken # {} /\ broken \cap bound = {}
        <3>1. cause \in {"signal", "serveErr", "startErr"}
            BY <2>0, <2>3, BootStages DEF TypeOK, CauseInv
        <3>2. cause # "signal"
            BY <2>0, <2>3 DEF SocketInv
        <3> QED  BY <2>0, <2>3, <3>1, <3>2 DEF SocketInv
    <2> QED  BY <2>1, <2>2, <2>3 DEF ReleasedInOrder
<1> QED  BY <1>1, LifecycleInvariance, PTL

\* The last flush of the metrics is always given time.
THEOREM MetricsAreFlushed == Spec => MetricsHaveTime
<1>1. ASSUME Inv, stage = "traces" PROVE elapsed < since + Timeout
    <2>1. elapsed <= since + Timeout \div 2 /\ elapsed \in Nat /\ since \in Nat
        BY <1>1 DEF Inv, TimeInv, TracesUntil, TypeOK
    <2>2. Timeout \in Nat \ {0} /\ Timeout \div 2 \in Nat /\ Timeout \div 2 < Timeout
        BY LifecycleAssumption
    <2> QED  BY <2>1, <2>2
<1>2. Inv => [stage = "traces" /\ stage' = "metrics" => elapsed < since + Timeout]_vars
    BY <1>1
<1> QED  BY <1>2, LifecycleInvariance, PTL DEF MetricsHaveTime

\* Until the deadline of the drain nothing that run does reaches a call that a
\* server has accepted: such a call can only end answered, over a pool that is
\* open and with telemetry in place.
LEMMA Undisturbed ==
    ASSUME Inv, Next, cause' = "signal", elapsed' < Timeout, NEW c \in Call
    PROVE  /\ verdict'[c] # verdict[c] => verdict'[c] = "ok"
           /\ phase'[c] = "ended" /\ phase[c] # "ended" => {"traces", "metrics"} \subseteq res
<1>0. /\ TypeOK /\ HeldInv /\ CauseInv /\ DrainInv
      /\ elapsed \in Nat /\ Timeout \in Nat
    BY LifecycleAssumption DEF Inv, TypeOK
<1>1. CASE UNCHANGED calls
    BY <1>0, <1>1 DEF calls
<1>2. CASE ForceStop
    BY <1>0, <1>2 DEF ForceStop
<1>3. CASE Exit
    <2>1. cause = "signal" /\ elapsed < Timeout /\ stage = "unwind"
        BY <1>3 DEF Exit
    <2>2. Live("http") = {} /\ Live("grpc") = {}
        BY <1>0, <2>1 DEF DrainInv
    <2>3. phase[c] \in {"none", "ended"}
        BY <1>0, <2>2 DEF Live, Server, TypeOK
    <2>4. phase[c] = "ended" => verdict[c] # "none"
        BY <1>0 DEF DrainInv
    <2> QED  BY <1>0, <1>3, <2>3, <2>4 DEF Exit, TypeOK
<1>4. ASSUME NEW d \in Call, Accept(d) \/ Release(d)
      PROVE  /\ verdict'[c] = verdict[c]
             /\ phase'[c] = "ended" => phase[c] = "ended"
    BY <1>0, <1>4 DEF Accept, Release, TypeOK
<1>5. ASSUME NEW d \in Call, Acquire(d) \/ Answer(d)
      PROVE  /\ verdict'[c] # verdict[c] => verdict'[c] = "ok"
             /\ phase'[c] = "ended" /\ phase[c] # "ended" => {"traces", "metrics"} \subseteq res
    <2>1. cause = "signal" /\ elapsed < Timeout /\ phase[d] = "running"
        BY <1>5 DEF Acquire, Answer, main
    <2>2. d \in Live(Server(d)) /\ Server(d) \in {"http", "grpc"}
        BY <2>1 DEF Live, Server
    <2>3. stage \in {"http", "grpc"}
        BY <1>0, <2>1, <2>2 DEF DrainInv
    <2>4. res = {"traces", "metrics", "pool"}
        BY <1>0, <2>3 DEF HeldInv, Acquired, Telemetry
    <2>5. CASE Answer(d)
        BY <1>0, <2>4, <2>5 DEF Answer, TypeOK
    <2>6. CASE Acquire(d)
        BY <1>0, <2>3, <2>4, <2>6 DEF Acquire, TypeOK
    <2> QED  BY <1>5, <2>5, <2>6
<1> QED  BY <1>1, <1>2, <1>3, <1>4, <1>5
         DEF Next, Run, calls, BootStep, BootFails, Tick, SeeServeErr, SeeSignal, HttpShutdown,
             SeeStopped, Unwind, PoolClosed, TracesFlushed, MetricsFlushed,
             GracefulStopBegins, GracefulStopEnds, SignalArrives, ServeFails

\* After a signal no call that was accepted is disturbed before the deadline.
THEOREM GracefulDrain == Spec => DrainedUntilDeadline
<1> DEFINE Undisturbing ==
        cause' = "signal" /\ elapsed' < Timeout =>
            \A c \in Call :
                /\ verdict'[c] # verdict[c] => verdict'[c] = "ok"
                /\ phase'[c] = "ended" /\ phase[c] # "ended" => {"traces", "metrics"} \subseteq res
<1>1. ASSUME Inv, Next PROVE Undisturbing
    BY <1>1, Undisturbed
<1>2. Inv /\ [Next]_vars => [Undisturbing]_vars
    BY <1>1
<1>3. Spec => [][Undisturbing]_vars
    <2> HIDE DEF Undisturbing
    <2> QED  BY <1>2, LifecycleInvariance, PTL DEF Spec
<1> QED  BY <1>3 DEF DrainedUntilDeadline, Undisturbing
=============================================================================
