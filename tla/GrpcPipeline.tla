---------------------------- MODULE GrpcPipeline ----------------------------
(***************************************************************************)
(* What happens to a unary call around its handler: the decoding of its    *)
(* request, the interceptors of pkg/grpc.NewServer (recovery, then request *)
(* id, then logging), the refusal of GetUser, and the mapping of the       *)
(* handler's error to a status.  Calls run concurrently over one logger,   *)
(* and a handler may derive loggers of its own from it.                    *)
(***************************************************************************)
EXTENDS FiniteSets, ErrorKinds, Principal, ContextLogger

CONSTANTS
    Call,
    Id,         \* the request ids that clients send
    Request,    \* the requests that clients send
    Err,        \* the errors that use cases return
    MaxArrays   \* bound on the loggers that a handler derives

\* The metadata of a call, and the user that GetUser is asked for: None is the empty
\* id, in either of them, and "other" stands for a call of another method.
Metadata == [id : Id \cup {""}, asks : User \cup {None, "other"},
             md : [userID : User \cup {None}, roles : RoleLists \cup {None}]]

ASSUME PipelineAssumption ==
    /\ None \notin User /\ "other" \notin User \cup {None}
    /\ Call \cap Id = {} /\ "" \notin Call \cup Id
    /\ Err \subseteq Seq(Link) /\ <<>> \in Err
    /\ Request \subseteq Metadata
    /\ MaxArrays \in Nat

VARIABLES
    stage,     \* the frame a call is in
    request,   \* what the client sent
    ctx,       \* the context of a call
    header,    \* the x-request-id of its response
    failure,   \* how the handler ended: how, and with which error
    status,    \* the status the client gets, and what its text is made of
    heap,      \* the arrays of the chains of a call's loggers
    loggers,   \* a call's loggers, each found under the links it was derived by
    log        \* the lines written

vars == <<stage, request, ctx, header, failure, status, heap, loggers, log>>

NoRequest == [id |-> "", asks |-> "other", md |-> [userID |-> None, roles |-> None]]

\* "error", "denied", "panic" or "undecoded", and the error that was returned.
Returned(how, err) == [how |-> how, err |-> err]

OnlyNew == [links \in {<<>>} |-> New]

\* With tracing on, the library opens a span for each call.
Init ==
    /\ stage = [c \in Call |-> "new"]
    /\ request = [c \in Call |-> NoRequest]
    /\ \/ ctx = [c \in Call |-> EmptyContext]
       \/ ctx = [c \in Call |-> [EmptyContext EXCEPT !.span = c]]
    /\ header = [c \in Call |-> ""]
    /\ failure = [c \in Call |-> Returned("error", <<>>)]
    /\ status = [c \in Call |-> Says("OK", "none")]
    /\ heap = [c \in Call |-> <<>>]
    /\ loggers = [c \in Call |-> OnlyNew]
    /\ log = {}

-----------------------------------------------------------------------------
Goto(c, s) == stage' = [stage EXCEPT ![c] = s]

\* What a call writes through one of its loggers.
Writes(c, links, context, record) == Handle(heap[c], loggers[c][links], context, record)

\* A line of the interceptors, through the logger of the service.
Write(c, line, level, text, context, record) ==
    log' = log \cup {[of |-> c, line |-> line, level |-> level, text |-> text,
                      attrs |-> Writes(c, <<>>, context, record)]}

\* Mutant of IsServerFault: an error is an error.
IsAnyFault(code) == code # "OK"

IsServerFault(code) == code \in {"Internal", "Unknown", "DataLoss", "Unavailable"}

Level(code) ==
    IF code = "OK" THEN "info" ELSE IF IsServerFault(code) THEN "error" ELSE "warn"

\* The recovery interceptor defers its recover and calls the next one.
Enter(c, r) ==
    /\ stage[c] = "new"
    /\ Goto(c, "requestID")
    /\ request' = [request EXCEPT ![c] = r]
    /\ UNCHANGED <<ctx, header, failure, status, heap, loggers, log>>

\* A request that cannot be decoded reaches none of the interceptors.
RefuseRequest(c) ==
    /\ stage[c] = "new"
    /\ Goto(c, "done")
    /\ failure' = [failure EXCEPT ![c] = Returned("undecoded", <<>>)]
    /\ status' = [status EXCEPT ![c] = Says("Internal", "message")]
    /\ UNCHANGED <<request, ctx, header, heap, loggers, log>>

\* The client's id, or one minted for this call: it stands for that id itself.
SeedRequestID(c) ==
    /\ stage[c] = "requestID"
    /\ Goto(c, "logging")
    /\ header' = [header EXCEPT ![c] = IF request[c].id = "" THEN c ELSE request[c].id]
    /\ ctx' = [ctx EXCEPT ![c] = WithRequestID(@, header'[c])]
    /\ UNCHANGED <<request, failure, status, heap, loggers, log>>

\* The logger goes into the context of the call.
EnterLogging(c) ==
    /\ stage[c] = "logging"
    /\ Goto(c, "handler")
    /\ UNCHANGED <<request, ctx, header, failure, status, heap, loggers, log>>

\* A handler derives a logger from one that it has, and keeps both.
Derive(c, links, link, made) ==
    /\ stage[c] = "handler"
    /\ Len(made.heap) <= MaxArrays
    /\ heap' = [heap EXCEPT ![c] = made.heap]
    /\ LET chain == Append(links, link)
       IN  loggers' = [loggers EXCEPT ![c] = [l \in DOMAIN @ \cup {chain} |->
                          IF l = chain THEN made.logger ELSE @[l]]]
    /\ UNCHANGED <<stage, request, ctx, header, failure, status, log>>

DeriveAttrs(c, links) ==
    Derive(c, links, Attributes({<<"step", c>>}),
           WithAttrs(heap[c], loggers[c][links], {<<"step", c>>}))

DeriveGroup(c, links) ==
    Derive(c, links, Group("db"), WithGroup(heap[c], loggers[c][links], "db"))

\* What a handler has derived ends with it.
Leave(c, failed) ==
    /\ failure' = [failure EXCEPT ![c] = failed]
    /\ loggers' = [loggers EXCEPT ![c] = OnlyNew]
    /\ heap' = [heap EXCEPT ![c] = <<>>]

\* GetUser is for the user itself and for admins.
Refuses(c) ==
    /\ request[c].asks # "other"
    /\ ~CanAccessUser(CallerFromMetadata(request[c].md), request[c].asks)

Deny(c) ==
    /\ stage[c] = "handler"
    /\ Refuses(c)
    /\ Goto(c, "returned")
    /\ Leave(c, Returned("denied", <<>>))
    /\ status' = [status EXCEPT ![c] = Says("PermissionDenied", "message")]
    /\ UNCHANGED <<request, ctx, header, log>>

Return(c, err) ==
    /\ stage[c] = "handler"
    /\ ~Refuses(c)
    /\ Goto(c, "returned")
    /\ Leave(c, Returned("error", err))
    /\ status' = [status EXCEPT ![c] = ToStatus(err)]
    /\ UNCHANGED <<request, ctx, header, log>>

\* The line says what the status says: that is the error it was handed.
LogCall(c) ==
    /\ stage[c] = "returned"
    /\ Goto(c, "done")
    /\ Write(c, "call", Level(status[c].code), status[c].text, ctx[c],
             {<<"grpc.code", status[c].code>>})
    /\ UNCHANGED <<request, ctx, header, failure, status, heap, loggers>>

\* A panic leaves the frames of logging and request id without a line of theirs.
Panic(c) ==
    /\ stage[c] = "handler"
    /\ ~Refuses(c)
    /\ Goto(c, "panicking")
    /\ Leave(c, Returned("panic", <<>>))
    /\ UNCHANGED <<request, ctx, header, status, log>>

\* The context of the recovery interceptor has no request id yet.
Recover(c) ==
    /\ stage[c] = "panicking"
    /\ Goto(c, "done")
    /\ Write(c, "panic", "error", "chain", [EmptyContext EXCEPT !.span = ctx[c].span],
             {<<"panic", c>>})
    /\ status' = [status EXCEPT ![c] = Says("Internal", "generic")]
    /\ UNCHANGED <<request, ctx, header, failure, heap, loggers>>

Step(c) ==
    \/ \E r \in Request : Enter(c, r)
    \/ RefuseRequest(c)
    \/ SeedRequestID(c)
    \/ EnterLogging(c)
    \/ \E links \in DOMAIN loggers[c] : DeriveAttrs(c, links) \/ DeriveGroup(c, links)
    \/ Deny(c)
    \/ \E err \in Err : Return(c, err)
    \/ LogCall(c)
    \/ Panic(c)
    \/ Recover(c)

Next == \E c \in Call : Step(c)

Spec == Init /\ [][Next]_vars

-----------------------------------------------------------------------------
Over(c) == stage[c] = "done"
OwnFault(err) ==
    /\ err # <<>>
    /\ \A i \in DOMAIN err :
        err[i] \in {"plain", "internal"} \/ \E j \in 1..(i - 1) : err[j] = "internal"
OfOurs(c) == failure[c].how = "panic" \/ OwnFault(failure[c].err)

\* A client is told of success exactly when the handler succeeded, is never told
\* more of a failure of ours than that there was one, and is never given a user
\* that is not itself unless one of its roles is admin; a client that says nothing of
\* itself is nobody, even to one that asks for nobody.
AnswerIsHonest ==
    \A c \in Call : Over(c) =>
        /\ status[c].code = "OK" <=> failure[c] = Returned("error", <<>>)
        /\ OfOurs(c) => status[c] = Says("Internal", "generic")
        /\ status[c].code = "OK" /\ request[c].asks # "other" =>
               \/ request[c].asks = request[c].md.userID /\ request[c].asks # None
               \/ request[c].md.roles # None /\ "admin" \in request[c].md.roles

\* Both transports give a failure the same kind, whatever it was wrapped in on
\* its way up, and either both show its message or neither does.
Names == {<<"InvalidArgument", "INVALID">>, <<"NotFound", "NOT_FOUND">>,
          <<"AlreadyExists", "CONFLICT">>, <<"Unauthenticated", "UNAUTHORIZED">>,
          <<"PermissionDenied", "FORBIDDEN">>, <<"Internal", "INTERNAL">>}
TransportsAgree ==
    \A c \in Call : failure[c].how = "error" /\ failure[c].err # <<>> =>
        LET graphql == ToGraphQLError(failure[c].err)
        IN  /\ <<status[c].code, graphql.code>> \in Names
            /\ status[c].text = graphql.text

\* The values under a key, each with the groups around it.
At(attrs, key) == {<<a.path, a.attr[2]>> : a \in {b \in attrs : b.attr[1] = key}}

\* The line of a call, and whatever its handler writes through any logger, can be
\* found by the id in the client's hands, the one it sent or the one it got back,
\* and by no other call's.  The id stands outside of every group, once; so does the
\* span if the call has one, on the line of a panic too.
LineIsCorrelated ==
    /\ \A l \in log :
        /\ l.line = "call" => At(l.attrs, "request_id") = {<<{}, header[l.of]>>}
        /\ request[l.of].id # "" => header[l.of] = request[l.of].id
        /\ ctx[l.of].span # "" => At(l.attrs, "span") = {<<{}, l.of>>}
    /\ \A c \in Call : stage[c] = "handler" => \A links \in DOMAIN loggers[c] :
        At(Writes(c, links, ctx[c], {}), "request_id") = {<<{}, header[c]>>}
    /\ \A c, d \in Call : header[c] = d => c = d

\* What a handler writes through a logger carries what that logger was made with:
\* each attribute at the depth at which it was added, and nothing that was added
\* to another derived from the same one.
LoggersKeepTheirChain ==
    \A c \in Call : \A links \in DOMAIN loggers[c] :
        LET steps == {i \in DOMAIN links : links[i].attrs # {}}
            depth(i) == Cardinality({j \in 1..(i - 1) : links[j].group = "db"})
            attrs == Writes(c, links, ctx[c], {<<"said", c>>})
        IN  /\ {<<Cardinality(a[1]), a[2]>> : a \in At(attrs, "step")} = {<<depth(i), c>> : i \in steps}
            /\ \A a \in At(attrs, "said") : Cardinality(a[1]) = depth(Len(links) + 1)

\* A call that is over has one line of its own, at level error exactly when the
\* fault is the service's own: an alert on that level sees each of them and
\* nothing else.  Only a request that could not be decoded has none.
FaultsRaiseErrors ==
    \A c \in Call : Over(c) =>
        LET lines == {l \in log : l.of = c}
        IN  /\ Cardinality(lines) = IF failure[c].how = "undecoded" THEN 0 ELSE 1
            /\ (\E l \in lines : l.level = "error") <=> OfOurs(c)

-----------------------------------------------------------------------------
(* The inductive invariant. *)

\* What the handler of a call did, and what its client is told of that.
Denied(c) ==
    Refuses(c) /\ failure[c] = Returned("denied", <<>>)
               /\ status[c] = Says("PermissionDenied", "message")
Replied(c) ==
    ~Refuses(c) /\ \E err \in Err : failure[c] = Returned("error", err) /\ status[c] = ToStatus(err)
Panicked(c) ==
    ~Refuses(c) /\ failure[c] = Returned("panic", <<>>) /\ status[c] = Says("Internal", "generic")
Undecoded(c) ==
    failure[c] = Returned("undecoded", <<>>) /\ status[c] = Says("Internal", "message")

EndOf(c) ==
    /\ stage[c] \in {"new", "requestID", "logging", "handler", "returned", "panicking", "done"}
    /\ request[c] \in Metadata
    /\ stage[c] \in {"new", "requestID", "logging", "handler"} =>
           failure[c] = Returned("error", <<>>)
    /\ stage[c] = "returned" => Denied(c) \/ Replied(c)
    /\ stage[c] = "panicking" => failure[c] = Returned("panic", <<>>) /\ ~Refuses(c)
    /\ stage[c] = "done" => Denied(c) \/ Replied(c) \/ Panicked(c) \/ Undecoded(c)

\* From the interceptor of the request ids on, a call has its id.
Seeded(c) ==
    /\ header[c] = IF request[c].id = "" THEN c ELSE request[c].id
    /\ ctx[c].request_id = header[c]

IdOf(c) ==
    /\ header[c] \in {"", c} \cup Id
    /\ ctx[c] \in [span : {"", c}, request_id : {"", c} \cup Id, user_id : {""}]
    /\ stage[c] \in {"new", "requestID"} => ctx[c].request_id = ""
    /\ stage[c] \in {"logging", "handler", "returned", "panicking"} => Seeded(c)
    /\ stage[c] = "done" => Undecoded(c) \/ Seeded(c)

\* The links of the loggers that a handler derives; what a logger writes is found
\* in its own array as it was when it was made.
Links(c) == {Attributes({<<"step", c>>}), Group("db")}

ChainOf(c) ==
    /\ stage[c] # "handler" => heap[c] = <<>> /\ loggers[c] = OnlyNew
    /\ heap[c] \in Seq(Seq(Links(c)))
    /\ \A links \in DOMAIN loggers[c] :
        /\ links \in Seq(Links(c))
        /\ loggers[c][links].array \in 0 .. Len(heap[c])
        /\ loggers[c][links].len = Len(links)
        /\ Chain(heap[c], loggers[c][links]) = links

\* The log is the lines of the calls that are over.
PanicLine(c) ==
    [of |-> c, line |-> "panic", level |-> "error", text |-> "chain",
     attrs |-> Handle(<<>>, New, [EmptyContext EXCEPT !.span = ctx[c].span], {<<"panic", c>>})]
CallLine(c) ==
    [of |-> c, line |-> "call", level |-> Level(status[c].code), text |-> status[c].text,
     attrs |-> Handle(<<>>, New, ctx[c], {<<"grpc.code", status[c].code>>})]
LineOf(c) == IF failure[c].how = "panic" THEN PanicLine(c) ELSE CallLine(c)
Logged(c) == stage[c] = "done" /\ failure[c].how # "undecoded"

LogInv == log = {LineOf(c) : c \in {d \in Call : Logged(d)}}

\* Each call has its entry in each of the variables.
Total ==
    /\ DOMAIN stage = Call /\ DOMAIN request = Call /\ DOMAIN ctx = Call
    /\ DOMAIN header = Call /\ DOMAIN failure = Call /\ DOMAIN status = Call
    /\ DOMAIN heap = Call /\ DOMAIN loggers = Call

Inv == Total /\ (\A c \in Call : EndOf(c) /\ IdOf(c) /\ ChainOf(c)) /\ LogInv

-----------------------------------------------------------------------------
\* The chain of an error that is hidden from the caller is in the log.  (It is
\* not: the logging interceptor gets the status that hides it.)
ChainIsLogged ==
    \A c \in Call : Over(c) /\ failure[c].how = "error" /\ OfOurs(c) =>
        \E l \in log : l.of = c /\ l.text = "chain"
=============================================================================
