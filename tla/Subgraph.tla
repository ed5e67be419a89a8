------------------------------- MODULE Subgraph -------------------------------
(***************************************************************************)
(* One request to the federated GraphQL subgraph: the middleware that      *)
(* lifts the caller out of the router's headers, the generated executor    *)
(* with its concurrent query fields and its serial mutation fields, the    *)
(* entity resolution of federation, the resolvers, and the response.       *)
(* Meanwhile other clients register accounts.                              *)
(***************************************************************************)
EXTENDS Naturals, FiniteSets, Functions, ErrorKinds, Principal, PasswordHash

CONSTANTS
    Unknown,    \* keys of no account: malformed, or never issued
    Null,       \* the JSON null
    Operation   \* the operations that clients and the router send

VARIABLES
    hash,       \* the password hash of each registered user, None for the others
    claims,     \* the claims of the request's token, or None
    op,         \* the operation of the request
    phase,      \* "received", "executing" or "answered"
    caller,     \* the identity in the request's context
    field,      \* where each root field stands
    value,      \* out.Values
    invalids,   \* out.Invalids
    task,       \* where the goroutine of each representation stands
    list,       \* the entities resolved so far
    wait,       \* the wait group of each group of representations
    errors,     \* the errors of the response
    committed,  \* the root fields whose use case has written to the database
    data        \* the data of the response

resolving == <<task, list, wait>>
vars == <<hash, claims, op, phase, caller, field, value, invalids, resolving,
          errors, committed, data>>

accounts == {u \in User : hash[u] # None}

-----------------------------------------------------------------------------
(* The schema, and operations over it.                                      *)

Req(type) == [type |-> type, nullable |-> FALSE]
Opt(type) == [type |-> type, nullable |-> TRUE]

\* The types that clients see.  A list is named by its elements: of the roles
\* none may be null, of the entities any may.
Schema ==
    [User |-> [id |-> Req("ID"), email |-> Req("String"), roles |-> Req("[String!]"),
               createdAt |-> Req("Time")],
     AuthPayload |-> [accessToken |-> Req("String"), refreshToken |-> Req("String"),
                      accessTokenExpiresAt |-> Req("Time")],
     _Service |-> [sdl |-> Opt("String")],
     query |-> [me |-> Req("User"), _entities |-> Req("[_Entity]"), _service |-> Req("_Service"),
                __type |-> Opt("__Type"), __schema |-> Opt("__Schema"), __typename |-> Req("String")],
     mutation |-> [registerUser |-> Req("User"), loginUser |-> Req("AuthPayload"),
                   __typename |-> Req("String")]]

UserFields == DOMAIN Schema.User
AuthPayloadFields == DOMAIN Schema.AuthPayload

\* A reference to an entity.  One without a __typename has type None, one
\* without a key or with a null one has id None; "scalar" is no JSON object.
Representation == [type : {"User", "Order", "scalar", None}, id : User \cup Unknown \cup {None}]

\* A root field, with the selection of its object and its arguments: the
\* representations, the address and the password, and whether the address is well
\* formed, or the name of a type one of the schema.
Field == [name : DOMAIN Schema.query \cup DOMAIN Schema.mutation,
          sel : SUBSET (UserFields \cup AuthPayloadFields \cup {"sdl"}),
          reps : Seq(Representation), user : User \cup {None},
          password : Password \cup {None}, good : BOOLEAN]

\* What may be selected of a field's value; the entities are users.
Selectable(name) ==
    CASE name \in {"me", "_entities", "registerUser"} -> UserFields
      [] name = "loginUser" -> AuthPayloadFields
      [] name = "_service" -> DOMAIN Schema._Service
      [] OTHER -> {}

\* An operation that is not of the schema is refused before it is executed.
ASSUME SubgraphAssumption ==
    /\ Null \notin User \cup Unknown \cup {None} /\ None \notin User
    /\ Unknown \cap User = {}
    /\ Operation \subseteq [kind : {"query", "mutation"}, fields : Seq(Field)]
    /\ \A o \in Operation : \A i \in DOMAIN o.fields :
        LET f == o.fields[i]
        IN  /\ f.name \in DOMAIN Schema[o.kind] /\ f.sel \subseteq Selectable(f.name)
            /\ f.name \in {"registerUser", "loginUser"} => f.user \in User /\ f.password \in Password

Asked == DOMAIN op.fields
Name(i) == op.fields[i].name
Sel(i) == op.fields[i].sel
Reps(i) == op.fields[i].reps
Inline(i) == Name(i) \in {"__typename", "__type", "__schema"}
Entities(i) == {i} \X DOMAIN Reps(i)
Rep(t) == Reps(t[1])[t[2]]
Tasks == UNION {Entities(i) : i \in {j \in Asked : Name(j) = "_entities"}}

\* Representations of a root field that share a type name.
GroupOf(t) == <<t[1], Rep(t).type>>
Groups == {GroupOf(t) : t \in {s \in Tasks : Rep(s).type # None}}

\* An error of a root field, or of one representation of it.  (On the wire the
\* path of both is that of the root field.)
Fault(i, k, code) == [at |-> i, of |-> k, code |-> code]
FaultsAt(i, k) == {e \in errors : e.at = i /\ e.of = k}

-----------------------------------------------------------------------------
(* Objects, as the executor writes them: a field is shown by its name and   *)
(* the account it was read from.                                            *)

UserView(u) == [f \in UserFields |-> <<f, u>>]
AuthPayloadView(u) == [f \in AuthPayloadFields |-> <<f, u>>]

\* The schema's own text, without the sources that are built in.
ServiceView == [f \in {"sdl"} |-> <<"sdl", "schema.graphql">>]

UserObject(sel, u) == Restrict(UserView(u), sel)
AuthPayloadObject(sel, u) == Restrict(AuthPayloadView(u), sel)
ServiceObject(sel) == Restrict(ServiceView, sel)

\* The values that a field may have; None while it has none.
Object == {UserObject(sel, u) : sel \in SUBSET UserFields, u \in User}
            \cup {AuthPayloadObject(sel, u) : sel \in SUBSET AuthPayloadFields, u \in User}
            \cup {ServiceObject(sel) : sel \in SUBSET DOMAIN ServiceView}
List(f) == [DOMAIN f.reps -> Object \cup {Null}]
Text == {"typename", "type", "schema"}
Values(f) ==
    CASE f.name \in {"__typename", "__type", "__schema"} -> Text \cup {None, Null}
      [] f.name = "_entities" -> List(f) \cup {None, Null}
      [] OTHER -> Object \cup {None, Null}

\* What is absent or null is nothing else.
ASSUME AbsenceAssumption ==
    /\ None \notin RoleLists \cup Encoded \cup [userID : User, roles : RoleLists]
    /\ \A absent \in {None, Null} :
        /\ absent \notin Text /\ absent \notin Object
        /\ \A o \in Operation :
            LET Lists == UNION {List(f) : f \in Range(o.fields)}
            IN  absent \notin Lists \cup [DOMAIN o.fields -> Lists \cup Object \cup Text \cup {None, Null}]

\* Introspection: a name that is no type's gives null, and no error.
Introspect(f) == IF f.name = "__schema" THEN "schema" ELSE IF f.good THEN "type" ELSE Null

-----------------------------------------------------------------------------
(* The resolvers.  An outcome is an account, or the code of an error.       *)

Found(u) == [user |-> u, code |-> "none", ok |-> TRUE]
Refused(err) == [user |-> None, code |-> ToGraphQLError(err).code, ok |-> FALSE]

\* An error of the executor's own, or a panic of a resolver: it has no code.
Broken == [user |-> None, code |-> "none", ok |-> FALSE]

Unauthorized == Refused(<<"unauthorized">>)
DatabaseFails == Refused(<<"plain", "plain">>)

\* A stored role that is none wraps the error of parsing it.
CorruptRole == Refused(Wrap("plain", Wrap("internal", <<"invalid">>)))

NotFound == Refused(Wrap("plain", <<"notFound">>))

\* The outcomes of looking up a key: one that is no uuid is of no account.
GetUser(id) ==
    {DatabaseFails, Broken} \cup
    IF id \in accounts THEN {Found(id), CorruptRole} ELSE {NotFound}

MeOutcomes == IF caller = None THEN {Unauthorized} ELSE GetUser(caller.userID)

\* The outcomes of a registration and of a login that write nothing.
Registrable(f) == f.good /\ IsValid(f.password)

NotRegistered(f) ==
    CASE ~Registrable(f) -> {Refused(Wrap("plain", <<"invalid">>)), Broken}
      [] Registrable(f) /\ f.user \in accounts ->
            {Refused(Wrap("plain", <<"conflict">>)), DatabaseFails, Broken}
      [] OTHER -> {DatabaseFails, Broken}

Known(f) == f.good /\ f.user \in accounts
Verified(f) == Known(f) /\ Verify(f.password, hash[f.user]).ok

NotLoggedIn(f) ==
    LET verify == Verify(f.password, hash[f.user])
    IN  CASE ~f.good -> {Unauthorized, Broken}
          [] f.good /\ ~Known(f) -> {Unauthorized, DatabaseFails, Broken}
          [] Known(f) /\ verify.err # <<>> ->
                {Refused(Wrap("plain", verify.err)), CorruptRole, DatabaseFails, Broken}
          [] Known(f) /\ verify.err = <<>> /\ ~verify.ok ->
                {Unauthorized, CorruptRole, DatabaseFails, Broken}
          [] OTHER -> {CorruptRole, DatabaseFails, Broken}

\* Of a User a key is asked for; no other type is known.
HasResolver(rep) == rep.type = "User" /\ rep.id # None
EntityOutcomes(rep) == IF HasResolver(rep) THEN GetUser(rep.id) ELSE {Broken}

-----------------------------------------------------------------------------
(* The executor.                                                            *)

\* Accounts of this release, of an earlier one, or with hashes that cannot be read.
Stored == {Encode("secret", p) : p \in Params}
            \cup {[Hash("secret") EXCEPT !.algorithm = "bcrypt"], [Hash("secret") EXCEPT !.params = "malformed"]}

Init ==
    /\ \E registered \in SUBSET User, h \in Stored :
        hash = [u \in User |-> IF u \in registered THEN h ELSE None]
    /\ claims \in {None} \cup [sub : accounts, roles : RoleLists]
    /\ op \in Operation
    /\ phase = "received"
    /\ caller = None
    /\ field = [i \in Asked |-> "none"]
    /\ value = [i \in Asked |-> None]
    /\ invalids = 0
    /\ task = [t \in Tasks |-> "none"]
    /\ list = [t \in Tasks |-> Null]
    /\ wait = [g \in Groups |-> 0]
    /\ errors = {}
    /\ committed = {}
    /\ data = None

\* Fields that need no resolver have their value at once.
InlineValue(i) ==
    CASE Name(i) = "__typename" -> "typename"
      [] Inline(i) /\ Name(i) # "__typename" -> Introspect(op.fields[i])
      [] OTHER -> None

\* The middleware has read the caller when the executor starts the operation.
Execute ==
    /\ phase = "received"
    /\ phase' = "executing"
    /\ caller' = Lift(Forward(claims))
    /\ field' = [i \in Asked |-> IF Inline(i) THEN "done" ELSE "started"]
    /\ value' = [i \in Asked |-> InlineValue(i)]
    /\ UNCHANGED <<hash, claims, op, invalids, resolving, errors, committed, data>>

\* Mutant of InOrder: a mutation's fields are dispatched as a query's are.
AtOnce(i) == op.kind \in {"query", "mutation"}

\* The fields of a mutation run one after the other, whether or not they fail.
InOrder(i) == op.kind = "mutation" => \A j \in Asked : j < i => field[j] = "done"

\* The fields of a query run in goroutines of their own.
Runs(i, name) ==
    /\ phase = "executing"
    /\ Name(i) = name
    /\ field[i] = "started"
    /\ InOrder(i)

\* Mutant of Finish: a null is not counted.
FinishUncounted(i, v, faults) ==
    /\ field' = [field EXCEPT ![i] = "done"]
    /\ value' = [value EXCEPT ![i] = v]
    /\ errors' = errors \cup faults
    /\ UNCHANGED invalids

\* The value is stored and the error added; a null is counted.
Finish(i, v, faults) ==
    /\ field' = [field EXCEPT ![i] = "done"]
    /\ value' = [value EXCEPT ![i] = v]
    /\ errors' = errors \cup faults
    /\ invalids' = IF v = Null THEN invalids + 1 ELSE invalids

Fail(i, o) == Finish(i, Null, {Fault(i, 0, o.code)})

FinishUser(i, o) == IF o.ok THEN Finish(i, UserObject(Sel(i), o.user), {}) ELSE Fail(i, o)

Me(i) ==
    /\ Runs(i, "me")
    /\ \E o \in MeOutcomes : FinishUser(i, o)
    /\ UNCHANGED <<hash, claims, op, phase, caller, resolving, committed, data>>

Service(i) ==
    /\ Runs(i, "_service")
    /\ Finish(i, ServiceObject(Sel(i)), {})
    /\ UNCHANGED <<hash, claims, op, phase, caller, resolving, committed, data>>

RefuseRegistration(i) ==
    /\ Runs(i, "registerUser")
    /\ \E o \in NotRegistered(op.fields[i]) : Fail(i, o)
    /\ UNCHANGED <<hash, claims, op, phase, caller, resolving, committed, data>>

\* The use case writes the account.  Its commit may be reported as a failure;
\* otherwise the account is read back, which may fail as well.
Register(i) ==
    /\ Runs(i, "registerUser")
    /\ Registrable(op.fields[i]) /\ op.fields[i].user \notin accounts
    /\ hash' = [hash EXCEPT ![op.fields[i].user] = Hash(op.fields[i].password)]
    /\ committed' = committed \cup {i}
    /\ \/ Fail(i, DatabaseFails)
       \/ /\ field' = [field EXCEPT ![i] = "registered"]
          /\ UNCHANGED <<value, invalids, errors>>
    /\ UNCHANGED <<claims, op, phase, caller, resolving, data>>

ReadBack(i) ==
    /\ field[i] = "registered"
    /\ \E o \in GetUser(op.fields[i].user) : FinishUser(i, o)
    /\ UNCHANGED <<hash, claims, op, phase, caller, resolving, committed, data>>

RefuseLogin(i) ==
    /\ Runs(i, "loginUser")
    /\ \E o \in NotLoggedIn(op.fields[i]) : Fail(i, o)
    /\ UNCHANGED <<hash, claims, op, phase, caller, resolving, committed, data>>

\* A session is written before its tokens are handed out; its commit may be
\* reported as a failure.
Login(i) ==
    /\ Runs(i, "loginUser")
    /\ Verified(op.fields[i])
    /\ committed' = committed \cup {i}
    /\ \/ Fail(i, DatabaseFails)
       \/ Finish(i, AuthPayloadObject(Sel(i), op.fields[i].user), {})
    /\ UNCHANGED <<hash, claims, op, phase, caller, resolving, data>>

-----------------------------------------------------------------------------
(* Federation: a goroutine for each representation writes its slot of a     *)
(* shared list; those of one type are a group with a wait group of its own. *)

\* The argument is decoded first: one that is no object fails the root field.
Decodes(i) == \A k \in DOMAIN Reps(i) : Reps(i)[k].type # "scalar"

RefuseArguments(i) ==
    /\ Runs(i, "_entities")
    /\ ~Decodes(i)
    /\ Fail(i, Broken)
    /\ UNCHANGED <<hash, claims, op, phase, caller, resolving, committed, data>>

Members(i) == {t \in Entities(i) : Rep(t).type # None}
Untyped(i) == Entities(i) \ Members(i)

Size(g) == Cardinality({t \in Members(g[1]) : GroupOf(t) = g})

\* A representation without a type is skipped with an error.
StartEntities(i) ==
    /\ Runs(i, "_entities")
    /\ Decodes(i)
    /\ field' = [field EXCEPT ![i] = "resolving"]
    /\ wait' = [g \in Groups |-> IF g[1] = i THEN Size(g) ELSE wait[g]]
    /\ task' = [t \in Tasks |-> IF t \in Members(i) THEN "started" ELSE task[t]]
    /\ errors' = errors \cup {Fault(i, t[2], "none") : t \in Untyped(i)}
    /\ UNCHANGED <<hash, claims, op, phase, caller, value, invalids, list, committed, data>>

\* Mutant of SlotOf: the position within the group.
SlotInGroup(t) == <<t[1], Cardinality({s \in Members(t[1]) : GroupOf(s) = GroupOf(t) /\ s[2] <= t[2]})>>

\* The slot of a representation is that of its index in the argument.
SlotOf(t) == t

\* Mutant of ResolveEntity: a panic ends the goroutine.
ResolveEntityUnrecovered(t) ==
    /\ task[t] = "started"
    /\ \E o \in EntityOutcomes(Rep(t)) :
        /\ task' = [task EXCEPT ![t] = IF o = Broken THEN "gone" ELSE "returned"]
        /\ list' = IF o.ok THEN [list EXCEPT ![SlotOf(t)] = o.user] ELSE list
        /\ errors' = IF o.ok THEN errors ELSE errors \cup {Fault(t[1], t[2], o.code)}
    /\ UNCHANGED <<hash, claims, op, phase, caller, field, value, invalids, wait,
                   committed, data>>

\* A panic has been turned into an error, so every goroutine gets this far.
ResolveEntity(t) ==
    /\ task[t] = "started"
    /\ task' = [task EXCEPT ![t] = "returned"]
    /\ \E o \in EntityOutcomes(Rep(t)) :
        /\ list' = IF o.ok THEN [list EXCEPT ![SlotOf(t)] = o.user] ELSE list
        /\ errors' = IF o.ok THEN errors ELSE errors \cup {Fault(t[1], t[2], o.code)}
    /\ UNCHANGED <<hash, claims, op, phase, caller, field, value, invalids, wait,
                   committed, data>>

Done(t) ==
    /\ task[t] = "returned"
    /\ task' = [task EXCEPT ![t] = "gone"]
    /\ wait' = [wait EXCEPT ![GroupOf(t)] = @ - 1]
    /\ UNCHANGED <<hash, claims, op, phase, caller, field, value, invalids, list,
                   errors, committed, data>>

\* Mutant of GroupsDone: the first group to be done ends the wait.
SomeGroupDone(i) == \E g \in Groups : g[1] = i /\ wait[g] = 0

GroupsDone(i) == \A g \in Groups : g[1] = i => wait[g] = 0

\* An entity that was not resolved is null in its place.
Entity(i, k) == IF list[<<i, k>>] = Null THEN Null ELSE UserObject(Sel(i), list[<<i, k>>])

MarshalEntities(i) ==
    /\ field[i] = "resolving"
    /\ GroupsDone(i)
    /\ Finish(i, [k \in DOMAIN Reps(i) |-> Entity(i, k)], {})
    /\ UNCHANGED <<hash, claims, op, phase, caller, resolving, committed, data>>

-----------------------------------------------------------------------------
\* The response is written once every field is done.
Answer ==
    /\ phase = "executing"
    /\ \A i \in Asked : field[i] = "done"
    /\ phase' = "answered"
    /\ data' = IF invalids > 0 THEN Null ELSE value
    /\ UNCHANGED <<hash, claims, op, caller, field, value, invalids, resolving,
                   errors, committed>>

OthersRegister(u) ==
    /\ phase # "answered"
    /\ u \notin accounts
    /\ hash' = [hash EXCEPT ![u] = Hash("secret")]
    /\ UNCHANGED <<claims, op, phase, caller, field, value, invalids, resolving,
                   errors, committed, data>>

Step ==
    \/ Execute \/ Answer
    \/ \E i \in Asked :
        \/ Me(i) \/ Service(i) \/ RefuseRegistration(i) \/ Register(i) \/ ReadBack(i)
        \/ RefuseLogin(i) \/ Login(i)
        \/ RefuseArguments(i) \/ StartEntities(i) \/ MarshalEntities(i)
    \/ \E t \in Tasks : ResolveEntity(t) \/ Done(t)

Next == Step \/ \E u \in User : OthersRegister(u)

Spec == Init /\ [][Next]_vars

\* The runtime schedules every goroutine, and no call of a resolver hangs.
FairSpec == Spec /\ WF_vars(Step)

-----------------------------------------------------------------------------
Answered == phase = "answered"

\* The data of a response is null exactly when a field that the schema declares
\* non-null has failed; otherwise every field asked for is in it.  So an entity
\* that cannot be resolved, or whose resolver panics, costs no other field.
DataFollowsSchema ==
    Answered =>
        /\ data = Null <=> \E i \in Asked : value[i] = Null /\ ~Schema[op.kind][Name(i)].nullable
        /\ data # Null => \A i \in Asked : data[i] # None

\* Every null that stands for a failure is explained by one error of its own,
\* and every error explains one: no failure is silent, not even one of several
\* that strike concurrently, and none is reported of what succeeded.
NullsAreExplained ==
    Answered => \A i \in {j \in Asked : ~Inline(j)} :
        /\ Cardinality(FaultsAt(i, 0)) = IF value[i] = Null THEN 1 ELSE 0
        /\ Name(i) = "_entities" => \A k \in DOMAIN Reps(i) :
            Cardinality(FaultsAt(i, k)) =
                IF value[i] # Null /\ value[i][k] = Null THEN 1 ELSE 0

\* The router merges entities by position: whatever the order in which they
\* are resolved, each slot holds the account that its representation names, and
\* nothing of another, or null.
SlotsKeepTheirPlace ==
    Answered => \A t \in Tasks :
        LET v == value[t[1]]
        IN  v # Null /\ v[t[2]] # Null =>
                /\ Rep(t).type = "User" /\ Rep(t).id \in accounts
                /\ v[t[2]] = [f \in Sel(t[1]) |-> <<f, Rep(t).id>>]

\* "me" is the subject of the request's token, with the roles it carries; with
\* no token the field is refused, and the database is not asked.
MeIsTheSubject ==
    \A i \in Asked : Name(i) = "me" /\ field[i] = "done" =>
        IF claims = None THEN FaultsAt(i, 0) = {Fault(i, 0, "UNAUTHORIZED")}
        ELSE /\ caller = [userID |-> claims.sub, roles |-> claims.roles]
             /\ \/ value[i] = [f \in Sel(i) |-> <<f, claims.sub>>]
                \/ \E e \in FaultsAt(i, 0) : e.code \in {"INTERNAL", "none"}

\* A mutation that has written something is never reported as refused: what a
\* client reads as INVALID, CONFLICT or UNAUTHORIZED has changed nothing.
RefusalsChangeNothing ==
    \A i \in committed : \A e \in FaultsAt(i, 0) : e.code \in {"INTERNAL", "none"}

\* The fields of a mutation take effect in the order they are written: a login
\* after a registration of the same request finds the account, and a second
\* registration does not succeed, whatever became of the first one's answer.
EffectsInOrder ==
    \A i \in Asked : \A j \in committed :
        /\ j < i /\ Name(j) = "registerUser"
        /\ op.fields[i].user = op.fields[j].user /\ op.fields[i].good
        /\ op.fields[i].password = op.fields[j].password
        => /\ Fault(i, 0, "UNAUTHORIZED") \notin errors
           /\ Name(i) = "registerUser" => i \notin committed

\* A login is refused as unauthorized exactly for want of an account or of its
\* password: never because the parameters of the hash are those of an earlier
\* release, nor because the stored hash cannot be read.
PasswordsOutliveParameters ==
    [][\A i \in Asked : Name(i) = "loginUser" =>
        LET f == op.fields[i]
            right == f.good /\ f.user \in accounts /\ hash[f.user].key[1] = f.password
        IN  /\ Fault(i, 0, "UNAUTHORIZED") \in errors' \ errors => ~right
            /\ i \in committed' \ committed => right]_vars

-----------------------------------------------------------------------------
(* The inductive invariant. *)

\* The key of a hash that can be read was made with the parameters it names.
Stores(h) == h \in Encoded /\ (Readable(h) => h.key[2] = h.params)

CallerInv ==
    /\ DOMAIN hash = User /\ \A u \in accounts : Stores(hash[u])
    /\ claims # None => claims \in [sub : User, roles : RoleLists] /\ claims.sub \in accounts
    /\ phase # "received" => caller = Lift(Forward(claims))

\* Each field and each representation has its place.
ShapeInv ==
    /\ op \in Operation /\ invalids \in Nat
    /\ phase \in {"received", "executing", "answered"}
    /\ DOMAIN field = Asked /\ committed \subseteq Asked
    /\ value = [i \in Asked |-> value[i]] /\ \A i \in Asked : value[i] \in Values(op.fields[i])
    /\ DOMAIN task = Tasks /\ DOMAIN list = Tasks /\ DOMAIN wait = Groups

FieldOf(i) ==
    /\ field[i] \in {"none", "started", "registered", "resolving", "done"}
    /\ field[i] = "none" <=> phase = "received"
    /\ Inline(i) => field[i] \in {"none", "done"}
    /\ field[i] = "registered" => Name(i) = "registerUser" /\ i \in committed
    /\ field[i] = "resolving" => Name(i) = "_entities"
    /\ i \in committed => /\ Name(i) \in {"registerUser", "loginUser"}
                          /\ field[i] \in {"registered", "done"}
    /\ op.kind = "mutation" /\ ~Inline(i) /\ field[i] \notin {"none", "started"} =>
           \A j \in Asked : j < i => field[j] = "done"

\* A failure has one error.
Explained(i, k, failed) ==
    IF failed THEN \E e \in errors : FaultsAt(i, k) = {e} ELSE FaultsAt(i, k) = {}

ValueOf(i) ==
    /\ value[i] = None <=> field[i] # "done"
    /\ Inline(i) /\ field[i] = "done" => value[i] = InlineValue(i)
    /\ Explained(i, 0, ~Inline(i) /\ value[i] = Null)
    /\ Name(i) = "_entities" /\ field[i] = "done" /\ value[i] # Null =>
           value[i] = [k \in DOMAIN Reps(i) |-> Entity(i, k)]

\* The representations that have their entity, or will have none.
Settled(t) ==
    \/ task[t] \in {"returned", "gone"}
    \/ /\ Rep(t).type = None
       /\ field[t[1]] = "resolving" \/ (field[t[1]] = "done" /\ value[t[1]] # Null)

TaskOf(t) ==
    /\ task[t] \in {"none", "started", "returned", "gone"}
    /\ task[t] # "none" => Rep(t).type # None /\ field[t[1]] \in {"resolving", "done"}
    /\ Rep(t).type # None /\ field[t[1]] = "resolving" => task[t] # "none"
    /\ field[t[1]] = "done" =>
           task[t] = IF Rep(t).type # None /\ value[t[1]] # Null THEN "gone" ELSE "none"
    /\ task[t] \in {"none", "started"} => list[t] = Null
    /\ list[t] # Null => HasResolver(Rep(t)) /\ list[t] = Rep(t).id /\ list[t] \in accounts
    /\ Explained(t[1], t[2], Settled(t) /\ list[t] = Null)

\* The representations that a wait group counts.
Awaited(g) == {t \in Tasks : GroupOf(t) = g /\ task[t] \in {"started", "returned"}}

WaitInv == \A g \in Groups : wait[g] = Cardinality(Awaited(g))

NullInv ==
    /\ invalids > 0 <=> \E i \in Asked : value[i] = Null /\ ~Schema[op.kind][Name(i)].nullable
    /\ Answered => /\ \A i \in Asked : field[i] = "done"
                   /\ data = IF invalids > 0 THEN Null ELSE value

Inv ==
    /\ CallerInv /\ ShapeInv /\ WaitInv /\ NullInv
    /\ \A i \in Asked : FieldOf(i) /\ ValueOf(i)
    /\ \A t \in Tasks : TaskOf(t)

\* The account that a registration has made is the one it was asked for.
RegisteredInv ==
    \A i \in committed : Name(i) = "registerUser" =>
        hash[op.fields[i].user] = Hash(op.fields[i].password)

-----------------------------------------------------------------------------
\* Every request is answered, whatever fails and whichever resolver panics.
EveryRequestIsAnswered == <>Answered
=============================================================================
