---------------------------- MODULE Subgraph_proofs ----------------------------
(***************************************************************************)
(* The safety of Subgraph for any operations, any number of users, fields  *)
(* and representations, and whatever fails on the way.                     *)
(***************************************************************************)
EXTENDS Subgraph, ErrorKinds_proofs

-----------------------------------------------------------------------------
(* Errors and their codes.                                                  *)

\* An envelope alone decides, and so it does when it is wrapped.
LEMMA EnvelopeCode ==
    ASSUME NEW kind \in Kind
    PROVE  /\ As(<<kind>>) = kind /\ <<kind>> \in Seq(Link) /\ <<kind>> # <<>>
           /\ ToGraphQLError(Wrap("plain", <<kind>>)) = ToGraphQLError(<<kind>>)
<1>1. /\ <<kind>> \in Seq(Link) /\ Len(<<kind>>) = 1 /\ <<kind>>[1] = kind
      /\ DOMAIN <<kind>> = 1 .. 1 /\ kind # "plain"
    BY DEF Kind, Link
<1>2. <<kind>> # <<>>
    BY <1>1, EmptySeq
<1>3. PICK err \in Seq(Link) : err = <<kind>>
    BY <1>1
<1>4. /\ 1 \in DOMAIN err /\ err[1] = kind /\ err[1] # "plain"
      /\ \A j \in DOMAIN err : j < 1 => err[j] = "plain"
    BY <1>1, <1>3
<1>5. As(err) = kind
    BY <1>4, AsOutermost
<1>6. ToGraphQLError(Wrap("plain", err)) = ToGraphQLError(err)
    BY <1>2, <1>3, WrappingKeepsTheAnswer
<1> QED  BY <1>1, <1>2, <1>3, <1>5, <1>6

LEMMA SaysFields == \A code, text : Says(code, text).code = code
    BY DEF Says

\* The code that a client reads of an error is that of its kind.
LEMMA CodeOf ==
    ASSUME NEW err \in Seq(Link)
    PROVE  ToGraphQLError(err).code =
               CASE As(err) = "invalid" -> "INVALID"
                 [] As(err) = "notFound" -> "NOT_FOUND"
                 [] As(err) = "conflict" -> "CONFLICT"
                 [] As(err) = "unauthorized" -> "UNAUTHORIZED"
                 [] As(err) = "forbidden" -> "FORBIDDEN"
                 [] OTHER -> "INTERNAL"
<1>1. As(err) \in {"invalid", "notFound", "conflict", "unauthorized", "forbidden", "internal", "none"}
    BY AsType DEF Kind
<1>2. \/ As(err) = "invalid" /\ ToGraphQLError(err) = Says("INVALID", "message")
      \/ As(err) = "notFound" /\ ToGraphQLError(err) = Says("NOT_FOUND", "message")
      \/ As(err) = "conflict" /\ ToGraphQLError(err) = Says("CONFLICT", "message")
      \/ As(err) = "unauthorized" /\ ToGraphQLError(err) = Says("UNAUTHORIZED", "message")
      \/ As(err) = "forbidden" /\ ToGraphQLError(err) = Says("FORBIDDEN", "message")
      \/ As(err) \in {"internal", "none"} /\ ToGraphQLError(err) = Says("INTERNAL", "generic")
    BY <1>1 DEF ToGraphQLError, IsKind
<1> QED  BY <1>2, SaysFields

\* The outcomes that are failures, and their codes.
Failed(o, code) == o.ok = FALSE /\ o.code = code

LEMMA Codes ==
    /\ Failed(Broken, "none") /\ Failed(Unauthorized, "UNAUTHORIZED")
    /\ Failed(DatabaseFails, "INTERNAL") /\ Failed(CorruptRole, "INTERNAL")
    /\ Failed(NotFound, "NOT_FOUND")
    /\ Failed(Refused(Wrap("plain", <<"invalid">>)), "INVALID")
    /\ Failed(Refused(Wrap("plain", <<"conflict">>)), "CONFLICT")
    /\ Failed(Refused(Wrap("plain", <<"internal">>)), "INTERNAL")
<1>1. \A err : Failed(Refused(err), ToGraphQLError(err).code)
    BY DEF Refused, Failed
<1>2. Failed(Broken, "none")
    BY DEF Broken, Failed
<1>3. \A kind \in Kind : /\ Failed(Refused(<<kind>>), ToGraphQLError(<<kind>>).code)
                         /\ Failed(Refused(Wrap("plain", <<kind>>)), ToGraphQLError(<<kind>>).code)
    BY <1>1, EnvelopeCode
<1>4. /\ ToGraphQLError(<<"unauthorized">>).code = "UNAUTHORIZED"
      /\ ToGraphQLError(<<"notFound">>).code = "NOT_FOUND"
      /\ ToGraphQLError(<<"invalid">>).code = "INVALID"
      /\ ToGraphQLError(<<"conflict">>).code = "CONFLICT"
      /\ ToGraphQLError(<<"internal">>).code = "INTERNAL"
    <2>1. ASSUME NEW kind \in Kind
          PROVE  ToGraphQLError(<<kind>>).code =
                     CASE kind = "invalid" -> "INVALID"
                       [] kind = "notFound" -> "NOT_FOUND"
                       [] kind = "conflict" -> "CONFLICT"
                       [] kind = "unauthorized" -> "UNAUTHORIZED"
                       [] kind = "forbidden" -> "FORBIDDEN"
                       [] OTHER -> "INTERNAL"
        <3>1. PICK err \in Seq(Link) : err = <<kind>> /\ As(err) = kind
            BY EnvelopeCode
        <3> QED  BY <3>1, CodeOf
    <2> QED  BY <2>1 DEF Kind
<1>5. Failed(DatabaseFails, "INTERNAL")
    <2>0. <<"plain", "plain">> \in Seq(Link)
        BY DEF Link
    <2>1. PICK err \in Seq(Link) : err = <<"plain", "plain">>
        BY <2>0
    <2>2. \A j \in DOMAIN err : err[j] = "plain"
        BY <2>1
    <2>3. As(err) = "none"
        BY <2>2, AsNone
    <2> QED  BY <1>1, <2>1, <2>3, CodeOf DEF DatabaseFails
<1>6. Failed(CorruptRole, "INTERNAL")
    <2>0. <<"invalid">> \in Seq(Link)
        BY EnvelopeCode DEF Kind
    <2>1. PICK err \in Seq(Link) : err = <<"invalid">>
        BY <2>0
    <2>2. PICK inner : inner = Wrap("internal", err)
        OBVIOUS
    <2>3. As(inner) = "internal"
        BY <2>2, EnvelopeDecides DEF Kind
    <2>4. inner \in Seq(Link) /\ inner # <<>>
        <3>1. <<"internal">> \in Seq(Link) /\ Len(<<"internal">>) = 1
            BY DEF Link, Kind
        <3>2. inner \in Seq(Link) /\ Len(inner) = 1 + Len(err) /\ Len(err) \in Nat
            BY <2>2, <3>1, ConcatProperties, LenProperties DEF Wrap
        <3> QED  BY <3>2, EmptySeq
    <2>5. ToGraphQLError(Wrap("plain", inner)) = ToGraphQLError(inner)
        BY <2>4, WrappingKeepsTheAnswer
    <2>6. ToGraphQLError(inner).code = "INTERNAL"
        BY <2>3, <2>4, CodeOf
    <2> QED  BY <1>1, <2>1, <2>2, <2>5, <2>6 DEF CorruptRole
<1> QED
    BY <1>2, <1>3, <1>4, <1>5, <1>6 DEF Unauthorized, NotFound, Kind

-----------------------------------------------------------------------------
(* The operation.                                                           *)

LEMMA OperationFields ==
    ASSUME op \in Operation
    PROVE  /\ op.kind \in {"query", "mutation"}
           /\ Asked \subseteq Nat
           /\ \A i \in Asked :
                  /\ op.fields[i] \in Field /\ Name(i) \in DOMAIN Schema[op.kind]
                  /\ Sel(i) \subseteq Selectable(Name(i))
                  /\ Name(i) \in {"registerUser", "loginUser"} =>
                         op.fields[i].user \in User /\ op.fields[i].password \in Password
<1>1. op \in [kind : {"query", "mutation"}, fields : Seq(Field)]
    BY SubgraphAssumption
<1>2. op.kind \in {"query", "mutation"} /\ op.fields \in Seq(Field)
    BY <1>1
<1>3. Asked = 1 .. Len(op.fields) /\ Len(op.fields) \in Nat /\ \A i \in Asked : op.fields[i] \in Field
    BY <1>2, LenProperties, ElementOfSeq DEF Asked
<1>4. \A i \in Asked :
          /\ Name(i) \in DOMAIN Schema[op.kind] /\ Sel(i) \subseteq Selectable(Name(i))
          /\ Name(i) \in {"registerUser", "loginUser"} =>
                 op.fields[i].user \in User /\ op.fields[i].password \in Password
    BY SubgraphAssumption DEF Asked, Name, Sel
<1> QED  BY <1>2, <1>3, <1>4
QueryNames == {"me", "_entities", "_service", "__type", "__schema", "__typename"}
MutationNames == {"registerUser", "loginUser", "__typename"}

LEMMA SchemaNames ==
    /\ DOMAIN Schema["query"] = QueryNames
    /\ DOMAIN Schema["mutation"] = MutationNames
    /\ \A name \in QueryNames :
           Schema["query"][name].nullable <=> name \in {"__type", "__schema"}
    /\ \A name \in MutationNames : ~Schema["mutation"][name].nullable
<1>1. /\ DOMAIN Schema["query"] = QueryNames
      /\ DOMAIN Schema["mutation"] = MutationNames
    BY DEF Schema, QueryNames, MutationNames
<1>2. \A type : Opt(type).nullable /\ ~Req(type).nullable
    BY DEF Opt, Req
<1>3. /\ Schema["query"]["me"] = Req("User") /\ Schema["query"]["_entities"] = Req("[_Entity]")
      /\ Schema["query"]["_service"] = Req("_Service") /\ Schema["query"]["__type"] = Opt("__Type")
      /\ Schema["query"]["__schema"] = Opt("__Schema")
      /\ Schema["query"]["__typename"] = Req("String")
    BY DEF Schema
<1>4. /\ Schema["mutation"]["registerUser"] = Req("User")
      /\ Schema["mutation"]["loginUser"] = Req("AuthPayload")
      /\ Schema["mutation"]["__typename"] = Req("String")
    BY DEF Schema
<1>5. ASSUME NEW name \in QueryNames
      PROVE  Schema["query"][name].nullable <=> name \in {"__type", "__schema"}
    BY <1>2, <1>3 DEF QueryNames
<1>6. ASSUME NEW name \in MutationNames PROVE ~Schema["mutation"][name].nullable
    BY <1>2, <1>4 DEF MutationNames
<1> QED  BY <1>1, <1>5, <1>6

\* What a field may be called, and which fields may be null.
LEMMA Names ==
    ASSUME op \in Operation, NEW i \in Asked
    PROVE  /\ op.kind = "query" => Name(i) \in QueryNames
           /\ op.kind = "mutation" => Name(i) \in MutationNames
           /\ Schema[op.kind][Name(i)].nullable <=> Name(i) \in {"__type", "__schema"}
<1>1. op.kind \in {"query", "mutation"} /\ Name(i) \in DOMAIN Schema[op.kind]
    BY OperationFields
<1>2. CASE op.kind = "query"
    BY <1>1, <1>2, SchemaNames
<1>3. CASE op.kind = "mutation"
    BY <1>1, <1>3, SchemaNames DEF MutationNames
<1> QED  BY <1>1, <1>2, <1>3

\* The representations of a field of entities.
LEMMA TaskFields ==
    ASSUME op \in Operation, NEW t \in Tasks
    PROVE  /\ t[1] \in Asked /\ Name(t[1]) = "_entities"
           /\ t[2] \in DOMAIN Reps(t[1]) /\ t[2] \in Nat /\ t[2] # 0
           /\ t = <<t[1], t[2]>> /\ t \in Entities(t[1])
<1>1. PICK i \in Asked : Name(i) = "_entities" /\ t \in {i} \X DOMAIN Reps(i)
    BY DEF Tasks, Entities
<1>2. t[1] = i /\ t[2] \in DOMAIN Reps(i) /\ t = <<t[1], t[2]>>
    BY <1>1
<1>3. Reps(i) \in Seq(Representation)
    BY OperationFields DEF Reps, Field
<1>4. DOMAIN Reps(i) = 1 .. Len(Reps(i)) /\ Len(Reps(i)) \in Nat
    BY <1>3, LenProperties
<1> QED  BY <1>1, <1>2, <1>4 DEF Entities

LEMMA TaskOfField ==
    ASSUME op \in Operation, NEW i \in Asked, Name(i) = "_entities"
    PROVE  /\ Entities(i) \subseteq Tasks
           /\ \A t \in Entities(i) : t[1] = i
           /\ \A k \in DOMAIN Reps(i) : <<i, k>> \in Entities(i)
           /\ IsFiniteSet(Entities(i))
<1>1. Reps(i) \in Seq(Representation)
    BY OperationFields DEF Reps, Field
<1>2. DOMAIN Reps(i) = 1 .. Len(Reps(i)) /\ Len(Reps(i)) \in Nat
    BY <1>1, LenProperties
<1>3. IsFiniteSet(DOMAIN Reps(i))
    BY <1>2, FS_Interval
<1>4. IsFiniteSet({i} \X DOMAIN Reps(i))
    BY <1>3, FS_Singleton, FS_Product
<1> QED  BY <1>4 DEF Tasks, Entities
-----------------------------------------------------------------------------
(* The steps.  A field ends with a value, or with null and an error; a few  *)
(* actions besides write to the database, or start and resolve entities.    *)

\* The operation does not change, nor what is read off it.
LEMMA SameOperation ==
    ASSUME op' = op
    PROVE  /\ Asked' = Asked /\ Tasks' = Tasks /\ Groups' = Groups
           /\ \A i : /\ Name(i)' = Name(i) /\ Sel(i)' = Sel(i) /\ Reps(i)' = Reps(i)
                     /\ Inline(i)' = Inline(i) /\ InlineValue(i)' = InlineValue(i)
                     /\ Entities(i)' = Entities(i)
           /\ \A t : Rep(t)' = Rep(t) /\ GroupOf(t)' = GroupOf(t)
    BY DEF Asked, Tasks, Groups, Name, Sel, Reps, Inline, InlineValue, Entities, Rep, GroupOf

\* An account is added, with the hash of a password; or none is.
Adds(u, p) ==
    /\ u \in User /\ u \notin accounts /\ p \in Password
    /\ hash' = [hash EXCEPT ![u] = Hash(p)]

Failure(i, v, code) == IF v = Null THEN {Fault(i, 0, code)} ELSE {}

Ends(i, v, code) ==
    /\ i \in Asked /\ ~Inline(i) /\ phase = "executing" /\ InOrder(i)
    /\ field[i] \in {"started", "registered", "resolving"}
    /\ Finish(i, v, Failure(i, v, code))
    /\ v \in Values(op.fields[i]) /\ v # None
    /\ \/ Name(i) # "_entities"
       \/ field[i] = "started" /\ v = Null
       \/ field[i] = "resolving" /\ v # Null /\ GroupsDone(i)
            /\ v = [k \in DOMAIN Reps(i) |-> Entity(i, k)]
    /\ UNCHANGED <<claims, op, phase, caller, resolving, data>>

\* What the resolver of the field has written by then.
Wrote(i) ==
    \/ hash' = hash /\ committed' = committed
    \/ /\ field[i] = "started" /\ committed' = committed \cup {i}
       /\ \/ Name(i) = "registerUser" /\ Adds(op.fields[i].user, op.fields[i].password)
          \/ Name(i) = "loginUser" /\ hash' = hash

LEMMA Objects ==
    /\ \A sel, u : sel \subseteq UserFields /\ u \in User => UserObject(sel, u) \in Object
    /\ \A sel, u : sel \subseteq AuthPayloadFields /\ u \in User => AuthPayloadObject(sel, u) \in Object
    /\ \A sel : sel \subseteq DOMAIN ServiceView => ServiceObject(sel) \in Object
    /\ None \notin Object /\ Null \notin Object /\ None # Null
    /\ None \notin Text /\ Null \notin Text
    BY SubgraphAssumption, AbsenceAssumption DEF Object

\* What a lookup may give.
LEMMA Lookups ==
    ASSUME NEW id, NEW o \in GetUser(id)
    PROVE  \/ o.ok = TRUE /\ o.user = id /\ id \in accounts
           \/ o.ok = FALSE /\ o.code = "NOT_FOUND" /\ id \notin accounts
           \/ o.ok = FALSE /\ o.code \in {"INTERNAL", "none"}
<1>1. o \in {DatabaseFails, Broken} \cup IF id \in accounts THEN {Found(id), CorruptRole} ELSE {NotFound}
    BY DEF GetUser
<1>2. Found(id).ok = TRUE /\ Found(id).user = id
    BY DEF Found
<1> QED  BY <1>1, <1>2, Codes DEF Failed

\* A resolver that fails.
LEMMA FailEnds ==
    ASSUME NEW i \in Asked, NEW o, phase = "executing", InOrder(i), ~Inline(i),
           field[i] \in {"started", "registered", "resolving"},
           Name(i) # "_entities" \/ field[i] = "started",
           Fail(i, o), UNCHANGED <<claims, op, phase, caller, resolving, data>>
    PROVE  Ends(i, Null, o.code)
<1>1. Null \in Values(op.fields[i]) /\ Null # None
    BY Objects DEF Values
<1> QED  BY <1>1 DEF Ends, Fail, Failure

\* A resolver that finds its user, or fails.
LEMMA UserEnds ==
    ASSUME op \in Operation, NEW i \in Asked, Name(i) \in {"me", "registerUser"}, NEW id \in User,
           NEW o \in GetUser(id), phase = "executing", InOrder(i),
           field[i] \in {"started", "registered"}, FinishUser(i, o),
           UNCHANGED <<claims, op, phase, caller, resolving, data>>
    PROVE  \/ Ends(i, UserObject(Sel(i), id), "none")
           \/ Ends(i, Null, "NOT_FOUND") /\ id \notin accounts
           \/ Ends(i, Null, o.code) /\ o.code \in {"INTERNAL", "none"}
<1>1. ~Inline(i)
    BY DEF Inline
<1>2. CASE o.ok = TRUE /\ o.user = id
    <2>1. Sel(i) \subseteq UserFields
        BY OperationFields DEF Selectable
    <2>2. UserObject(Sel(i), id) \in Object
        BY <2>1, Objects
    <2>3. Finish(i, UserObject(Sel(i), id), {})
        BY <1>2 DEF FinishUser
    <2>4. UserObject(Sel(i), id) \in Values(op.fields[i])
        BY <2>2 DEF Values, Name
    <2> QED  BY <1>1, <2>2, <2>3, <2>4, Objects DEF Ends, Failure
<1>3. CASE o.ok = FALSE
    <2>1. Fail(i, o)
        BY <1>3 DEF FinishUser
    <2>2. Ends(i, Null, o.code)
        BY <1>1, <2>1, FailEnds
    <2> QED  BY <1>3, <2>2, Lookups
<1> QED  BY <1>2, <1>3, Lookups-----------------------------------------------------------------------------
(* What each resolver may answer.                                           *)

\* The codes of a failure that is nobody's refusal.
Ours == {"INTERNAL", "none"}

\* The password of the account's own hash, whatever its parameters.
Right(f) == f.good /\ f.user \in accounts /\ hash[f.user].key[1] = f.password

Outcome(i, v, code) ==
    /\ Name(i) = "me" =>
           IF claims = None THEN v = Null /\ code = "UNAUTHORIZED"
           ELSE v = UserObject(Sel(i), claims.sub) \/ (v = Null /\ code \in Ours)
    /\ Name(i) = "registerUser" /\ v = Null =>
           code # "UNAUTHORIZED" /\ (i \in committed' => code \in Ours)
    /\ Name(i) = "loginUser" =>
           /\ i \in committed' => Right(op.fields[i]) /\ (v = Null => code \in Ours)
           /\ v = Null /\ code = "UNAUTHORIZED" => ~Right(op.fields[i])

Answers(i) == \E v, code : Ends(i, v, code) /\ Wrote(i) /\ Outcome(i, v, code)

\* A field that can still end runs in its order, and has a name of its kind.
LEMMA Running ==
    ASSUME Inv, NEW i \in Asked, field[i] \in {"started", "registered", "resolving"}
    PROVE  /\ ~Inline(i) /\ phase = "executing" /\ op \in Operation
           /\ field[i] = "started" => i \notin committed
           /\ field[i] # "started" => InOrder(i)
<1>1. FieldOf(i) /\ NullInv /\ ShapeInv
    BY DEF Inv
<1>2. ~Inline(i)
    BY <1>1 DEF FieldOf
<1>3. phase # "received" /\ phase # "answered"
    BY <1>1 DEF FieldOf, NullInv, Answered
<1> QED  BY <1>1, <1>2, <1>3 DEF FieldOf, ShapeInv, InOrder

LEMMA MeAnswers ==
    ASSUME Inv, NEW i \in Asked, Me(i)
    PROVE  Answers(i)
<1>1. /\ Name(i) = "me" /\ field[i] = "started" /\ phase = "executing" /\ InOrder(i)
      /\ hash' = hash /\ committed' = committed
      /\ UNCHANGED <<claims, op, phase, caller, resolving, data>>
    BY DEF Me, Runs
<1>2. PICK o \in MeOutcomes : FinishUser(i, o)
    BY DEF Me
<1>3. /\ caller = Lift(Forward(claims)) /\ None \notin User /\ op \in Operation
      /\ claims # None => claims \in [sub : User, roles : RoleLists]
    BY <1>1, SubgraphAssumption DEF Inv, CallerInv, ShapeInv
<1>4. claims = None => caller = None
    BY <1>3 DEF Lift, Forward
<1>5. claims # None => caller # None /\ caller.userID = claims.sub /\ claims.sub \in User
    <2>1. SUFFICES ASSUME claims # None
                   PROVE  caller # None /\ caller.userID = claims.sub /\ claims.sub \in User
        OBVIOUS
    <2>2. Forward(claims).userID = claims.sub /\ claims.sub # None /\ claims.sub \in User
        BY <1>3, <2>1 DEF Forward
    <2>3. caller = [userID |-> claims.sub, roles |-> SplitRoles(Forward(claims).roles)]
        BY <1>3, <2>2 DEF Lift
    <2>4. SplitRoles(Forward(claims).roles) \in RoleLists
        <3>1. claims.roles \in RoleLists
            BY <1>3, <2>1
        <3>2. \A r \in RoleLists : r \ {""} = r
            BY DEF RoleLists
        <3>3. /\ Forward(claims).roles = IF claims.roles = {} THEN None ELSE claims.roles
              /\ None \notin RoleLists
            BY <2>1, AbsenceAssumption DEF Forward
        <3> QED  BY <3>1, <3>2, <3>3 DEF SplitRoles, RoleLists
    <2>5. caller \in [userID : User, roles : RoleLists]
        BY <2>2, <2>3, <2>4
    <2> QED  BY <2>2, <2>3, <2>5, AbsenceAssumption
<1>6. CASE claims = None
    <2>1. o = Unauthorized
        BY <1>2, <1>4, <1>6 DEF MeOutcomes
    <2>2. Fail(i, o) /\ o.code = "UNAUTHORIZED"
        BY <1>2, <2>1, Codes DEF FinishUser, Failed
    <2>3. ~Inline(i)
        BY <1>1 DEF Inline
    <2>4. Ends(i, Null, o.code)
        BY <1>1, <2>2, <2>3, FailEnds
    <2>5. Outcome(i, Null, "UNAUTHORIZED")
        BY <1>1, <1>6 DEF Outcome
    <2> QED  BY <1>1, <2>2, <2>4, <2>5 DEF Answers, Wrote
<1>7. CASE claims # None
    <2>1. o \in GetUser(claims.sub)
        BY <1>2, <1>5, <1>7 DEF MeOutcomes
    <2>2. claims.sub \in accounts
        BY <1>7 DEF Inv, CallerInv
    <2>3. \/ Ends(i, UserObject(Sel(i), claims.sub), "none")
          \/ Ends(i, Null, o.code) /\ o.code \in {"INTERNAL", "none"}
        BY <1>1, <1>2, <1>3, <1>5, <1>7, <2>1, <2>2, UserEnds
    <2>4. /\ Outcome(i, UserObject(Sel(i), claims.sub), "none")
          /\ o.code \in {"INTERNAL", "none"} => Outcome(i, Null, o.code)
        BY <1>1, <1>7 DEF Outcome, Ours
    <2> QED  BY <1>1, <2>3, <2>4 DEF Answers, Wrote
<1> QED  BY <1>6, <1>7

LEMMA ServiceAnswers ==
    ASSUME Inv, NEW i \in Asked, Service(i)
    PROVE  Answers(i)
<1>1. /\ Name(i) = "_service" /\ field[i] = "started" /\ phase = "executing" /\ InOrder(i)
      /\ hash' = hash /\ committed' = committed /\ Finish(i, ServiceObject(Sel(i)), {})
      /\ UNCHANGED <<claims, op, phase, caller, resolving, data>>
    BY DEF Service, Runs
<1>2. op \in Operation /\ ~Inline(i)
    BY <1>1, Running
<1>3. Sel(i) \subseteq DOMAIN Schema._Service
    BY <1>1, <1>2, OperationFields DEF Selectable
<1>4. DOMAIN Schema._Service = {"sdl"} /\ DOMAIN ServiceView = {"sdl"}
    BY DEF Schema, ServiceView
<1>5. ServiceObject(Sel(i)) \in Object
    BY <1>3, <1>4, Objects
<1>6. ServiceObject(Sel(i)) \in Values(op.fields[i])
    BY <1>1, <1>5 DEF Values, Name
<1>7. Ends(i, ServiceObject(Sel(i)), "none")
    BY <1>1, <1>2, <1>5, <1>6, Objects DEF Ends, Failure
<1>8. Outcome(i, ServiceObject(Sel(i)), "none")
    BY <1>1 DEF Outcome
<1> QED  BY <1>1, <1>7, <1>8 DEF Answers, Wrote
LEMMA HashStores ==
    ASSUME NEW p \in Password
    PROVE  Stores(Hash(p)) /\ Hash(p) # None /\ Hash(p).key[1] = p
<1>1. Hash(p) = [algorithm |-> "argon2id", version |-> 19, params |-> "current", key |-> <<p, "current">>]
    BY DEF Hash, Encode, DefaultParams, IDKey
<1>2. Hash(p) \in Encoded /\ Hash(p).key = <<p, "current">> /\ Hash(p).params = "current"
    BY <1>1 DEF Encoded, Params
<1> QED  BY <1>2, AbsenceAssumption DEF Stores

\* A hash that can be read verifies the password it was made of, and no other.
LEMMA VerifyDecides ==
    ASSUME NEW p \in Password, NEW h, Stores(h)
    PROVE  /\ Verify(p, h).ok \in BOOLEAN
           /\ Verify(p, h).ok => Verify(p, h).err = <<>> /\ h.key[1] = p
           /\ Verify(p, h).err = <<>> /\ ~Verify(p, h).ok => h.key[1] # p
           /\ Verify(p, h).err # <<>> => Verify(p, h).err = <<"internal">>
<1>1. h \in Encoded
    BY DEF Stores
<1>2. h.key \in Password \X Params
    BY <1>1 DEF Encoded
<1>3. h.key = <<h.key[1], h.key[2]>>
    BY <1>2
<1>4. CASE Readable(h)
    <2>1. Verify(p, h).ok = (<<p, h.params>> = h.key) /\ Verify(p, h).err = <<>>
        BY <1>4 DEF Verify, IDKey
    <2>2. h.key[2] = h.params
        BY <1>4 DEF Stores
    <2>3. (<<p, h.params>> = h.key) <=> h.key[1] = p
        BY <1>3, <2>2
    <2> QED  BY <2>1, <2>3
<1>5. CASE ~Readable(h)
    <2>1. Verify(p, h).ok = FALSE /\ Verify(p, h).err = <<"internal">>
        BY <1>5 DEF Verify
    <2>2. <<"internal">> # <<>>
        BY EnvelopeCode DEF Kind
    <2> QED  BY <2>1, <2>2
<1> QED  BY <1>4, <1>5

LEMMA RefuseRegistrationAnswers ==
    ASSUME Inv, NEW i \in Asked, RefuseRegistration(i)
    PROVE  Answers(i)
<1>1. /\ Name(i) = "registerUser" /\ field[i] = "started" /\ phase = "executing" /\ InOrder(i)
      /\ hash' = hash /\ committed' = committed
      /\ UNCHANGED <<claims, op, phase, caller, resolving, data>>
    BY DEF RefuseRegistration, Runs
<1>2. PICK o \in NotRegistered(op.fields[i]) : Fail(i, o)
    BY DEF RefuseRegistration
<1>3. ~Inline(i) /\ i \notin committed
    BY <1>1, Running
<1>4. Ends(i, Null, o.code)
    BY <1>1, <1>2, <1>3, FailEnds
<1>5. o \in {Refused(Wrap("plain", <<"invalid">>)), Refused(Wrap("plain", <<"conflict">>)),
             DatabaseFails, Broken}
    BY <1>2 DEF NotRegistered
<1>6. o.code # "UNAUTHORIZED"
    BY <1>5, Codes DEF Failed
<1>7. Outcome(i, Null, o.code)
    BY <1>1, <1>3, <1>6 DEF Outcome
<1> QED  BY <1>1, <1>4, <1>7 DEF Answers, Wrote

\* The registration that has committed, whatever was said of it.
LEMMA RegisterAdds ==
    ASSUME Inv, NEW i \in Asked, Register(i)
    PROVE  /\ Name(i) = "registerUser" /\ Adds(op.fields[i].user, op.fields[i].password)
           /\ committed' = committed \cup {i}
           /\ phase = "executing" /\ field[i] = "started" /\ InOrder(i) /\ op \in Operation
           /\ UNCHANGED <<claims, op, phase, caller, resolving, data>>
<1>1. Name(i) = "registerUser" /\ field[i] = "started" /\ InOrder(i) /\ phase = "executing"
    BY DEF Register, Runs
<1>2. op \in Operation
    BY <1>1, Running
<1>3. op.fields[i].user \in User /\ op.fields[i].password \in Password
    BY <1>1, <1>2, OperationFields
<1> QED  BY <1>1, <1>2, <1>3 DEF Register, Adds

LEMMA RegisterFailedAnswers ==
    ASSUME Inv, NEW i \in Asked, Register(i), Fail(i, DatabaseFails)
    PROVE  Answers(i)
<1>1. /\ Name(i) = "registerUser" /\ Adds(op.fields[i].user, op.fields[i].password)
      /\ committed' = committed \cup {i}
      /\ phase = "executing" /\ field[i] = "started" /\ InOrder(i)
      /\ UNCHANGED <<claims, op, phase, caller, resolving, data>>
    BY RegisterAdds
<1>2. ~Inline(i)
    BY <1>1, Running
<1>3. DatabaseFails.code = "INTERNAL"
    BY Codes DEF Failed
<1>4. Ends(i, Null, "INTERNAL")
    BY <1>1, <1>2, <1>3, FailEnds
<1>5. Outcome(i, Null, "INTERNAL")
    BY <1>1 DEF Outcome, Ours
<1> QED  BY <1>1, <1>4, <1>5 DEF Answers, Wrote

LEMMA ReadBackAnswers ==
    ASSUME Inv, RegisteredInv, NEW i \in Asked, ReadBack(i)
    PROVE  Answers(i)
<1>1. /\ field[i] = "registered" /\ hash' = hash /\ committed' = committed
      /\ UNCHANGED <<claims, op, phase, caller, resolving, data>>
    BY DEF ReadBack
<1>2. phase = "executing" /\ InOrder(i) /\ op \in Operation
    BY <1>1, Running
<1>3. Name(i) = "registerUser" /\ i \in committed
    BY <1>1 DEF Inv, FieldOf
<1>4. op.fields[i].user \in User /\ op.fields[i].password \in Password
    BY <1>2, <1>3, OperationFields
<1>5. op.fields[i].user \in accounts
    BY <1>3, <1>4, HashStores DEF RegisteredInv, accounts
<1>6. PICK o \in GetUser(op.fields[i].user) : FinishUser(i, o)
    BY DEF ReadBack
<1>7. \/ Ends(i, UserObject(Sel(i), op.fields[i].user), "none")
      \/ Ends(i, Null, o.code) /\ o.code \in {"INTERNAL", "none"}
    BY <1>1, <1>2, <1>3, <1>4, <1>5, <1>6, UserEnds
<1>8. UserObject(Sel(i), op.fields[i].user) # Null
    <2>1. Sel(i) \subseteq UserFields
        BY <1>2, <1>3, OperationFields DEF Selectable
    <2> QED  BY <1>4, <2>1, Objects
<1>9. /\ Outcome(i, UserObject(Sel(i), op.fields[i].user), "none")
      /\ o.code \in {"INTERNAL", "none"} => Outcome(i, Null, o.code)
    BY <1>3, <1>8 DEF Outcome, Ours
<1> QED  BY <1>1, <1>7, <1>9 DEF Answers, Wrote

LEMMA RefuseLoginAnswers ==
    ASSUME Inv, NEW i \in Asked, RefuseLogin(i)
    PROVE  Answers(i)
<1> DEFINE f == op.fields[i]
<1>1. /\ Name(i) = "loginUser" /\ field[i] = "started" /\ phase = "executing" /\ InOrder(i)
      /\ hash' = hash /\ committed' = committed
      /\ UNCHANGED <<claims, op, phase, caller, resolving, data>>
    BY DEF RefuseLogin, Runs
<1>2. PICK o \in NotLoggedIn(f) : Fail(i, o)
    BY DEF RefuseLogin
<1>3. ~Inline(i) /\ i \notin committed /\ op \in Operation
    BY <1>1, Running
<1>4. Ends(i, Null, o.code)
    BY <1>1, <1>2, <1>3, FailEnds
<1>5. f.user \in User /\ f.password \in Password
    BY <1>1, <1>3, OperationFields
<1>6. Known(f) => Stores(hash[f.user])
    BY DEF Inv, CallerInv, Known
<1> DEFINE verify == Verify(f.password, hash[f.user])
<1>7. o.code = "UNAUTHORIZED" => ~Right(f)
    <2>1. CASE ~f.good \/ ~Known(f)
        BY <2>1 DEF Right, Known
    <2>2. CASE Known(f) /\ verify.err # <<>>
        <3>1. verify.err = <<"internal">>
            BY <1>5, <1>6, <2>2, VerifyDecides
        <3>2. o \in {Refused(Wrap("plain", <<"internal">>)), CorruptRole, DatabaseFails, Broken}
            BY <1>2, <2>2, <3>1 DEF NotLoggedIn, Known
        <3> QED  BY <3>2, Codes DEF Failed
    <2>3. CASE Known(f) /\ verify.err = <<>> /\ ~verify.ok
        <3>1. hash[f.user].key[1] # f.password
            BY <1>5, <1>6, <2>3, VerifyDecides
        <3> QED  BY <3>1 DEF Right
    <2>4. CASE Known(f) /\ verify.err = <<>> /\ verify.ok
        <3>1. o \in {CorruptRole, DatabaseFails, Broken}
            BY <1>2, <2>4 DEF NotLoggedIn, Known
        <3> QED  BY <3>1, Codes DEF Failed
    <2> QED  BY <2>1, <2>2, <2>3, <2>4
<1>8. Outcome(i, Null, o.code)
    BY <1>1, <1>3, <1>7 DEF Outcome
<1> QED  BY <1>1, <1>4, <1>8 DEF Answers, Wrote

LEMMA LoginAnswers ==
    ASSUME Inv, NEW i \in Asked, Login(i)
    PROVE  Answers(i)
<1> DEFINE f == op.fields[i]
<1>1. /\ Name(i) = "loginUser" /\ field[i] = "started" /\ phase = "executing" /\ InOrder(i)
      /\ hash' = hash /\ committed' = committed \cup {i} /\ Verified(f)
      /\ UNCHANGED <<claims, op, phase, caller, resolving, data>>
    BY DEF Login, Runs
<1>2. ~Inline(i) /\ op \in Operation
    BY <1>1, Running
<1>3. f.user \in User /\ f.password \in Password /\ Sel(i) \subseteq AuthPayloadFields
    BY <1>1, <1>2, OperationFields DEF Selectable
<1>4. Known(f) /\ Stores(hash[f.user])
    BY <1>1 DEF Inv, CallerInv, Known, Verified
<1>5. Right(f)
    BY <1>1, <1>3, <1>4, VerifyDecides DEF Right, Known, Verified
<1>6. CASE Fail(i, DatabaseFails)
    <2>1. DatabaseFails.code = "INTERNAL"
        BY Codes DEF Failed
    <2>2. Ends(i, Null, "INTERNAL")
        BY <1>1, <1>2, <1>6, <2>1, FailEnds
    <2>3. Outcome(i, Null, "INTERNAL")
        BY <1>1, <1>5 DEF Outcome, Ours
    <2> QED  BY <1>1, <2>2, <2>3 DEF Answers, Wrote
<1>7. CASE Finish(i, AuthPayloadObject(Sel(i), f.user), {})
    <2>1. AuthPayloadObject(Sel(i), f.user) \in Object
        BY <1>3, Objects
    <2>2. AuthPayloadObject(Sel(i), f.user) \in Values(f)
        BY <1>1, <2>1 DEF Values, Name
    <2>3. Ends(i, AuthPayloadObject(Sel(i), f.user), "none")
        BY <1>1, <1>2, <1>7, <2>1, <2>2, Objects DEF Ends, Failure
    <2>4. Outcome(i, AuthPayloadObject(Sel(i), f.user), "none")
        BY <1>1, <1>5, <2>1, Objects DEF Outcome
    <2> QED  BY <1>1, <2>3, <2>4 DEF Answers, Wrote
<1> QED  BY <1>6, <1>7 DEF Login
LEMMA RefuseArgumentsAnswers ==
    ASSUME Inv, NEW i \in Asked, RefuseArguments(i)
    PROVE  Answers(i)
<1>1. /\ Name(i) = "_entities" /\ field[i] = "started" /\ phase = "executing" /\ InOrder(i)
      /\ hash' = hash /\ committed' = committed /\ Fail(i, Broken)
      /\ UNCHANGED <<claims, op, phase, caller, resolving, data>>
    BY DEF RefuseArguments, Runs
<1>2. ~Inline(i)
    BY <1>1, Running
<1>3. Ends(i, Null, Broken.code)
    BY <1>1, <1>2, FailEnds
<1>4. Outcome(i, Null, Broken.code)
    BY <1>1 DEF Outcome
<1> QED  BY <1>1, <1>3, <1>4 DEF Answers, Wrote

\* The entities in their places, as the field shows them.
Entries(i) == [k \in DOMAIN Reps(i) |-> Entity(i, k)]

LEMMA EntriesAreValues ==
    ASSUME Inv, NEW i \in Asked, Name(i) = "_entities"
    PROVE  Entries(i) \in Values(op.fields[i]) /\ Entries(i) # None /\ Entries(i) # Null
<1>1. op \in Operation
    BY DEF Inv, ShapeInv
<1>2. Sel(i) \subseteq UserFields
    BY <1>1, OperationFields DEF Selectable
<1>3. ASSUME NEW k \in DOMAIN Reps(i) PROVE Entity(i, k) \in Object \cup {Null}
    <2>1. <<i, k>> \in Tasks
        BY <1>1, TaskOfField
    <2>2. list[<<i, k>>] # Null => list[<<i, k>>] \in User
        BY <2>1 DEF Inv, TaskOf, accounts
    <2> QED  BY <1>2, <2>2, Objects DEF Entity
<1>4. Entries(i) \in List(op.fields[i])
    BY <1>3 DEF Entries, List, Reps
<1>5. op.fields[i] \in Range(op.fields)
    BY DEF Asked, Range
<1>6. Entries(i) # None /\ Entries(i) # Null
    BY <1>1, <1>4, <1>5, AbsenceAssumption
<1> QED  BY <1>4, <1>6 DEF Values, Name

LEMMA MarshalEntitiesAnswers ==
    ASSUME Inv, NEW i \in Asked, MarshalEntities(i)
    PROVE  Answers(i)
<1>1. /\ field[i] = "resolving" /\ GroupsDone(i) /\ Finish(i, Entries(i), {})
      /\ hash' = hash /\ committed' = committed
      /\ UNCHANGED <<claims, op, phase, caller, resolving, data>>
    BY DEF MarshalEntities, Entries
<1>2. ~Inline(i) /\ phase = "executing" /\ InOrder(i)
    BY <1>1, Running
<1>3. Name(i) = "_entities"
    BY <1>1 DEF Inv, FieldOf
<1>4. Entries(i) \in Values(op.fields[i]) /\ Entries(i) # None /\ Entries(i) # Null
    BY <1>3, EntriesAreValues
<1>5. Ends(i, Entries(i), "none")
    BY <1>1, <1>2, <1>4 DEF Ends, Failure, Entries
<1>6. Outcome(i, Entries(i), "none")
    BY <1>3 DEF Outcome
<1> QED  BY <1>1, <1>5, <1>6 DEF Answers, Wrote

-----------------------------------------------------------------------------
(* What a step may be.                                                      *)

\* The registration has committed, and its account is to be read back.
Registers(i) ==
    /\ i \in Asked /\ Name(i) = "registerUser" /\ phase = "executing"
    /\ field[i] = "started" /\ InOrder(i)
    /\ Adds(op.fields[i].user, op.fields[i].password)
    /\ committed' = committed \cup {i}
    /\ field' = [field EXCEPT ![i] = "registered"]
    /\ UNCHANGED <<claims, op, phase, caller, value, invalids, resolving, errors, data>>

Others(u) ==
    /\ phase # "answered" /\ Adds(u, "secret")
    /\ UNCHANGED <<claims, op, phase, caller, field, value, invalids, resolving,
                   errors, committed, data>>

Kinds ==
    \/ Execute \/ Answer \/ UNCHANGED vars
    \/ \E i \in Asked : Answers(i) \/ Registers(i) \/ StartEntities(i)
    \/ \E t \in Tasks : ResolveEntity(t) \/ Done(t)
    \/ \E u \in User : Others(u)

LEMMA Steps ==
    ASSUME Inv, RegisteredInv, [Next]_vars
    PROVE  Kinds
<1>1. ASSUME NEW i \in Asked, Register(i) PROVE Answers(i) \/ Registers(i)
    <2>1. CASE Fail(i, DatabaseFails)
        BY <1>1, <2>1, RegisterFailedAnswers
    <2>2. CASE field' = [field EXCEPT ![i] = "registered"] /\ UNCHANGED <<value, invalids, errors>>
        BY <1>1, <2>2, RegisterAdds DEF Registers
    <2> QED  BY <1>1, <2>1, <2>2 DEF Register
<1>2. ASSUME NEW u \in User, OthersRegister(u) PROVE Others(u)
    BY <1>2 DEF OthersRegister, Others, Adds, Password
<1>3. ASSUME NEW i \in Asked,
             \/ Me(i) \/ Service(i) \/ RefuseRegistration(i) \/ Register(i) \/ ReadBack(i)
             \/ RefuseLogin(i) \/ Login(i) \/ RefuseArguments(i) \/ StartEntities(i)
             \/ MarshalEntities(i)
      PROVE  Answers(i) \/ Registers(i) \/ StartEntities(i)
    BY <1>1, <1>3, MeAnswers, ServiceAnswers, RefuseRegistrationAnswers, ReadBackAnswers,
       RefuseLoginAnswers, LoginAnswers, RefuseArgumentsAnswers, MarshalEntitiesAnswers
<1> QED  BY <1>2, <1>3 DEF Next, Step, Kinds
-----------------------------------------------------------------------------
(* What every step keeps.                                                   *)

\* Accounts are only added, and the hash of an account never changes.
Grows == accounts \subseteq accounts' /\ \A u \in accounts : hash'[u] = hash[u]

LEMMA AddsGrows ==
    ASSUME DOMAIN hash = User, NEW u, NEW p, Adds(u, p)
    PROVE  /\ Grows /\ accounts' = accounts \cup {u} /\ hash'[u] = Hash(p)
           /\ DOMAIN hash' = User
<1>1. /\ u \in User /\ u \notin accounts /\ hash' = [hash EXCEPT ![u] = Hash(p)]
      /\ Hash(p) # None
    BY HashStores DEF Adds
<1>2. hash'[u] = Hash(p) /\ DOMAIN hash' = User /\ \A w \in User \ {u} : hash'[w] = hash[w]
    BY <1>1
<1>3. accounts' = {w \in User : hash'[w] # None}
    BY DEF accounts
<1>4. accounts' = accounts \cup {u}
    BY <1>1, <1>2, <1>3 DEF accounts
<1>5. \A w \in accounts : w \in User \ {u}
    BY <1>1 DEF accounts
<1> QED  BY <1>2, <1>4, <1>5 DEF Grows

\* What is common to the steps.
Frame ==
    /\ op' = op /\ claims' = claims /\ op \in Operation
    /\ hash' = hash \/ \E u, p : Adds(u, p)
    /\ phase' # "received" => phase # "received" \/ Execute
    /\ caller' = caller \/ Execute

LEMMA StepsFrame ==
    ASSUME Inv, Kinds
    PROVE  Frame
<1>0. op \in Operation /\ (Execute => phase = "received" /\ phase' = "executing")
    BY DEF Inv, ShapeInv, Execute
<1>1. CASE Execute
    BY <1>0, <1>1 DEF Execute, Frame
<1>2. CASE Answer
    BY <1>0, <1>2 DEF Answer, Frame
<1>3. CASE UNCHANGED vars
    BY <1>0, <1>3 DEF vars, Frame
<1>4. ASSUME NEW i \in Asked, Answers(i) PROVE Frame
    BY <1>0, <1>4 DEF Answers, Ends, Wrote, Frame
<1>5. ASSUME NEW i \in Asked, Registers(i) PROVE Frame
    BY <1>0, <1>5 DEF Registers, Frame
<1>6. ASSUME NEW i \in Asked, StartEntities(i) PROVE Frame
    BY <1>0, <1>6 DEF StartEntities, Frame
<1>7. ASSUME NEW t \in Tasks, ResolveEntity(t) \/ Done(t) PROVE Frame
    BY <1>0, <1>7 DEF ResolveEntity, Done, Frame
<1>8. ASSUME NEW u \in User, Others(u) PROVE Frame
    BY <1>0, <1>8 DEF Others, Frame
<1> QED  BY <1>1, <1>2, <1>3, <1>4, <1>5, <1>6, <1>7, <1>8 DEF Kinds

LEMMA FrameGrows ==
    ASSUME Inv, Frame
    PROVE  Grows
<1>1. CASE hash' = hash
    BY <1>1 DEF Grows, accounts
<1>2. ASSUME NEW u, NEW p, Adds(u, p) PROVE Grows
    BY <1>2, AddsGrows DEF Inv, CallerInv
<1> QED  BY <1>1, <1>2 DEF Frame

LEMMA CallerStep ==
    ASSUME Inv, Frame
    PROVE  CallerInv'
<1>1. CallerInv
    BY DEF Inv
<1>2. DOMAIN hash' = User /\ \A u \in accounts' : Stores(hash'[u])
    <2>1. CASE hash' = hash
        BY <1>1, <2>1 DEF CallerInv, accounts
    <2>2. ASSUME NEW u, NEW p, Adds(u, p) PROVE DOMAIN hash' = User /\ \A w \in accounts' : Stores(hash'[w])
        <3>1. p \in Password
            BY <2>2 DEF Adds
        <3>2. Stores(Hash(p))
            BY <3>1, HashStores
        <3> QED  BY <1>1, <2>2, <3>2, AddsGrows DEF CallerInv, Grows
    <2> QED  BY <2>1, <2>2 DEF Frame
<1>3. claims' # None => claims' \in [sub : User, roles : RoleLists] /\ claims'.sub \in accounts'
    BY <1>1, FrameGrows DEF CallerInv, Frame, Grows
<1>4. phase' # "received" => caller' = Lift(Forward(claims'))
    <2>1. CASE Execute
        BY <2>1 DEF Execute
    <2>2. CASE ~Execute
        BY <1>1, <2>2 DEF CallerInv, Frame
    <2> QED  BY <2>1, <2>2
<1> QED  BY <1>2, <1>3, <1>4 DEF CallerInv, Stores

LEMMA InlineValues ==
    ASSUME op \in Operation, NEW i \in Asked
    PROVE  /\ InlineValue(i) \in Values(op.fields[i])
           /\ InlineValue(i) = None <=> ~Inline(i)
           /\ InlineValue(i) = Null => Schema[op.kind][Name(i)].nullable
<1>1. /\ None # Null /\ "typename" \in Text /\ "type" \in Text /\ "schema" \in Text
      /\ None \notin Text /\ Null \notin Text
    BY Objects DEF Text
<1>2. CASE Name(i) = "__typename"
    <2>1. InlineValue(i) = "typename" /\ Inline(i)
        BY <1>2 DEF InlineValue, Inline
    <2> QED  BY <1>1, <1>2, <2>1 DEF Values, Name
<1>3. CASE Name(i) \in {"__type", "__schema"}
    <2>1. Inline(i) /\ InlineValue(i) = Introspect(op.fields[i])
        BY <1>3 DEF InlineValue, Inline
    <2>2. Introspect(op.fields[i]) \in {"type", "schema", Null}
        BY DEF Introspect
    <2> QED  BY <1>1, <1>3, <2>1, <2>2, Names DEF Values, Name
<1>4. CASE ~Inline(i)
    <2>1. InlineValue(i) = None
        BY <1>4 DEF InlineValue, Inline
    <2> QED  BY <1>1, <1>4, <2>1, Objects DEF Values, Name
<1> QED  BY <1>2, <1>3, <1>4 DEF Inline
LEMMA ShapeStep ==
    ASSUME Inv, Kinds
    PROVE  ShapeInv'
<1>1. /\ op' = op /\ op \in Operation /\ Asked' = Asked /\ Tasks' = Tasks /\ Groups' = Groups
    BY StepsFrame, SameOperation DEF Frame
<1>2. /\ invalids \in Nat /\ phase \in {"received", "executing", "answered"}
      /\ DOMAIN field = Asked /\ DOMAIN value = Asked
      /\ DOMAIN task = Tasks /\ DOMAIN list = Tasks /\ DOMAIN wait = Groups
      /\ committed \subseteq Asked /\ \A i \in Asked : value[i] \in Values(op.fields[i])
    BY DEF Inv, ShapeInv
<1>3. value = [i \in Asked |-> value[i]]
    BY DEF Inv, ShapeInv
<1> DEFINE Shape ==
      /\ invalids' \in Nat /\ phase' \in {"received", "executing", "answered"}
      /\ DOMAIN field' = Asked /\ committed' \subseteq Asked
      /\ value' = [i \in Asked |-> value'[i]] /\ \A i \in Asked : value'[i] \in Values(op.fields[i])
      /\ DOMAIN task' = Tasks /\ DOMAIN list' = Tasks /\ DOMAIN wait' = Groups
<1>4. SUFFICES Shape
    BY <1>1 DEF ShapeInv, Values, List
<1>5. CASE Execute
    <2>1. value' = [i \in Asked |-> InlineValue(i)] /\ DOMAIN field' = Asked
        BY <1>5 DEF Execute
    <2>2. \A i \in Asked : value'[i] \in Values(op.fields[i])
        BY <1>1, <2>1, InlineValues
    <2>3. UNCHANGED <<invalids, committed, task, list, wait>> /\ phase' = "executing"
        BY <1>5 DEF Execute, resolving
    <2> QED  BY <1>2, <2>1, <2>2, <2>3
<1>6. CASE Answer
    BY <1>2, <1>3, <1>6 DEF Answer, resolving
<1>7. CASE UNCHANGED vars
    BY <1>2, <1>3, <1>7 DEF vars, resolving
<1>8. ASSUME NEW i \in Asked, Answers(i) PROVE Shape
    <2>1. PICK v, code : Ends(i, v, code) /\ Wrote(i)
        BY <1>8 DEF Answers
    <2>2. /\ field' = [field EXCEPT ![i] = "done"] /\ value' = [value EXCEPT ![i] = v]
          /\ invalids' = IF v = Null THEN invalids + 1 ELSE invalids
          /\ v \in Values(op.fields[i]) /\ phase' = phase
          /\ committed' \subseteq committed \cup {i}
          /\ UNCHANGED <<task, list, wait>>
        BY <2>1 DEF Ends, Wrote, Finish, resolving
    <2>3. value' = [j \in Asked |-> value'[j]] /\ \A j \in Asked : value'[j] \in Values(op.fields[j])
        BY <1>2, <1>3, <2>2
    <2> QED  BY <1>2, <2>2, <2>3
<1>9. ASSUME NEW i \in Asked, Registers(i) PROVE Shape
    BY <1>2, <1>3, <1>9 DEF Registers, resolving
<1>10. ASSUME NEW i \in Asked, StartEntities(i) PROVE Shape
    <2>1. UNCHANGED <<value, invalids, list, phase, committed>>
        BY <1>10 DEF StartEntities
    <2>2. DOMAIN field' = Asked /\ DOMAIN task' = Tasks /\ DOMAIN wait' = Groups
        BY <1>2, <1>10 DEF StartEntities
    <2> QED  BY <1>2, <1>3, <2>1, <2>2
<1>11. ASSUME NEW t \in Tasks, ResolveEntity(t) PROVE Shape
    <2>1. UNCHANGED <<value, invalids, field, phase, wait, committed>>
        BY <1>11 DEF ResolveEntity
    <2>2. DOMAIN list' = Tasks /\ DOMAIN task' = Tasks
        BY <1>2, <1>11 DEF ResolveEntity
    <2> QED  BY <1>2, <1>3, <2>1, <2>2
<1>12. ASSUME NEW t \in Tasks, Done(t) PROVE Shape
    <2>1. UNCHANGED <<value, invalids, field, phase, list, committed>>
        BY <1>12 DEF Done
    <2>2. DOMAIN wait' = Groups /\ DOMAIN task' = Tasks
        BY <1>2, <1>12 DEF Done
    <2> QED  BY <1>2, <1>3, <2>1, <2>2
<1>13. ASSUME NEW u \in User, Others(u) PROVE Shape
    BY <1>2, <1>3, <1>13 DEF Others, resolving
<1> QED
    BY <1>5, <1>6, <1>7, <1>8, <1>9, <1>10, <1>11, <1>12, <1>13 DEF Kinds

LEMMA FieldStep ==
    ASSUME Inv, Kinds, NEW j \in Asked
    PROVE  FieldOf(j)'
<1>1. /\ op' = op /\ Asked' = Asked /\ Name(j)' = Name(j) /\ (Inline(j)' <=> Inline(j))
      /\ op \in Operation
    BY StepsFrame, SameOperation DEF Frame
<1>2. FieldOf(j) /\ DOMAIN field = Asked /\ Asked \subseteq Nat
    BY <1>1, OperationFields DEF Inv, ShapeInv
<1> DEFINE Kept ==
      /\ field'[j] \in {"none", "started", "registered", "resolving", "done"}
      /\ field'[j] = "none" <=> phase' = "received"
      /\ Inline(j) => field'[j] \in {"none", "done"}
      /\ field'[j] = "registered" => Name(j) = "registerUser" /\ j \in committed'
      /\ field'[j] = "resolving" => Name(j) = "_entities"
      /\ j \in committed' => /\ Name(j) \in {"registerUser", "loginUser"}
                             /\ field'[j] \in {"registered", "done"}
      /\ op.kind = "mutation" /\ ~Inline(j) /\ field'[j] \notin {"none", "started"} =>
             \A k \in Asked : k < j => field'[k] = "done"
<1>3. SUFFICES Kept
    BY <1>1 DEF FieldOf
<1>4. CASE Execute
    <2>1. /\ field' = [i \in Asked |-> IF Inline(i) THEN "done" ELSE "started"]
          /\ phase = "received" /\ phase' = "executing" /\ committed' = committed
        BY <1>4 DEF Execute
    <2>2. field'[j] = IF Inline(j) THEN "done" ELSE "started"
        BY <2>1
    <2>3. field[j] = "none" /\ j \notin committed
        BY <1>2, <2>1 DEF FieldOf
    <2> QED  BY <2>1, <2>2, <2>3
<1>5. CASE Answer
    BY <1>2, <1>5 DEF Answer, FieldOf
<1>6. CASE UNCHANGED vars
    BY <1>2, <1>6 DEF vars, FieldOf
<1>7. ASSUME NEW i \in Asked, Answers(i) PROVE Kept
    <2>1. PICK v, code : Ends(i, v, code) /\ Wrote(i)
        BY <1>7 DEF Answers
    <2>2. /\ field' = [field EXCEPT ![i] = "done"] /\ phase = "executing" /\ phase' = phase
          /\ InOrder(i) /\ ~Inline(i)
          /\ \/ committed' = committed
             \/ committed' = committed \cup {i} /\ Name(i) \in {"registerUser", "loginUser"}
        BY <2>1 DEF Ends, Wrote, Finish
    <2>3. CASE i = j
        BY <1>2, <2>2, <2>3 DEF FieldOf, InOrder
    <2>4. CASE i # j
        BY <1>2, <2>2, <2>4 DEF FieldOf
    <2> QED  BY <2>3, <2>4
<1>8. ASSUME NEW i \in Asked, Registers(i) PROVE Kept
    <2>1. /\ field' = [field EXCEPT ![i] = "registered"] /\ phase = "executing" /\ phase' = phase
          /\ field[i] = "started" /\ InOrder(i) /\ Name(i) = "registerUser"
          /\ committed' = committed \cup {i}
        BY <1>8 DEF Registers
    <2>2. ~Inline(i)
        BY <2>1 DEF Inline
    <2>3. CASE i = j
        BY <1>2, <2>1, <2>2, <2>3 DEF FieldOf, InOrder
    <2>4. CASE i # j
        BY <1>2, <2>1, <2>4 DEF FieldOf
    <2> QED  BY <2>3, <2>4
<1>9. ASSUME NEW i \in Asked, StartEntities(i) PROVE Kept
    <2>1. /\ field' = [field EXCEPT ![i] = "resolving"] /\ phase = "executing" /\ phase' = phase
          /\ field[i] = "started" /\ InOrder(i) /\ Name(i) = "_entities"
          /\ committed' = committed
        BY <1>9 DEF StartEntities, Runs
    <2>2. ~Inline(i) /\ i \notin committed
        BY <2>1, Running
    <2>3. CASE i = j
        BY <1>2, <2>1, <2>2, <2>3 DEF FieldOf, InOrder
    <2>4. CASE i # j
        BY <1>2, <2>1, <2>4 DEF FieldOf
    <2> QED  BY <2>3, <2>4
<1>10. ASSUME NEW t \in Tasks, ResolveEntity(t) \/ Done(t) PROVE Kept
    BY <1>2, <1>10 DEF ResolveEntity, Done, FieldOf
<1>11. ASSUME NEW u \in User, Others(u) PROVE Kept
    BY <1>2, <1>11 DEF Others, FieldOf
<1> QED
    BY <1>4, <1>5, <1>6, <1>7, <1>8, <1>9, <1>10, <1>11 DEF Kinds
\* Errors are only added; those of another field or representation stay as they are.
LEMMA FaultsKept ==
    ASSUME NEW X, errors' = errors \cup X, NEW i, NEW k, \A e \in X : ~(e.at = i /\ e.of = k)
    PROVE  FaultsAt(i, k)' = FaultsAt(i, k)
    BY DEF FaultsAt

LEMMA SameFaults ==
    ASSUME errors' = errors, NEW i, NEW k
    PROVE  FaultsAt(i, k)' = FaultsAt(i, k)
    BY DEF FaultsAt

LEMMA FaultAdded ==
    ASSUME NEW X, errors' = errors \cup X, NEW i, NEW k, NEW code, Fault(i, k, code) \in X,
           \A e \in X : e.at = i /\ e.of = k => e = Fault(i, k, code), FaultsAt(i, k) = {}
    PROVE  /\ FaultsAt(i, k)' = {Fault(i, k, code)} /\ Fault(i, k, code) \in errors'
<1>1. Fault(i, k, code).at = i /\ Fault(i, k, code).of = k
    BY DEF Fault
<1> QED  BY <1>1 DEF FaultsAt

LEMMA FailureFaults ==
    ASSUME NEW i, NEW v, NEW code
    PROVE  /\ \A e \in Failure(i, v, code) : e.at = i /\ e.of = 0 /\ e = Fault(i, 0, code)
           /\ v = Null => Fault(i, 0, code) \in Failure(i, v, code)
           /\ v # Null => Failure(i, v, code) = {}
    BY DEF Failure, Fault

LEMMA ValueStep ==
    ASSUME Inv, Kinds, NEW j \in Asked
    PROVE  ValueOf(j)'
<1>1. /\ op' = op /\ Asked' = Asked /\ Name(j)' = Name(j) /\ (Inline(j)' <=> Inline(j))
      /\ Sel(j)' = Sel(j) /\ Reps(j)' = Reps(j) /\ InlineValue(j)' = InlineValue(j)
      /\ op \in Operation
    BY StepsFrame, SameOperation DEF Frame
<1>2. /\ ValueOf(j) /\ FieldOf(j) /\ DOMAIN field = Asked /\ DOMAIN value = Asked
      /\ DOMAIN list = Tasks /\ DOMAIN task = Tasks
    BY DEF Inv, ShapeInv
<1> DEFINE Kept ==
      /\ value'[j] = None <=> field'[j] # "done"
      /\ Inline(j) /\ field'[j] = "done" => value'[j] = InlineValue(j)
      /\ IF ~Inline(j) /\ value'[j] = Null THEN \E e \in errors' : FaultsAt(j, 0)' = {e}
         ELSE FaultsAt(j, 0)' = {}
      /\ Name(j) = "_entities" /\ field'[j] = "done" /\ value'[j] # Null =>
             value'[j] = [k \in DOMAIN Reps(j) |-> Entity(j, k)']
<1>3. ASSUME Kept PROVE ValueOf(j)'
    BY <1>1, <1>3 DEF ValueOf, Explained
<1>4. ASSUME UNCHANGED <<value, list>>, field'[j] = "done" <=> field[j] = "done",
             NEW X, errors' = errors \cup X, \A e \in X : ~(e.at = j /\ e.of = 0)
      PROVE  Kept
    <2>1. FaultsAt(j, 0)' = FaultsAt(j, 0)
        BY <1>4, FaultsKept
    <2>2. \A k : Entity(j, k)' = Entity(j, k)
        BY <1>1, <1>4 DEF Entity, UserObject
    <2> QED  BY <1>2, <1>4, <2>1, <2>2 DEF ValueOf, Explained
<1>5. ASSUME UNCHANGED <<value, list, errors>>, field'[j] = "done" <=> field[j] = "done" PROVE Kept
    <2>0. errors' = errors \cup {}
        BY <1>5
    <2>1. PICK X : X = {} /\ errors' = errors \cup X
        BY <2>0
    <2>2. \A e \in X : ~(e.at = j /\ e.of = 0)
        BY <2>1
    <2> HIDE DEF Kept
    <2> QED  BY <1>4, <1>5, <2>1, <2>2
<1>6. CASE Execute
    <2>1. /\ value' = [i \in Asked |-> InlineValue(i)] /\ phase = "received"
          /\ field' = [i \in Asked |-> IF Inline(i) THEN "done" ELSE "started"]
          /\ errors' = errors
        BY <1>6 DEF Execute
    <2>2. value'[j] = InlineValue(j) /\ field'[j] = IF Inline(j) THEN "done" ELSE "started"
        BY <2>1
    <2>3. InlineValue(j) = None <=> ~Inline(j)
        BY <1>1, InlineValues
    <2>4. value[j] = None
        BY <1>2, <2>1 DEF ValueOf, FieldOf
    <2>5. FaultsAt(j, 0) = {} /\ FaultsAt(j, 0)' = FaultsAt(j, 0)
        BY <1>2, <2>1, <2>4, Objects, SameFaults DEF ValueOf, Explained
    <2>6. None # Null /\ (Name(j) = "_entities" => ~Inline(j))
        BY Objects DEF Inline
    <2> QED  BY <1>3, <2>2, <2>3, <2>5, <2>6
<1>7. CASE Answer
    BY <1>3, <1>5, <1>7 DEF Answer, resolving
<1>8. CASE UNCHANGED vars
    BY <1>3, <1>5, <1>8 DEF vars, resolving
<1>9. ASSUME NEW i \in Asked, Answers(i) PROVE Kept
    <2>1. PICK v, code : Ends(i, v, code)
        BY <1>9 DEF Answers
    <2>2. /\ field' = [field EXCEPT ![i] = "done"] /\ value' = [value EXCEPT ![i] = v]
          /\ errors' = errors \cup Failure(i, v, code) /\ v # None /\ ~Inline(i)
          /\ list' = list /\ field[i] # "done"
        BY <2>1 DEF Ends, Finish, resolving
    <2>3. /\ Name(i) = "_entities" /\ v # Null => v = [k \in DOMAIN Reps(i) |-> Entity(i, k)]
        BY <2>1 DEF Ends
    <2>4. CASE i = j
        <3>1. value'[j] = v /\ field'[j] = "done"
            BY <1>2, <2>2, <2>4
        <3>2. \A k : Entity(j, k)' = Entity(j, k)
            BY <1>1, <2>2 DEF Entity, UserObject
        <3>3. FaultsAt(j, 0) = {}
            BY <1>2, <2>2, <2>4, Objects DEF ValueOf, Explained
        <3>4. CASE v = Null
            <4>1. /\ Fault(i, 0, code) \in Failure(i, v, code)
                  /\ \A e \in Failure(i, v, code) : e = Fault(i, 0, code)
                BY <3>4, FailureFaults
            <4>2. FaultsAt(i, 0)' = {Fault(i, 0, code)} /\ Fault(i, 0, code) \in errors'
                BY <2>2, <2>4, <3>3, <4>1, FaultAdded
            <4> QED  BY <2>2, <2>4, <3>1, <3>4, <4>2, Objects
        <3>5. CASE v # Null
            <4>1. FaultsAt(j, 0)' = FaultsAt(j, 0)
                <5>1. \A e \in Failure(i, v, code) : ~(e.at = j /\ e.of = 0)
                    BY <3>5, FailureFaults
                <5> QED  BY <2>2, <5>1, FaultsKept
            <4> QED  BY <2>2, <2>3, <2>4, <3>1, <3>2, <3>3, <3>5, <4>1
        <3> QED  BY <3>4, <3>5
    <2>5. CASE i # j
        <3>1. value'[j] = value[j] /\ field'[j] = field[j]
            BY <1>2, <2>2, <2>5
        <3>2. FaultsAt(j, 0)' = FaultsAt(j, 0)
            BY <2>2, <2>5, FaultsKept, FailureFaults
        <3>3. \A k : Entity(j, k)' = Entity(j, k)
            BY <1>1, <2>2 DEF Entity, UserObject
        <3>4. errors \subseteq errors'
            BY <2>2
        <3> QED  BY <1>2, <3>1, <3>2, <3>3, <3>4 DEF ValueOf, Explained
    <2> QED  BY <2>4, <2>5
<1>10. ASSUME NEW i \in Asked, Registers(i) PROVE Kept
    BY <1>2, <1>5, <1>10 DEF Registers, resolving
<1>11. ASSUME NEW i \in Asked, StartEntities(i) PROVE Kept
    <2>1. /\ UNCHANGED <<value, list>> /\ field' = [field EXCEPT ![i] = "resolving"]
          /\ field[i] = "started" /\ Name(i) = "_entities"
          /\ errors' = errors \cup {Fault(i, t[2], "none") : t \in Untyped(i)}
        BY <1>11 DEF StartEntities, Runs
    <2>2. \A t \in Untyped(i) : t \in Tasks
        BY <1>1, <2>1, TaskOfField DEF Untyped
    <2>3. \A t \in Untyped(i) : t[2] # 0
        BY <1>1, <2>2, TaskFields
    <2>4. \A e \in {Fault(i, t[2], "none") : t \in Untyped(i)} : e.of # 0
        BY <2>3 DEF Fault
    <2>5. field'[j] = "done" <=> field[j] = "done"
        BY <1>2, <2>1
    <2> QED  BY <1>4, <2>1, <2>4, <2>5
<1>12. ASSUME NEW t \in Tasks, ResolveEntity(t) PROVE Kept
    <2>1. PICK o : /\ list' = IF o.ok THEN [list EXCEPT ![t] = o.user] ELSE list
                   /\ errors' = IF o.ok THEN errors ELSE errors \cup {Fault(t[1], t[2], o.code)}
        BY <1>12 DEF ResolveEntity, SlotOf
    <2>2. task[t] = "started" /\ UNCHANGED <<field, value>>
        BY <1>12 DEF ResolveEntity
    <2>3. t[2] # 0 /\ t[1] \in Asked
        BY <1>1, TaskFields
    <2>4. PICK X : /\ errors' = errors \cup X
                   /\ \A e \in X : ~(e.at = j /\ e.of = 0)
        <3>1. Fault(t[1], t[2], o.code).of = t[2]
            BY DEF Fault
        <3>2. errors' = errors \cup (IF o.ok THEN {} ELSE {Fault(t[1], t[2], o.code)})
            BY <2>1
        <3>3. PICK X : X = (IF o.ok THEN {} ELSE {Fault(t[1], t[2], o.code)})
            OBVIOUS
        <3>4. \A e \in X : ~(e.at = j /\ e.of = 0)
            BY <2>3, <3>1, <3>3
        <3> QED  BY <3>2, <3>3, <3>4
    <2>5. FaultsAt(j, 0)' = FaultsAt(j, 0)
        BY <2>4, FaultsKept
    <2>6. TaskOf(t)
        BY DEF Inv
    <2>7. field[t[1]] # "done"
        BY <2>2, <2>6 DEF TaskOf
    <2>8. field[j] = "done" => \A k \in DOMAIN Reps(j) : Entity(j, k)' = Entity(j, k)
        <3>1. SUFFICES ASSUME field[j] = "done", NEW k \in DOMAIN Reps(j)
                       PROVE  Entity(j, k)' = Entity(j, k)
            OBVIOUS
        <3>2. <<j, k>>[1] = j /\ <<j, k>> # t
            BY <2>7, <3>1
        <3>3. list'[<<j, k>>] = list[<<j, k>>]
            BY <1>2, <2>1, <3>2
        <3> QED  BY <1>1, <3>3 DEF Entity, UserObject
    <2>9. errors \subseteq errors'
        BY <2>4
    <2> QED  BY <1>2, <2>2, <2>5, <2>8, <2>9 DEF ValueOf, Explained
<1>13. ASSUME NEW t \in Tasks, Done(t) PROVE Kept
    BY <1>5, <1>13 DEF Done
<1>14. ASSUME NEW u \in User, Others(u) PROVE Kept
    BY <1>5, <1>14 DEF Others, resolving
<1> QED
    BY <1>3, <1>6, <1>7, <1>8, <1>9, <1>10, <1>11, <1>12, <1>13, <1>14 DEF Kinds
\* What a representation's resolver may answer.
LEMMA EntityLookups ==
    ASSUME NEW rep, NEW o \in EntityOutcomes(rep)
    PROVE  \/ o.ok = TRUE /\ HasResolver(rep) /\ o.user = rep.id /\ rep.id \in accounts
           \/ o.ok = FALSE
    BY Lookups, Codes DEF EntityOutcomes, Failed

\* When every group is done, every representation of the field has its entity.
LEMMA NoneAwaited ==
    ASSUME Inv, NEW t \in Tasks, GroupsDone(t[1])
    PROVE  task[t] \notin {"started", "returned"}
<1>1. op \in Operation /\ TaskOf(t)
    BY DEF Inv, ShapeInv
<1>2. SUFFICES ASSUME task[t] \in {"started", "returned"} PROVE FALSE
    OBVIOUS
<1>3. Rep(t).type # None
    BY <1>1, <1>2 DEF TaskOf
<1>4. GroupOf(t) \in Groups /\ GroupOf(t)[1] = t[1] /\ t \in Awaited(GroupOf(t))
    BY <1>2, <1>3 DEF Groups, GroupOf, Awaited
<1>5. wait[GroupOf(t)] = 0 /\ wait[GroupOf(t)] = Cardinality(Awaited(GroupOf(t)))
    BY <1>4 DEF GroupsDone, Inv, WaitInv
<1>6. t[1] \in Asked /\ Name(t[1]) = "_entities"
    BY <1>1, TaskFields
<1>7. IsFiniteSet(Entities(t[1]))
    BY <1>1, <1>6, TaskOfField
<1>8. Awaited(GroupOf(t)) \subseteq Entities(t[1])
    <2>1. \A s \in Awaited(GroupOf(t)) : s \in Tasks /\ s[1] = t[1]
        BY DEF Awaited, GroupOf
    <2> QED  BY <1>1, <2>1, TaskFields
<1>9. IsFiniteSet(Awaited(GroupOf(t)))
    BY <1>7, <1>8, FS_Subset
<1> QED  BY <1>4, <1>5, <1>9, FS_EmptySet

LEMMA TaskStep ==
    ASSUME Inv, Kinds, NEW t \in Tasks
    PROVE  TaskOf(t)'
<1> DEFINE i == t[1]
<1>1. /\ op' = op /\ Rep(t)' = Rep(t) /\ op \in Operation /\ Grows
    BY StepsFrame, FrameGrows, SameOperation DEF Frame
<1>2. /\ TaskOf(t) /\ FieldOf(i) /\ ValueOf(i) /\ DOMAIN field = Asked /\ DOMAIN value = Asked
      /\ DOMAIN list = Tasks /\ DOMAIN task = Tasks /\ i \in Asked /\ Name(i) = "_entities"
      /\ t[2] # 0 /\ ~Inline(i) /\ t = <<t[1], t[2]>>
    BY <1>1, TaskFields DEF Inv, ShapeInv, Inline
<1> DEFINE IsSettled ==
      \/ task'[t] \in {"returned", "gone"}
      \/ /\ Rep(t).type = None
         /\ field'[i] = "resolving" \/ (field'[i] = "done" /\ value'[i] # Null)
<1> DEFINE Place ==
      /\ task'[t] \in {"none", "started", "returned", "gone"}
      /\ task'[t] # "none" => Rep(t).type # None /\ field'[i] \in {"resolving", "done"}
      /\ Rep(t).type # None /\ field'[i] = "resolving" => task'[t] # "none"
      /\ field'[i] = "done" =>
             task'[t] = IF Rep(t).type # None /\ value'[i] # Null THEN "gone" ELSE "none"
      /\ task'[t] \in {"none", "started"} => list'[t] = Null
      /\ list'[t] # Null => HasResolver(Rep(t)) /\ list'[t] = Rep(t).id /\ list'[t] \in accounts'
<1> DEFINE Faults ==
      IF IsSettled /\ list'[t] = Null THEN \E e \in errors' : FaultsAt(i, t[2])' = {e}
      ELSE FaultsAt(i, t[2])' = {}
<1>3. ASSUME Place, Faults PROVE TaskOf(t)'
    BY <1>1, <1>3 DEF TaskOf, Settled, Explained, HasResolver
\* The representation and its errors stay as they are.
<1>4. ASSUME task'[t] = task[t], list'[t] = list[t], field'[i] = field[i], value'[i] = value[i],
             NEW X, errors' = errors \cup X, \A e \in X : ~(e.at = i /\ e.of = t[2])
      PROVE  TaskOf(t)'
    <2>1. FaultsAt(i, t[2])' = FaultsAt(i, t[2]) /\ errors \subseteq errors'
        BY <1>4, FaultsKept
    <2>2. Place
        BY <1>1, <1>2, <1>4 DEF TaskOf, Grows
    <2>3. Faults
        BY <1>2, <1>4, <2>1 DEF TaskOf, Settled, Explained
    <2> QED  BY <1>3, <2>2, <2>3
<1>5. ASSUME task'[t] = task[t], list'[t] = list[t], field'[i] = field[i], value'[i] = value[i],
             errors' = errors
      PROVE  TaskOf(t)'
    <2>0. errors' = errors \cup {}
        BY <1>5
    <2>1. PICK X : X = {} /\ errors' = errors \cup X
        BY <2>0
    <2>2. \A e \in X : ~(e.at = i /\ e.of = t[2])
        BY <2>1
    <2> HIDE DEF Place, Faults
    <2> QED  BY <1>4, <1>5, <2>1, <2>2
<1>6. CASE Execute
    <2>1. /\ field' = [k \in Asked |-> IF Inline(k) THEN "done" ELSE "started"]
          /\ phase = "received" /\ UNCHANGED <<task, list, errors>>
        BY <1>6 DEF Execute, resolving
    <2>2. field'[i] = "started" /\ field[i] = "none"
        BY <1>2, <2>1 DEF FieldOf
    <2>3. task[t] = "none" /\ list[t] = Null /\ ~Settled(t)
        BY <1>2, <2>2 DEF TaskOf, Settled
    <2>4. FaultsAt(i, t[2]) = {} /\ FaultsAt(i, t[2])' = FaultsAt(i, t[2])
        BY <1>2, <2>1, <2>3, SameFaults DEF TaskOf, Explained
    <2>5. Place /\ ~IsSettled
        BY <2>1, <2>2, <2>3
    <2> QED  BY <1>3, <2>4, <2>5
<1>7. CASE Answer
    BY <1>5, <1>7 DEF Answer, resolving
<1>8. CASE UNCHANGED vars
    BY <1>5, <1>8 DEF vars, resolving
<1>9. ASSUME NEW j \in Asked, Answers(j) PROVE TaskOf(t)'
    <2>1. PICK v, code : Ends(j, v, code)
        BY <1>9 DEF Answers
    <2>2. /\ field' = [field EXCEPT ![j] = "done"] /\ value' = [value EXCEPT ![j] = v]
          /\ errors' = errors \cup Failure(j, v, code)
          /\ UNCHANGED <<task, list>>
        BY <2>1 DEF Ends, Finish, resolving
    <2>3. \A e \in Failure(j, v, code) : ~(e.at = i /\ e.of = t[2])
        BY <1>2, FailureFaults
    <2>4. CASE j # i
        <3>1. field'[i] = field[i] /\ value'[i] = value[i]
            BY <1>2, <2>2, <2>4
        <3> HIDE DEF Place, Faults
        <3> QED  BY <1>4, <2>2, <2>3, <3>1
    <2>5. CASE j = i
        <3>1. field'[i] = "done" /\ value'[i] = v
            BY <1>2, <2>2, <2>5
        <3>2. FaultsAt(i, t[2])' = FaultsAt(i, t[2]) /\ errors \subseteq errors'
            BY <2>2, <2>3, FaultsKept
        <3>3. \/ field[i] = "started" /\ v = Null
              \/ field[i] = "resolving" /\ v # Null /\ GroupsDone(i)
            BY <1>2, <2>1, <2>5 DEF Ends
        <3>4. list[t] # Null => list[t] \in accounts'
            BY <1>1, <1>2 DEF TaskOf, Grows
        <3>5. CASE field[i] = "started" /\ v = Null
            <4>1. task[t] = "none" /\ ~Settled(t) /\ list[t] = Null
                BY <1>2, <3>5 DEF TaskOf, Settled
            <4>2. Place /\ ~IsSettled
                BY <2>2, <3>1, <3>5, <4>1
            <4>3. FaultsAt(i, t[2]) = {}
                BY <1>2, <4>1 DEF TaskOf, Explained
            <4> QED  BY <1>3, <3>2, <4>2, <4>3
        <3>6. CASE field[i] = "resolving" /\ v # Null /\ GroupsDone(i)
            <4>1. task[t] = IF Rep(t).type # None THEN "gone" ELSE "none"
                BY <1>2, <3>6, NoneAwaited DEF TaskOf
            <4>2. Place /\ (IsSettled <=> Settled(t))
                BY <1>2, <2>2, <3>1, <3>4, <3>6, <4>1 DEF TaskOf, Settled
            <4>3. Faults
                BY <1>2, <2>2, <3>2, <4>2 DEF TaskOf, Explained
            <4> QED  BY <1>3, <4>2, <4>3
        <3> QED  BY <3>3, <3>5, <3>6
    <2> QED  BY <2>4, <2>5
<1>10. ASSUME NEW j \in Asked, Registers(j) PROVE TaskOf(t)'
    <2>1. /\ j # i /\ field' = [field EXCEPT ![j] = "registered"]
          /\ UNCHANGED <<value, errors, task, list>>
        BY <1>2, <1>10 DEF Registers, resolving
    <2>2. field'[i] = field[i]
        BY <1>2, <2>1
    <2> HIDE DEF Place, Faults
    <2> QED  BY <1>5, <2>1, <2>2
<1>11. ASSUME NEW j \in Asked, StartEntities(j) PROVE TaskOf(t)'
    <2>1. /\ UNCHANGED <<value, list>> /\ field' = [field EXCEPT ![j] = "resolving"]
          /\ field[j] = "started" /\ Name(j) = "_entities"
          /\ task' = [s \in Tasks |-> IF s \in Members(j) THEN "started" ELSE task[s]]
          /\ errors' = errors \cup {Fault(j, s[2], "none") : s \in Untyped(j)}
        BY <1>11 DEF StartEntities, Runs
    <2>2. PICK X : X = {Fault(j, s[2], "none") : s \in Untyped(j)}
        OBVIOUS
    <2>3. task'[t] = IF t \in Members(j) THEN "started" ELSE task[t]
        BY <2>1
    <2>4. \A s \in Untyped(j) : s = <<j, s[2]>> /\ Rep(s).type = None
        <3>1. \A s \in Untyped(j) : s \in Entities(j) /\ Rep(s).type = None
            BY DEF Untyped, Members
        <3>2. \A s \in Entities(j) : s = <<j, s[2]>>
            BY DEF Entities
        <3> QED  BY <3>1, <3>2
    <2>5. \A e \in X : e.at = j /\ \E s \in Untyped(j) : e.of = s[2] /\ e = Fault(j, s[2], "none")
        BY <2>2 DEF Fault
    <2>6. CASE j # i
        <3>1. t \notin Members(j) /\ field'[i] = field[i]
            BY <1>2, <2>1, <2>6 DEF Members, Entities
        <3>2. \A e \in X : ~(e.at = i /\ e.of = t[2])
            BY <2>5, <2>6
        <3> HIDE DEF Place, Faults
        <3> QED  BY <1>4, <2>1, <2>2, <2>3, <3>1, <3>2
    <2>7. CASE j = i
        <3>1. field[i] = "started" /\ field'[i] = "resolving"
            BY <1>2, <2>1, <2>7
        <3>2. task[t] = "none" /\ list[t] = Null /\ ~Settled(t)
            BY <1>2, <3>1 DEF TaskOf, Settled
        <3>3. FaultsAt(i, t[2]) = {}
            BY <1>2, <3>2 DEF TaskOf, Explained
        <3>4. t \in Entities(j)
            BY <1>1, <2>7, TaskFields
        <3>5. CASE Rep(t).type # None
            <4>1. task'[t] = "started"
                BY <2>3, <3>4, <3>5 DEF Members
            <4>2. Place /\ ~IsSettled
                BY <2>1, <3>1, <3>2, <3>5, <4>1
            <4>3. \A e \in X : ~(e.at = i /\ e.of = t[2])
                BY <1>2, <2>4, <2>5, <2>7, <3>5
            <4>4. FaultsAt(i, t[2])' = FaultsAt(i, t[2])
                BY <2>1, <2>2, <4>3, FaultsKept
            <4> QED  BY <1>3, <3>3, <4>2, <4>4
        <3>6. CASE Rep(t).type = None
            <4>1. task'[t] = "none" /\ t \in Untyped(j)
                BY <2>3, <3>2, <3>4, <3>6 DEF Members, Untyped
            <4>2. Place /\ IsSettled /\ list'[t] = Null
                BY <2>1, <3>1, <3>2, <3>6, <4>1
            <4>3. /\ Fault(j, t[2], "none") \in X
                  /\ \A e \in X : e.of = t[2] => e = Fault(j, t[2], "none")
                BY <2>2, <2>5, <4>1
            <4>4. /\ FaultsAt(j, t[2])' = {Fault(j, t[2], "none")}
                  /\ Fault(j, t[2], "none") \in errors'
                BY <2>1, <2>2, <2>7, <3>3, <4>3, FaultAdded
            <4> QED  BY <1>3, <2>7, <4>2, <4>4
        <3> QED  BY <3>5, <3>6
    <2> QED  BY <2>6, <2>7
<1>12. ASSUME NEW s \in Tasks, ResolveEntity(s) PROVE TaskOf(t)'
    <2>1. /\ task[s] = "started" /\ task' = [task EXCEPT ![s] = "returned"]
          /\ UNCHANGED <<field, value>>
        BY <1>12 DEF ResolveEntity
    <2>2. PICK o \in EntityOutcomes(Rep(s)) :
              /\ list' = IF o.ok THEN [list EXCEPT ![s] = o.user] ELSE list
              /\ errors' = IF o.ok THEN errors ELSE errors \cup {Fault(s[1], s[2], o.code)}
        BY <1>12 DEF ResolveEntity, SlotOf
    <2>3. \/ o.ok = TRUE /\ HasResolver(Rep(s)) /\ o.user = Rep(s).id /\ Rep(s).id \in accounts
          \/ o.ok = FALSE
        BY EntityLookups
    <2>4. PICK X : X = IF o.ok THEN {} ELSE {Fault(s[1], s[2], o.code)}
        OBVIOUS
    <2>5. errors' = errors \cup X /\ \A e \in X : e.at = s[1] /\ e.of = s[2]
        BY <2>2, <2>4 DEF Fault
    <2>6. CASE s # t
        <3>1. task'[t] = task[t] /\ list'[t] = list[t]
            BY <1>2, <2>1, <2>2, <2>6
        <3>2. s = <<s[1], s[2]>>
            BY <1>1, TaskFields
        <3>3. \A e \in X : ~(e.at = i /\ e.of = t[2])
            BY <1>2, <2>5, <2>6, <3>2
        <3> HIDE DEF Place, Faults
        <3> QED  BY <1>4, <2>1, <2>5, <3>1, <3>3
    <2>7. CASE s = t
        <3>1. task'[t] = "returned" /\ field'[i] = field[i] /\ value'[i] = value[i]
            BY <1>2, <2>1, <2>7
        <3>2. Rep(t).type # None /\ field[i] = "resolving" /\ list[t] = Null /\ ~Settled(t)
            BY <1>2, <2>1, <2>7 DEF TaskOf, Settled
        <3>3. FaultsAt(i, t[2]) = {}
            BY <1>2, <3>2 DEF TaskOf, Explained
        <3>4. CASE o.ok = TRUE
            <4>1. list'[t] = Rep(t).id /\ HasResolver(Rep(t)) /\ Rep(t).id \in accounts'
                BY <1>1, <1>2, <2>2, <2>3, <2>7, <3>4 DEF Grows
            <4>2. Rep(t).id # Null
                BY <4>1, SubgraphAssumption DEF accounts
            <4>3. \A e \in X : ~(e.at = i /\ e.of = t[2])
                BY <2>4, <3>4
            <4>4. FaultsAt(i, t[2])' = FaultsAt(i, t[2])
                BY <2>5, <4>3, FaultsKept
            <4>5. Place /\ Faults
                BY <3>1, <3>2, <3>3, <4>1, <4>2, <4>4
            <4> QED  BY <1>3, <4>5
        <3>5. CASE o.ok = FALSE
            <4>1. list'[t] = Null
                BY <2>2, <3>2, <3>5
            <4>2. /\ Fault(i, t[2], o.code) \in X
                  /\ \A e \in X : e = Fault(i, t[2], o.code)
                BY <2>4, <2>7, <3>5
            <4>3. /\ FaultsAt(i, t[2])' = {Fault(i, t[2], o.code)}
                  /\ Fault(i, t[2], o.code) \in errors'
                BY <2>5, <3>3, <4>2, FaultAdded
            <4>4. Place /\ Faults
                BY <3>1, <3>2, <4>1, <4>3
            <4> QED  BY <1>3, <4>4
        <3> QED  BY <2>3, <3>4, <3>5
    <2> QED  BY <2>6, <2>7
<1>13. ASSUME NEW s \in Tasks, Done(s) PROVE TaskOf(t)'
    <2>1. /\ task[s] = "returned" /\ task' = [task EXCEPT ![s] = "gone"]
          /\ UNCHANGED <<field, value, list, errors>>
        BY <1>13 DEF Done
    <2>2. CASE s # t
        <3>1. task'[t] = task[t]
            BY <1>2, <2>1, <2>2
        <3> HIDE DEF Place, Faults
        <3> QED  BY <1>5, <2>1, <3>1
    <2>3. CASE s = t
        <3>1. task'[t] = "gone" /\ task[t] = "returned"
            BY <1>2, <2>1, <2>3
        <3>2. Rep(t).type # None /\ field[i] = "resolving" /\ Settled(t)
            BY <1>2, <3>1 DEF TaskOf, Settled
        <3>3. FaultsAt(i, t[2])' = FaultsAt(i, t[2])
            BY <2>1, SameFaults
        <3>4. Place
            BY <1>1, <1>2, <2>1, <3>1, <3>2 DEF TaskOf, Grows
        <3>5. Faults
            BY <1>2, <2>1, <3>1, <3>2, <3>3 DEF TaskOf, Explained
        <3> QED  BY <1>3, <3>4, <3>5
    <2> QED  BY <2>2, <2>3
<1>14. ASSUME NEW u \in User, Others(u) PROVE TaskOf(t)'
    BY <1>5, <1>14 DEF Others, resolving
<1> QED
    BY <1>6, <1>7, <1>8, <1>9, <1>10, <1>11, <1>12, <1>13, <1>14 DEF Kinds
LEMMA AwaitedIsFinite ==
    ASSUME op \in Operation, NEW g
    PROVE  IsFiniteSet(Awaited(g))
<1>1. CASE Awaited(g) = {}
    BY <1>1, FS_EmptySet
<1>2. ASSUME NEW s \in Awaited(g) PROVE IsFiniteSet(Awaited(g))
    <2>1. s \in Tasks /\ g[1] = s[1]
        BY DEF Awaited, GroupOf
    <2>2. s[1] \in Asked /\ Name(s[1]) = "_entities"
        BY <2>1, TaskFields
    <2>3. \A t \in Awaited(g) : t \in Tasks /\ t[1] = s[1]
        BY <2>1 DEF Awaited, GroupOf
    <2>4. Awaited(g) \subseteq Entities(s[1])
        BY <2>3, TaskFields
    <2> QED  BY <2>2, <2>4, TaskOfField, FS_Subset
<1> QED  BY <1>1, <1>2

LEMMA WaitStep ==
    ASSUME Inv, Kinds
    PROVE  WaitInv'
<1>1. /\ op' = op /\ Tasks' = Tasks /\ Groups' = Groups /\ \A t : GroupOf(t)' = GroupOf(t)
      /\ op \in Operation
    BY StepsFrame, SameOperation DEF Frame
<1>2. /\ DOMAIN task = Tasks /\ DOMAIN wait = Groups
      /\ \A g \in Groups : wait[g] = Cardinality(Awaited(g))
    BY DEF Inv, ShapeInv, WaitInv
<1> DEFINE Waiting(g) == {t \in Tasks : GroupOf(t) = g /\ task'[t] \in {"started", "returned"}}
<1>3. \A g : Awaited(g)' = Waiting(g)
    BY <1>1 DEF Awaited
<1>4. SUFFICES ASSUME NEW g \in Groups PROVE wait'[g] = Cardinality(Waiting(g))
    BY <1>1, <1>3 DEF WaitInv
<1>5. ASSUME UNCHANGED <<task, wait>> PROVE wait'[g] = Cardinality(Waiting(g))
    <2>1. Waiting(g) = Awaited(g)
        BY <1>5 DEF Awaited
    <2> QED  BY <1>2, <1>5, <2>1
<1>6. CASE Execute
    BY <1>5, <1>6 DEF Execute, resolving
<1>7. CASE Answer
    BY <1>5, <1>7 DEF Answer, resolving
<1>8. CASE UNCHANGED vars
    BY <1>5, <1>8 DEF vars, resolving
<1>9. ASSUME NEW i \in Asked, Answers(i) PROVE wait'[g] = Cardinality(Waiting(g))
    BY <1>5, <1>9 DEF Answers, Ends, resolving
<1>10. ASSUME NEW i \in Asked, Registers(i) PROVE wait'[g] = Cardinality(Waiting(g))
    BY <1>5, <1>10 DEF Registers, resolving
<1>11. ASSUME NEW i \in Asked, StartEntities(i) PROVE wait'[g] = Cardinality(Waiting(g))
    <2>1. /\ wait' = [h \in Groups |-> IF h[1] = i THEN Size(h) ELSE wait[h]]
          /\ task' = [t \in Tasks |-> IF t \in Members(i) THEN "started" ELSE task[t]]
        BY <1>11 DEF StartEntities
    <2>2. PICK s \in Tasks : g = GroupOf(s) /\ Rep(s).type # None
        BY DEF Groups
    <2>3. g[1] = s[1] /\ g[2] = Rep(s).type
        BY <2>2 DEF GroupOf
    <2>4. \A t \in Tasks : GroupOf(t) = g => t[1] = g[1] /\ Rep(t).type # None /\ t \in Entities(g[1])
        <3>1. \A t : GroupOf(t)[1] = t[1] /\ GroupOf(t)[2] = Rep(t).type
            BY DEF GroupOf
        <3> QED  BY <1>1, <2>2, <2>3, <3>1, TaskFields
    <2>5. CASE g[1] = i
        <3>1. wait'[g] = Cardinality({t \in Members(i) : GroupOf(t) = g})
            BY <2>1, <2>5 DEF Size
        <3>2. \A t \in Tasks : GroupOf(t) = g => t \in Members(i) /\ task'[t] = "started"
            BY <2>1, <2>4, <2>5 DEF Members
        <3>3. Members(i) \subseteq Tasks
            BY <1>1, <2>2, <2>3, <2>5, TaskFields, TaskOfField DEF Members
        <3>4. Waiting(g) = {t \in Members(i) : GroupOf(t) = g}
            BY <3>2, <3>3
        <3> QED  BY <3>1, <3>4
    <2>6. CASE g[1] # i
        <3>1. \A t \in Members(i) : t[1] = i
            BY DEF Members, Entities
        <3>2. \A t \in Tasks : GroupOf(t) = g => task'[t] = task[t]
            BY <2>1, <2>4, <2>6, <3>1
        <3>3. Waiting(g) = Awaited(g)
            BY <3>2 DEF Awaited
        <3> QED  BY <1>2, <2>1, <2>6, <3>3
    <2> QED  BY <2>5, <2>6
<1>12. ASSUME NEW s \in Tasks, ResolveEntity(s) PROVE wait'[g] = Cardinality(Waiting(g))
    <2>1. task[s] = "started" /\ task' = [task EXCEPT ![s] = "returned"] /\ wait' = wait
        BY <1>12 DEF ResolveEntity
    <2>2. Waiting(g) = Awaited(g)
        BY <1>2, <2>1 DEF Awaited
    <2> QED  BY <1>2, <2>1, <2>2
<1>13. ASSUME NEW s \in Tasks, Done(s) PROVE wait'[g] = Cardinality(Waiting(g))
    <2>1. /\ task[s] = "returned" /\ task' = [task EXCEPT ![s] = "gone"]
          /\ wait' = [wait EXCEPT ![GroupOf(s)] = @ - 1]
        BY <1>13 DEF Done
    <2>2. CASE GroupOf(s) = g
        <3>1. s \in Awaited(g) /\ Waiting(g) = Awaited(g) \ {s}
            BY <1>2, <2>1, <2>2 DEF Awaited
        <3>2. wait'[g] = Cardinality(Awaited(g)) - 1
            BY <1>2, <2>1, <2>2
        <3>3. Cardinality(Awaited(g) \ {s}) = Cardinality(Awaited(g)) - 1
            BY <1>1, <3>1, AwaitedIsFinite, FS_RemoveElement
        <3> QED  BY <3>1, <3>2, <3>3
    <2>3. CASE GroupOf(s) # g
        <3>1. Waiting(g) = Awaited(g)
            BY <1>2, <2>1, <2>3 DEF Awaited
        <3>2. wait'[g] = wait[g]
            BY <1>2, <2>1, <2>3
        <3> QED  BY <1>2, <3>1, <3>2
    <2> QED  BY <2>2, <2>3
<1>14. ASSUME NEW u \in User, Others(u) PROVE wait'[g] = Cardinality(Waiting(g))
    BY <1>5, <1>14 DEF Others, resolving
<1> QED
    BY <1>6, <1>7, <1>8, <1>9, <1>10, <1>11, <1>12, <1>13, <1>14 DEF Kinds

LEMMA NullStep ==
    ASSUME Inv, Kinds
    PROVE  NullInv'
<1>1. /\ op' = op /\ Asked' = Asked /\ op \in Operation /\ \A i : Name(i)' = Name(i)
    BY StepsFrame, SameOperation DEF Frame
<1>2. /\ NullInv /\ invalids \in Nat /\ DOMAIN value = Asked /\ DOMAIN field = Asked
      /\ \A i \in Asked : FieldOf(i) /\ ValueOf(i)
    BY DEF Inv, ShapeInv
<1> DEFINE Missing == \E i \in Asked : value[i] = Null /\ ~Schema[op.kind][Name(i)].nullable
           MissingAfter == \E i \in Asked : value'[i] = Null /\ ~Schema[op.kind][Name(i)].nullable
           Whole == phase' = "answered" =>
               /\ \A i \in Asked : field'[i] = "done"
               /\ data' = IF invalids' > 0 THEN Null ELSE value'
<1>3. ASSUME invalids' > 0 <=> MissingAfter, Whole PROVE NullInv'
    BY <1>1, <1>3 DEF NullInv, Answered
<1>4. ASSUME UNCHANGED <<value, invalids>>, Whole PROVE NullInv'
    <2>1. invalids' > 0 <=> MissingAfter
        BY <1>2, <1>4 DEF NullInv
    <2> QED  BY <1>3, <1>4, <2>1
<1>5. CASE Execute
    <2>1. /\ value' = [i \in Asked |-> InlineValue(i)] /\ invalids' = invalids
          /\ phase = "received" /\ phase' = "executing"
        BY <1>5 DEF Execute
    <2>2. \A i \in Asked : value[i] = None
        BY <1>2, <2>1 DEF FieldOf, ValueOf
    <2>3. ~(invalids > 0)
        BY <1>2, <2>2, Objects DEF NullInv
    <2>4. ~MissingAfter
        BY <1>1, <2>1, InlineValues
    <2> QED  BY <1>3, <2>1, <2>3, <2>4
<1>6. CASE Answer
    BY <1>4, <1>6 DEF Answer
<1>7. CASE UNCHANGED vars
    BY <1>2, <1>4, <1>7 DEF vars, NullInv, Answered
<1>8. ASSUME NEW i \in Asked, Answers(i) PROVE NullInv'
    <2>1. PICK v, code : Ends(i, v, code)
        BY <1>8 DEF Answers
    <2>2. /\ value' = [value EXCEPT ![i] = v] /\ ~Inline(i) /\ phase' = "executing"
          /\ invalids' = IF v = Null THEN invalids + 1 ELSE invalids
          /\ field[i] # "done"
        BY <2>1 DEF Ends, Finish
    <2>3. value[i] = None /\ None # Null
        BY <1>2, <2>2, Objects DEF ValueOf
    <2>4. ~Schema[op.kind][Name(i)].nullable
        BY <1>1, <2>2, Names DEF Inline
    <2>5. invalids' > 0 <=> MissingAfter
        <3>1. CASE v = Null
            <4>1. value'[i] = Null
                BY <1>2, <2>2, <3>1
            <4> QED  BY <1>2, <2>2, <2>4, <3>1, <4>1
        <3>2. CASE v # Null
            <4>1. \A k \in Asked : value'[k] = Null <=> value[k] = Null
                BY <1>2, <2>2, <2>3, <3>2
            <4>2. MissingAfter <=> Missing
                BY <4>1
            <4> QED  BY <1>2, <2>2, <3>2, <4>2 DEF NullInv
        <3> QED  BY <3>1, <3>2
    <2> QED  BY <1>3, <2>2, <2>5
<1>9. ASSUME NEW i \in Asked, Registers(i) PROVE NullInv'
    BY <1>4, <1>9 DEF Registers
<1>10. ASSUME NEW i \in Asked, StartEntities(i) PROVE NullInv'
    BY <1>4, <1>10 DEF StartEntities, Runs
<1>11. ASSUME NEW t \in Tasks, ResolveEntity(t) \/ Done(t) PROVE NullInv'
    <2>1. UNCHANGED <<phase, field, value, invalids, data>>
        BY <1>11 DEF ResolveEntity, Done
    <2> QED  BY <1>2, <1>4, <2>1 DEF NullInv, Answered
<1>12. ASSUME NEW u \in User, Others(u) PROVE NullInv'
    BY <1>4, <1>12 DEF Others
<1> QED
    BY <1>5, <1>6, <1>7, <1>8, <1>9, <1>10, <1>11, <1>12 DEF Kinds
\* A commit is that of a field's own use case.
LEMMA Commits ==
    ASSUME Inv, Kinds
    PROVE  \/ committed' = committed
           \/ \E i \in Asked :
                /\ field[i] = "started" /\ InOrder(i) /\ committed' = committed \cup {i}
                /\ \/ Registers(i)
                   \/ \E v, code : Ends(i, v, code) /\ Wrote(i) /\ Outcome(i, v, code)
<1>1. ASSUME NEW i \in Asked, Answers(i)
      PROVE  \/ committed' = committed
             \/ /\ field[i] = "started" /\ InOrder(i) /\ committed' = committed \cup {i}
                /\ \E v, code : Ends(i, v, code) /\ Wrote(i) /\ Outcome(i, v, code)
    BY <1>1 DEF Answers, Wrote, Ends
<1>2. ASSUME NEW i \in Asked, Registers(i)
      PROVE  field[i] = "started" /\ InOrder(i) /\ committed' = committed \cup {i}
    BY <1>2 DEF Registers
<1>3. CASE Execute \/ Answer \/ UNCHANGED vars
    BY <1>3 DEF Execute, Answer, vars
<1>4. ASSUME NEW i \in Asked, StartEntities(i) PROVE committed' = committed
    BY <1>4 DEF StartEntities
<1>5. ASSUME NEW t \in Tasks, ResolveEntity(t) \/ Done(t) PROVE committed' = committed
    BY <1>5 DEF ResolveEntity, Done
<1>6. ASSUME NEW u \in User, Others(u) PROVE committed' = committed
    BY <1>6 DEF Others
<1> QED  BY <1>1, <1>2, <1>3, <1>4, <1>5, <1>6 DEF Kinds

LEMMA RegisteredStep ==
    ASSUME Inv, RegisteredInv, Kinds
    PROVE  RegisteredInv'
<1>1. op' = op /\ Grows /\ op \in Operation /\ DOMAIN hash = User /\ committed \subseteq Asked
    BY StepsFrame, FrameGrows DEF Frame, Inv, ShapeInv, CallerInv
<1>2. ASSUME NEW i \in committed, Name(i) = "registerUser"
      PROVE  hash'[op.fields[i].user] = Hash(op.fields[i].password)
    <2>1. hash[op.fields[i].user] = Hash(op.fields[i].password)
        BY <1>2 DEF RegisteredInv
    <2>2. op.fields[i].user \in User /\ op.fields[i].password \in Password
        BY <1>1, <1>2, OperationFields
    <2>3. op.fields[i].user \in accounts
        BY <2>1, <2>2, HashStores DEF accounts
    <2> QED  BY <1>1, <2>1, <2>3 DEF Grows
<1>3. ASSUME NEW i \in Asked, committed' = committed \cup {i}, Name(i) = "registerUser",
             Adds(op.fields[i].user, op.fields[i].password)
      PROVE  hash'[op.fields[i].user] = Hash(op.fields[i].password)
    BY <1>1, <1>3, AddsGrows
<1>4. \A i \in committed' : Name(i) = "registerUser" =>
          hash'[op.fields[i].user] = Hash(op.fields[i].password)
    <2>1. CASE committed' = committed
        BY <1>2, <2>1
    <2>2. ASSUME NEW i \in Asked, committed' = committed \cup {i}, field[i] = "started",
                 Registers(i) \/ \E v, code : Ends(i, v, code) /\ Wrote(i)
          PROVE  \A j \in committed' : Name(j) = "registerUser" =>
                     hash'[op.fields[j].user] = Hash(op.fields[j].password)
        <3>1. i \notin committed
            BY <2>2, Running
        <3>2. Name(i) = "registerUser" => Adds(op.fields[i].user, op.fields[i].password)
            BY <2>2, <3>1 DEF Registers, Wrote
        <3>3. Name(i) = "registerUser" => hash'[op.fields[i].user] = Hash(op.fields[i].password)
            BY <1>3, <2>2, <3>2
        <3> QED  BY <1>2, <2>2, <3>3
    <2> QED  BY <2>1, <2>2, Commits
<1> QED  BY <1>1, <1>4, SameOperation DEF RegisteredInv

-----------------------------------------------------------------------------
(* The invariant.                                                           *)

LEMMA StoredStores ==
    ASSUME NEW h \in Stored
    PROVE  Stores(h) /\ h # None
<1>1. /\ "secret" \in Password /\ Params \subseteq Params \cup {"malformed"}
      /\ "malformed" \notin Params /\ "current" \in Params
    BY DEF Password, Params
<1>2. ASSUME NEW p \in Params PROVE Stores(Encode("secret", p))
    <2>1. Encode("secret", p) = [algorithm |-> "argon2id", version |-> 19, params |-> p, key |-> <<"secret", p>>]
        BY DEF Encode, IDKey
    <2>2. /\ Encode("secret", p) \in Encoded
          /\ Encode("secret", p).key[2] = p /\ Encode("secret", p).params = p
        BY <1>1, <2>1 DEF Encoded
    <2> QED  BY <2>2 DEF Stores
<1>3. Hash("secret") \in Encoded
    BY <1>1, HashStores DEF Stores
<1>4. Stores([Hash("secret") EXCEPT !.algorithm = "bcrypt"])
    <2>1. PICK g : g = [Hash("secret") EXCEPT !.algorithm = "bcrypt"]
        OBVIOUS
    <2>2. g \in Encoded /\ g.algorithm = "bcrypt"
        BY <1>3, <2>1 DEF Encoded
    <2> QED  BY <2>1, <2>2 DEF Stores, Readable
<1>5. Stores([Hash("secret") EXCEPT !.params = "malformed"])
    <2>1. PICK g : g = [Hash("secret") EXCEPT !.params = "malformed"]
        OBVIOUS
    <2>2. g \in Encoded /\ g.params = "malformed"
        BY <1>3, <2>1 DEF Encoded
    <2> QED  BY <1>1, <2>1, <2>2 DEF Stores, Readable
<1>6. Stores(h)
    BY <1>2, <1>4, <1>5 DEF Stored
<1>7. h \in Encoded
    BY <1>6 DEF Stores
<1> QED  BY <1>6, <1>7, AbsenceAssumption

LEMMA InitInv == Init => Inv /\ RegisteredInv
<1> SUFFICES ASSUME Init PROVE Inv /\ RegisteredInv
    OBVIOUS
<1>1. /\ op \in Operation /\ phase = "received" /\ invalids = 0 /\ errors = {} /\ committed = {}
      /\ field = [i \in Asked |-> "none"] /\ value = [i \in Asked |-> None]
      /\ task = [t \in Tasks |-> "none"] /\ list = [t \in Tasks |-> Null]
      /\ wait = [g \in Groups |-> 0] /\ claims \in {None} \cup [sub : accounts, roles : RoleLists]
      /\ None # Null
    BY Objects DEF Init
<1>2. CallerInv
    <2>1. PICK registered \in SUBSET User, h \in Stored :
              hash = [u \in User |-> IF u \in registered THEN h ELSE None]
        BY DEF Init
    <2>2. DOMAIN hash = User /\ \A u \in accounts : hash[u] = h
        BY <2>1 DEF accounts
    <2>3. accounts \subseteq User
        BY DEF accounts
    <2> QED  BY <1>1, <2>2, <2>3, StoredStores DEF CallerInv
<1>3. ShapeInv
    <2>1. \A i \in Asked : value[i] = None /\ None \in Values(op.fields[i])
        BY <1>1 DEF Values
    <2>2. value = [i \in Asked |-> value[i]]
        BY <1>1
    <2> QED  BY <1>1, <2>1, <2>2 DEF ShapeInv
<1>4. ASSUME NEW i \in Asked PROVE FieldOf(i) /\ ValueOf(i)
    <2>1. field[i] = "none" /\ value[i] = None /\ FaultsAt(i, 0) = {}
        BY <1>1 DEF FaultsAt
    <2> QED  BY <1>1, <2>1 DEF FieldOf, ValueOf, Explained
<1>5. ASSUME NEW t \in Tasks PROVE TaskOf(t)
    <2>1. t[1] \in Asked
        BY <1>1, TaskFields
    <2>2. /\ task[t] = "none" /\ list[t] = Null /\ field[t[1]] = "none"
          /\ FaultsAt(t[1], t[2]) = {}
        BY <1>1, <2>1 DEF FaultsAt
    <2> QED  BY <2>2 DEF TaskOf, Settled, Explained
<1>6. WaitInv
    <2>1. ASSUME NEW g \in Groups PROVE Awaited(g) = {} /\ wait[g] = 0
        BY <1>1 DEF Awaited
    <2> QED  BY <2>1, FS_EmptySet DEF WaitInv
<1>7. NullInv
    BY <1>1 DEF NullInv, Answered
<1>8. RegisteredInv
    BY <1>1 DEF RegisteredInv
<1> QED  BY <1>2, <1>3, <1>4, <1>5, <1>6, <1>7, <1>8 DEF Inv

LEMMA InvStep ==
    ASSUME Inv, RegisteredInv, [Next]_vars
    PROVE  Inv' /\ RegisteredInv'
<1>1. Kinds /\ Frame
    BY Steps, StepsFrame
<1>2. Asked' = Asked /\ Tasks' = Tasks
    BY <1>1, SameOperation DEF Frame
<1>3. CallerInv' /\ ShapeInv' /\ WaitInv' /\ NullInv'
    BY <1>1, CallerStep, ShapeStep, WaitStep, NullStep
<1>4. \A i \in Asked : FieldOf(i)' /\ ValueOf(i)'
    BY <1>1, FieldStep, ValueStep
<1>5. \A t \in Tasks : TaskOf(t)'
    BY <1>1, TaskStep
<1>6. Inv'
    BY <1>2, <1>3, <1>4, <1>5 DEF Inv
<1> QED  BY <1>1, <1>6, RegisteredStep

\* Whatever the operations, the users and the failures: each field, each
\* representation and each wait group is where the executor may have brought it,
\* the slots of the shared list and the errors agree with it, and the account of
\* a registration is the one asked for.
THEOREM SubgraphInvariance == Spec => [](Inv /\ RegisteredInv)
<1>1. Inv /\ RegisteredInv /\ [Next]_vars => (Inv /\ RegisteredInv)'
    BY InvStep
<1> QED  BY InitInv, <1>1, PTL DEF Spec
-----------------------------------------------------------------------------
(* The properties of the answer, which the invariant implies.               *)

\* The data of a response is null exactly when a field that the schema declares
\* non-null has failed; otherwise every field asked for is in it.
THEOREM ResponseFollowsSchema == Spec => []DataFollowsSchema
<1>1. Inv => DataFollowsSchema
    <2>1. SUFFICES ASSUME Inv, Answered PROVE DataFollowsSchema
        BY DEF DataFollowsSchema
    <2>2. op \in Operation /\ \A i \in Asked : value[i] \in Values(op.fields[i])
        BY <2>1 DEF Inv, ShapeInv
    <2>3. value = [i \in Asked |-> value[i]]
        BY <2>1 DEF Inv, ShapeInv
    <2>4. value # Null
        <3> DEFINE Lists == UNION {List(f) : f \in Range(op.fields)}
                   All == Lists \cup Object \cup Text \cup {None, Null}
        <3>1. \A i \in Asked : value[i] \in All
            <4>1. SUFFICES ASSUME NEW i \in Asked PROVE value[i] \in All
                OBVIOUS
            <4>2. op.fields[i] \in Range(op.fields)
                BY DEF Asked, Range
            <4>3. value[i] \in List(op.fields[i]) \cup Object \cup Text \cup {None, Null}
                BY <2>2 DEF Values
            <4>4. List(op.fields[i]) \subseteq Lists
                BY <4>2
            <4> QED  BY <4>3, <4>4
        <3>2. value \in [DOMAIN op.fields -> All]
            BY <2>3, <3>1 DEF Asked
        <3> QED  BY <2>2, <3>2, AbsenceAssumption
    <2>5. /\ invalids > 0 <=> \E i \in Asked : value[i] = Null /\ ~Schema[op.kind][Name(i)].nullable
          /\ \A i \in Asked : field[i] = "done"
          /\ data = IF invalids > 0 THEN Null ELSE value
        BY <2>1 DEF Inv, NullInv
    <2>6. \A i \in Asked : value[i] # None
        BY <2>1, <2>5 DEF Inv, ValueOf
    <2> QED  BY <2>4, <2>5, <2>6 DEF DataFollowsSchema
<1> QED  BY <1>1, SubgraphInvariance, PTL

LEMMA ExplainedCount ==
    ASSUME NEW i, NEW k, NEW failed \in BOOLEAN, Explained(i, k, failed)
    PROVE  Cardinality(FaultsAt(i, k)) = IF failed THEN 1 ELSE 0
    BY FS_EmptySet, FS_Singleton DEF Explained

\* What an entity's slot shows, once its field has been marshalled.
LEMMA MarshalledEntity ==
    ASSUME Inv, NEW i \in Asked, Name(i) = "_entities", field[i] = "done", value[i] # Null,
           NEW k \in DOMAIN Reps(i)
    PROVE  /\ <<i, k>> \in Tasks /\ Settled(<<i, k>>)
           /\ value[i][k] = Null <=> list[<<i, k>>] = Null
           /\ value[i][k] # Null => /\ HasResolver(Reps(i)[k]) /\ Reps(i)[k].id \in accounts
                                    /\ value[i][k] = UserObject(Sel(i), Reps(i)[k].id)
<1> DEFINE t == <<i, k>>
<1>1. op \in Operation /\ ValueOf(i)
    BY DEF Inv, ShapeInv
<1>2. t \in Tasks /\ t[1] = i /\ t[2] = k
    BY <1>1, TaskOfField
<1>3. TaskOf(t) /\ Rep(t) = Reps(i)[k]
    BY <1>2 DEF Inv, Rep
<1>4. value[i] = [n \in DOMAIN Reps(i) |-> Entity(i, n)]
    BY <1>1 DEF ValueOf
<1>5. value[i][k] = IF list[t] = Null THEN Null ELSE UserObject(Sel(i), list[t])
    BY <1>4 DEF Entity
<1>6. Settled(t)
    BY <1>2, <1>3 DEF TaskOf, Settled
<1>7. list[t] # Null => /\ HasResolver(Rep(t)) /\ list[t] = Rep(t).id /\ list[t] \in accounts
    BY <1>3 DEF TaskOf
<1>8. list[t] # Null => UserObject(Sel(i), list[t]) # Null
    <2>1. Sel(i) \subseteq UserFields
        BY <1>1, OperationFields DEF Selectable
    <2> QED  BY <1>7, <2>1, Objects DEF accounts
<1> QED  BY <1>2, <1>3, <1>5, <1>6, <1>7, <1>8

\* Every null that stands for a failure has one error of its own, and every error
\* explains one null, whichever goroutines fail and in whatever order.
THEOREM OneErrorPerNull == Spec => []NullsAreExplained
<1>1. Inv => NullsAreExplained
    <2>1. SUFFICES ASSUME Inv, Answered, NEW i \in Asked, ~Inline(i)
                   PROVE  /\ Cardinality(FaultsAt(i, 0)) = IF value[i] = Null THEN 1 ELSE 0
                          /\ Name(i) = "_entities" => \A k \in DOMAIN Reps(i) :
                              Cardinality(FaultsAt(i, k)) =
                                  IF value[i] # Null /\ value[i][k] = Null THEN 1 ELSE 0
        BY DEF NullsAreExplained
    <2>2. field[i] = "done" /\ op \in Operation
        BY <2>1 DEF Inv, NullInv, ShapeInv
    <2>3. Cardinality(FaultsAt(i, 0)) = IF value[i] = Null THEN 1 ELSE 0
        <3>1. Explained(i, 0, value[i] = Null)
            BY <2>1 DEF Inv, ValueOf, Explained
        <3>2. (value[i] = Null) \in BOOLEAN
            OBVIOUS
        <3> QED  BY <3>1, <3>2, ExplainedCount
    <2>4. ASSUME NEW k \in DOMAIN Reps(i), Name(i) = "_entities"
          PROVE  Cardinality(FaultsAt(i, k)) = IF value[i] # Null /\ value[i][k] = Null THEN 1 ELSE 0
        <3>1. <<i, k>> \in Tasks /\ <<i, k>>[1] = i /\ <<i, k>>[2] = k
            BY <2>2, <2>4, TaskOfField
        <3>2. TaskOf(<<i, k>>)
            BY <2>1, <3>1 DEF Inv
        <3>3. Explained(i, k, Settled(<<i, k>>) /\ list[<<i, k>>] = Null)
            BY <3>1, <3>2 DEF TaskOf
        <3>4. CASE value[i] = Null
            <4>1. ~Settled(<<i, k>>)
                BY <2>2, <3>1, <3>2, <3>4 DEF TaskOf, Settled
            <4>2. Explained(i, k, FALSE)
                BY <3>3, <4>1 DEF Explained
            <4> QED  BY <3>4, <4>2, ExplainedCount
        <3>5. CASE value[i] # Null
            <4>1. Settled(<<i, k>>) /\ (value[i][k] = Null <=> list[<<i, k>>] = Null)
                BY <2>1, <2>2, <2>4, <3>5, MarshalledEntity
            <4>2. Explained(i, k, value[i][k] = Null)
                BY <3>3, <4>1 DEF Explained
            <4>3. (value[i][k] = Null) \in BOOLEAN
                OBVIOUS
            <4>4. Cardinality(FaultsAt(i, k)) = IF value[i][k] = Null THEN 1 ELSE 0
                BY <4>2, <4>3, ExplainedCount
            <4> QED  BY <3>5, <4>4
        <3> QED  BY <3>4, <3>5
    <2> QED  BY <2>3, <2>4
<1> QED  BY <1>1, SubgraphInvariance, PTL

LEMMA UserObjects ==
    ASSUME NEW sel, sel \subseteq UserFields, NEW u
    PROVE  UserObject(sel, u) = [f \in sel |-> <<f, u>>]
<1>1. \A f \in sel : UserView(u)[f] = <<f, u>>
    BY DEF UserView
<1> QED  BY <1>1 DEF UserObject, Restrict

\* Whatever the order in which the entities are resolved, each slot holds the
\* account that its representation names, or null.
THEOREM SlotsByPosition == Spec => []SlotsKeepTheirPlace
<1>1. Inv => SlotsKeepTheirPlace
    <2>1. SUFFICES ASSUME Inv, Answered, NEW t \in Tasks,
                          value[t[1]] # Null, value[t[1]][t[2]] # Null
                   PROVE  /\ Rep(t).type = "User" /\ Rep(t).id \in accounts
                          /\ value[t[1]][t[2]] = [f \in Sel(t[1]) |-> <<f, Rep(t).id>>]
        BY DEF SlotsKeepTheirPlace
    <2>2. op \in Operation
        BY <2>1 DEF Inv, ShapeInv
    <2>3. t[1] \in Asked /\ Name(t[1]) = "_entities" /\ t[2] \in DOMAIN Reps(t[1])
        BY <2>2, TaskFields
    <2>4. field[t[1]] = "done"
        BY <2>1, <2>3 DEF Inv, NullInv
    <2>5. /\ HasResolver(Rep(t)) /\ Rep(t).id \in accounts
          /\ value[t[1]][t[2]] = UserObject(Sel(t[1]), Rep(t).id)
        BY <2>1, <2>3, <2>4, MarshalledEntity DEF Rep
    <2>6. Sel(t[1]) \subseteq UserFields
        BY <2>2, <2>3, OperationFields DEF Selectable
    <2> QED  BY <2>5, <2>6, UserObjects DEF HasResolver
<1> QED  BY <1>1, SubgraphInvariance, PTL
-----------------------------------------------------------------------------
(* The properties of the resolvers, which each step keeps.                  *)

Ended(i, v, code) ==
    /\ Ends(i, v, code) /\ Wrote(i) /\ Outcome(i, v, code)
    /\ field[i] # "done" /\ field'[i] = "done" /\ value'[i] = v
    /\ FaultsAt(i, 0) = {} /\ FaultsAt(i, 0)' = Failure(i, v, code)

\* The value of a field and the errors of it change only as the field ends.
LEMMA Progress ==
    ASSUME Inv, Kinds, NEW j \in Asked, ~Inline(j)
    PROVE  \/ \E v, code : Ended(j, v, code)
           \/ /\ FaultsAt(j, 0)' = FaultsAt(j, 0)
              /\ field'[j] = "done" => field[j] = "done" /\ value'[j] = value[j]
<1>1. /\ op \in Operation /\ DOMAIN field = Asked /\ DOMAIN value = Asked
      /\ FieldOf(j) /\ ValueOf(j) /\ None # Null
    BY Objects DEF Inv, ShapeInv
<1>2. CASE Execute
    <2>1. field'[j] = "started" /\ errors' = errors
        BY <1>2 DEF Execute
    <2> QED  BY <2>1, SameFaults
<1>3. CASE Answer \/ UNCHANGED vars
    <2>1. UNCHANGED <<field, value, errors>>
        BY <1>3 DEF Answer, vars
    <2> QED  BY <2>1, SameFaults
<1>4. ASSUME NEW i \in Asked, Answers(i)
      PROVE  \/ \E v, code : Ended(j, v, code)
             \/ /\ FaultsAt(j, 0)' = FaultsAt(j, 0)
                /\ field'[j] = "done" => field[j] = "done" /\ value'[j] = value[j]
    <2>1. PICK v, code : Ends(i, v, code) /\ Wrote(i) /\ Outcome(i, v, code)
        BY <1>4 DEF Answers
    <2>2. /\ field' = [field EXCEPT ![i] = "done"] /\ value' = [value EXCEPT ![i] = v]
          /\ errors' = errors \cup Failure(i, v, code) /\ field[i] # "done"
        BY <2>1 DEF Ends, Finish
    <2>3. CASE i = j
        <3>1. field'[j] = "done" /\ value'[j] = v
            BY <1>1, <2>2, <2>3
        <3>2. FaultsAt(j, 0) = {}
            BY <1>1, <2>2, <2>3 DEF ValueOf, Explained
        <3>3. \A e \in Failure(j, v, code) : e.at = j /\ e.of = 0
            BY FailureFaults
        <3>4. FaultsAt(j, 0)' = Failure(j, v, code)
            BY <2>2, <2>3, <3>2, <3>3 DEF FaultsAt
        <3> QED  BY <2>1, <2>2, <2>3, <3>1, <3>2, <3>4 DEF Ended
    <2>4. CASE i # j
        <3>1. \A e \in Failure(i, v, code) : ~(e.at = j /\ e.of = 0)
            BY <2>4, FailureFaults
        <3>2. FaultsAt(j, 0)' = FaultsAt(j, 0)
            BY <2>2, <3>1, FaultsKept
        <3> QED  BY <1>1, <2>2, <2>4, <3>2
    <2> QED  BY <2>3, <2>4
<1>5. ASSUME NEW i \in Asked, Registers(i)
      PROVE  /\ FaultsAt(j, 0)' = FaultsAt(j, 0)
             /\ field'[j] = "done" => field[j] = "done" /\ value'[j] = value[j]
    BY <1>1, <1>5, SameFaults DEF Registers
<1>6. ASSUME NEW i \in Asked, StartEntities(i)
      PROVE  /\ FaultsAt(j, 0)' = FaultsAt(j, 0)
             /\ field'[j] = "done" => field[j] = "done" /\ value'[j] = value[j]
    <2>1. /\ value' = value /\ field' = [field EXCEPT ![i] = "resolving"] /\ Name(i) = "_entities"
          /\ errors' = errors \cup {Fault(i, t[2], "none") : t \in Untyped(i)}
        BY <1>6 DEF StartEntities, Runs
    <2>2. \A t \in Untyped(i) : t[2] # 0
        BY <1>1, <2>1, TaskOfField, TaskFields DEF Untyped
    <2>3. \A e \in {Fault(i, t[2], "none") : t \in Untyped(i)} : ~(e.at = j /\ e.of = 0)
        BY <2>2 DEF Fault
    <2>4. FaultsAt(j, 0)' = FaultsAt(j, 0)
        BY <2>1, <2>3, FaultsKept
    <2> QED  BY <1>1, <2>1, <2>4
<1>7. ASSUME NEW t \in Tasks, ResolveEntity(t)
      PROVE  /\ FaultsAt(j, 0)' = FaultsAt(j, 0)
             /\ field'[j] = "done" => field[j] = "done" /\ value'[j] = value[j]
    <2>1. PICK o : errors' = IF o.ok THEN errors ELSE errors \cup {Fault(t[1], t[2], o.code)}
        BY <1>7 DEF ResolveEntity
    <2>2. UNCHANGED <<field, value>>
        BY <1>7 DEF ResolveEntity
    <2>3. t[2] # 0
        BY <1>1, TaskFields
    <2>4. FaultsAt(j, 0)' = FaultsAt(j, 0)
        <3>1. CASE errors' = errors
            BY <3>1, SameFaults
        <3>2. CASE errors' = errors \cup {Fault(t[1], t[2], o.code)}
            <4>1. PICK X : X = {Fault(t[1], t[2], o.code)}
                OBVIOUS
            <4>2. \A e \in X : ~(e.at = j /\ e.of = 0)
                BY <2>3, <4>1 DEF Fault
            <4> QED  BY <3>2, <4>1, <4>2, FaultsKept
        <3> QED  BY <2>1, <3>1, <3>2
    <2> QED  BY <2>2, <2>4
<1>8. ASSUME NEW t \in Tasks, Done(t)
      PROVE  /\ FaultsAt(j, 0)' = FaultsAt(j, 0)
             /\ field'[j] = "done" => field[j] = "done" /\ value'[j] = value[j]
    BY <1>8, SameFaults DEF Done
<1>9. ASSUME NEW u \in User, Others(u)
      PROVE  /\ FaultsAt(j, 0)' = FaultsAt(j, 0)
             /\ field'[j] = "done" => field[j] = "done" /\ value'[j] = value[j]
    BY <1>9, SameFaults DEF Others
<1> QED
    BY <1>2, <1>3, <1>4, <1>5, <1>6, <1>7, <1>8, <1>9 DEF Kinds

\* The caller is the subject of the token, with the roles that it carries.
LEMMA CallerOfClaims ==
    ASSUME Inv, claims # None, phase # "received"
    PROVE  caller = [userID |-> claims.sub, roles |-> claims.roles]
<1>1. claims \in [sub : User, roles : RoleLists] /\ caller = Lift(Forward(claims))
    BY DEF Inv, CallerInv
<1>2. claims.sub # None /\ claims.roles \in RoleLists /\ None \notin RoleLists
    BY <1>1, SubgraphAssumption, AbsenceAssumption
<1>3. /\ Forward(claims).userID = claims.sub
      /\ Forward(claims).roles = IF claims.roles = {} THEN None ELSE claims.roles
    BY DEF Forward
<1>4. \A r \in RoleLists : r \ {""} = r
    BY DEF RoleLists
<1>5. SplitRoles(Forward(claims).roles) = claims.roles
    BY <1>2, <1>3, <1>4 DEF SplitRoles
<1> QED  BY <1>1, <1>2, <1>3, <1>5 DEF Lift

\* Each property of the resolvers is kept by a step from the invariant.
LEMMA MeStep ==
    ASSUME Inv, Inv', RegisteredInv, MeIsTheSubject, [Next]_vars
    PROVE  MeIsTheSubject'
<1>1. Kinds /\ Frame
    BY Steps, StepsFrame
<1>2. /\ op' = op /\ claims' = claims /\ op \in Operation
      /\ Asked' = Asked /\ \A i : Name(i)' = Name(i) /\ Sel(i)' = Sel(i)
    BY <1>1, SameOperation DEF Frame
<1>3. SUFFICES ASSUME NEW i \in Asked, Name(i) = "me", field'[i] = "done"
               PROVE  IF claims = None THEN FaultsAt(i, 0)' = {Fault(i, 0, "UNAUTHORIZED")}
                      ELSE /\ caller' = [userID |-> claims.sub, roles |-> claims.roles]
                           /\ \/ value'[i] = [f \in Sel(i) |-> <<f, claims.sub>>]
                              \/ \E e \in FaultsAt(i, 0)' : e.code \in {"INTERNAL", "none"}
    BY <1>2 DEF MeIsTheSubject, Fault
<1>4. ~Inline(i) /\ Sel(i) \subseteq UserFields
    BY <1>2, <1>3, OperationFields DEF Inline, Selectable
<1>5. claims # None => caller' = [userID |-> claims.sub, roles |-> claims.roles]
    <2>1. claims # None => claims \in [sub : User, roles : RoleLists]
        BY DEF Inv, CallerInv
    <2>2. phase # "received" \/ Execute
        <3>1. FieldOf(i)'
            BY <1>1, FieldStep
        <3>2. phase' # "received"
            BY <1>3, <3>1 DEF FieldOf
        <3> QED  BY <1>1, <3>2 DEF Frame
    <2>3. ~Execute
        <3>1. Execute => field'[i] = "started"
            BY <1>4 DEF Execute
        <3> QED  BY <1>3, <3>1
    <2> QED  BY <1>1, <2>2, <2>3, CallerOfClaims DEF Frame
<1>6. ASSUME NEW v, NEW code, Ended(i, v, code)
      PROVE  IF claims = None THEN FaultsAt(i, 0)' = {Fault(i, 0, "UNAUTHORIZED")}
             ELSE \/ value'[i] = [f \in Sel(i) |-> <<f, claims.sub>>]
                  \/ \E e \in FaultsAt(i, 0)' : e.code \in {"INTERNAL", "none"}
    <2>1. /\ value'[i] = v /\ FaultsAt(i, 0)' = Failure(i, v, code)
          /\ IF claims = None THEN v = Null /\ code = "UNAUTHORIZED"
             ELSE v = UserObject(Sel(i), claims.sub) \/ (v = Null /\ code \in Ours)
        BY <1>3, <1>6 DEF Ended, Outcome
    <2>2. v = Null => FaultsAt(i, 0)' = {Fault(i, 0, code)} /\ Fault(i, 0, code).code = code
        BY <2>1 DEF Failure, Fault
    <2> QED  BY <1>4, <2>1, <2>2, UserObjects DEF Ours
<1>7. CASE FaultsAt(i, 0)' = FaultsAt(i, 0) /\ field[i] = "done" /\ value'[i] = value[i]
    BY <1>3, <1>5, <1>7 DEF MeIsTheSubject
<1> QED  BY <1>1, <1>3, <1>4, <1>5, <1>6, <1>7, Progress
LEMMA RefusalsStep ==
    ASSUME Inv, Inv', RegisteredInv, RefusalsChangeNothing, [Next]_vars
    PROVE  RefusalsChangeNothing'
<1>1. Kinds /\ Frame /\ op' = op
    BY Steps, StepsFrame DEF Frame
<1>2. /\ op \in Operation /\ Asked' = Asked /\ \A i : Name(i)' = Name(i)
      /\ committed' \subseteq Asked
    BY <1>1, SameOperation DEF Frame, Inv, ShapeInv
<1>3. SUFFICES ASSUME NEW i \in committed', NEW e \in FaultsAt(i, 0)' PROVE e.code \in Ours
    BY DEF RefusalsChangeNothing, Ours
<1>4. i \in Asked /\ FieldOf(i)'
    BY <1>1, <1>2, FieldStep
<1>5. Name(i) \in {"registerUser", "loginUser"} /\ ~Inline(i)
    BY <1>2, <1>4 DEF FieldOf, Inline
<1>6. ASSUME NEW v, NEW code, Ended(i, v, code) PROVE e.code \in Ours
    <2>1. /\ e \in Failure(i, v, code) /\ Outcome(i, v, code)
        BY <1>6 DEF Ended
    <2>2. v = Null /\ e = Fault(i, 0, code)
        BY <2>1 DEF Failure
    <2>3. e.code = code
        BY <2>2 DEF Fault
    <2> QED  BY <1>5, <2>1, <2>2, <2>3 DEF Outcome
<1>7. CASE FaultsAt(i, 0)' = FaultsAt(i, 0)
    <2>1. CASE i \in committed
        BY <1>7, <2>1 DEF RefusalsChangeNothing, Ours
    <2>2. CASE i \notin committed
        <3>1. field[i] = "started"
            BY <1>1, <2>2, Commits
        <3>2. value[i] # Null
            BY <1>4, <3>1, Objects DEF Inv, ValueOf
        <3>3. FaultsAt(i, 0) = {}
            BY <1>4, <3>2 DEF Inv, ValueOf, Explained
        <3> QED  BY <1>7, <3>3
    <2> QED  BY <2>1, <2>2
<1> QED  BY <1>1, <1>4, <1>5, <1>6, <1>7, Progress

\* A fault of a root field is among the errors of that field.
LEMMA FaultIsAt ==
    ASSUME NEW i, NEW code
    PROVE  /\ Fault(i, 0, code) \in errors <=> Fault(i, 0, code) \in FaultsAt(i, 0)
           /\ Fault(i, 0, code) \in errors' <=> Fault(i, 0, code) \in FaultsAt(i, 0)'
<1>1. Fault(i, 0, code).at = i /\ Fault(i, 0, code).of = 0
    BY DEF Fault
<1> QED  BY <1>1 DEF FaultsAt

LEMMA PasswordsStep ==
    ASSUME Inv, RegisteredInv, [Next]_vars, NEW i \in Asked, Name(i) = "loginUser"
    PROVE  /\ Fault(i, 0, "UNAUTHORIZED") \in errors' \ errors => ~Right(op.fields[i])
           /\ i \in committed' \ committed => Right(op.fields[i])
<1>1. Kinds /\ ~Inline(i)
    BY Steps DEF Inline
<1>2. ASSUME Fault(i, 0, "UNAUTHORIZED") \in errors' \ errors
      PROVE  ~Right(op.fields[i])
    <2>1. FaultsAt(i, 0)' # FaultsAt(i, 0)
        BY <1>2, FaultIsAt
    <2>2. PICK v, code : Ended(i, v, code)
        BY <1>1, <2>1, Progress
    <2>3. Fault(i, 0, "UNAUTHORIZED") \in Failure(i, v, code)
        BY <1>2, <2>2, FaultIsAt DEF Ended
    <2>4. v = Null /\ code = "UNAUTHORIZED"
        BY <2>3 DEF Failure, Fault
    <2> QED  BY <2>2, <2>4 DEF Ended, Outcome
<1>3. ASSUME i \in committed' \ committed
      PROVE  Right(op.fields[i])
    <2>1. Registers(i) \/ \E v, code : Outcome(i, v, code)
        BY <1>1, <1>3, Commits
    <2>2. ~Registers(i)
        BY DEF Registers
    <2> QED  BY <1>3, <2>1, <2>2 DEF Outcome
<1> QED  BY <1>2, <1>3

LEMMA OrderStep ==
    ASSUME Inv, RegisteredInv, RegisteredInv', Inv', EffectsInOrder, [Next]_vars
    PROVE  EffectsInOrder'
<1>1. Kinds /\ Frame /\ op' = op
    BY Steps, StepsFrame DEF Frame
<1>2. /\ op \in Operation /\ Asked' = Asked /\ \A i : Name(i)' = Name(i)
      /\ committed' \subseteq Asked /\ Asked \subseteq Nat
    BY <1>1, SameOperation, OperationFields DEF Frame, Inv, ShapeInv
<1>3. SUFFICES ASSUME NEW i \in Asked, NEW j \in committed', j < i, Name(j) = "registerUser",
                      op.fields[i].user = op.fields[j].user, op.fields[i].good,
                      op.fields[i].password = op.fields[j].password
               PROVE  /\ Fault(i, 0, "UNAUTHORIZED") \notin errors'
                      /\ Name(i) = "registerUser" => i \notin committed'
    BY <1>1, <1>2 DEF EffectsInOrder, Fault
<1>4. j \in Asked /\ op.kind = "mutation" /\ Name(i) \in MutationNames
    <2>1. Name(j) \notin QueryNames
        BY <1>3 DEF QueryNames
    <2>2. op.kind \in {"query", "mutation"} /\ j \in Asked
        BY <1>2, OperationFields
    <2> QED  BY <1>2, <2>1, <2>2, Names
<1>5. FieldOf(i) /\ ValueOf(i)
    BY DEF Inv
<1>6. Inline(i) => FaultsAt(i, 0)' = {}
    <2>1. ValueOf(i)' /\ (Inline(i)' <=> Inline(i))
        BY <1>1, ValueStep, SameOperation
    <2> QED  BY <2>1 DEF ValueOf, Explained
\* Before the registration has committed, the later field has not run.
<1>7. CASE j \notin committed
    <2>1. field[j] = "started" /\ committed' = committed \cup {j}
        BY <1>1, <1>7, Commits
    <2>2. i # j
        BY <1>2, <1>3
    <2>3. Inline(i) \/ field[i] \in {"none", "started"}
        BY <1>3, <1>4, <1>5, <2>1 DEF FieldOf
    <2>4. i \notin committed
        BY <1>5, <2>3 DEF FieldOf, Inline
    <2>5. FaultsAt(i, 0) = {}
        BY <1>5, <2>3, Objects DEF ValueOf, Explained
    <2>6. CASE Inline(i)
        BY <1>6, <2>6, FaultIsAt DEF Inline
    <2>7. CASE ~Inline(i)
        <3>1. ASSUME NEW v, NEW code, Ended(i, v, code) PROVE FALSE
            <4>1. InOrder(i)
                BY <3>1 DEF Ended, Ends
            <4> QED  BY <1>3, <1>4, <2>1, <4>1 DEF InOrder
        <3>2. FaultsAt(i, 0)' = FaultsAt(i, 0)
            BY <1>1, <2>7, <3>1, Progress
        <3> QED  BY <2>1, <2>2, <2>4, <2>5, <3>2, FaultIsAt
    <2> QED  BY <2>6, <2>7
\* Afterwards its account is there, with the hash of the same password.
<1>8. CASE j \in committed
    <2>1. hash[op.fields[j].user] = Hash(op.fields[j].password)
        BY <1>3, <1>8 DEF RegisteredInv
    <2>2. op.fields[j].user \in User /\ op.fields[j].password \in Password
        BY <1>2, <1>3, <1>4, OperationFields
    <2>3. op.fields[i].user \in accounts /\ Right(op.fields[i])
        BY <1>3, <2>1, <2>2, HashStores DEF accounts, Right
    <2>4. /\ Fault(i, 0, "UNAUTHORIZED") \notin errors
          /\ Name(i) = "registerUser" => i \notin committed
        BY <1>3, <1>8 DEF EffectsInOrder
    <2>5. Name(i) = "registerUser" => i \notin committed'
        <3>1. ASSUME Name(i) = "registerUser", i \in committed' PROVE FALSE
            <4>1. Registers(i) \/ \E v, code : Ends(i, v, code) /\ Wrote(i)
                BY <1>1, <2>4, <3>1, Commits
            <4>2. Adds(op.fields[i].user, op.fields[i].password)
                BY <2>4, <3>1, <4>1 DEF Registers, Wrote
            <4> QED  BY <2>3, <4>2 DEF Adds
        <3> QED  BY <3>1
    <2>6. Fault(i, 0, "UNAUTHORIZED") \notin errors'
        <3>1. SUFFICES ASSUME Fault(i, 0, "UNAUTHORIZED") \in errors' PROVE FALSE
            OBVIOUS
        <3>2. CASE Name(i) = "loginUser"
            BY <2>3, <2>4, <3>1, <3>2, PasswordsStep
        <3>3. CASE Name(i) = "registerUser"
            <4>1. FaultsAt(i, 0)' # FaultsAt(i, 0) /\ ~Inline(i)
                BY <2>4, <3>1, <3>3, FaultIsAt DEF Inline
            <4>2. PICK v, code : Ended(i, v, code)
                BY <1>1, <4>1, Progress
            <4>3. Fault(i, 0, "UNAUTHORIZED") \in Failure(i, v, code)
                BY <3>1, <4>2, FaultIsAt DEF Ended
            <4>4. v = Null /\ code = "UNAUTHORIZED"
                BY <4>3 DEF Failure, Fault
            <4> QED  BY <3>3, <4>2, <4>4 DEF Ended, Outcome
        <3>4. CASE Inline(i)
            BY <1>6, <3>1, <3>4, FaultIsAt
        <3> QED  BY <1>4, <3>2, <3>3, <3>4 DEF MutationNames, Inline
    <2> QED  BY <2>5, <2>6
<1> QED  BY <1>7, <1>8
LEMMA InitResolvers == Init => MeIsTheSubject /\ RefusalsChangeNothing /\ EffectsInOrder
<1> SUFFICES ASSUME Init PROVE MeIsTheSubject /\ RefusalsChangeNothing /\ EffectsInOrder
    OBVIOUS
<1>1. committed = {} /\ field = [i \in Asked |-> "none"]
    BY DEF Init
<1> QED  BY <1>1 DEF MeIsTheSubject, RefusalsChangeNothing, EffectsInOrder

\* "me" is the subject of the request's token, with the roles it carries; with no
\* token it is refused before the database is asked.
THEOREM MeIsTheCaller == Spec => []MeIsTheSubject
<1>1. /\ Inv /\ RegisteredInv /\ (Inv /\ RegisteredInv)' /\ MeIsTheSubject /\ [Next]_vars
      => MeIsTheSubject'
    BY MeStep
<1> QED  BY InitResolvers, SubgraphInvariance, <1>1, PTL DEF Spec

\* A mutation that has written something is never reported as refused: what a
\* client reads as INVALID, CONFLICT or UNAUTHORIZED has changed nothing.
THEOREM RefusalsAreClean == Spec => []RefusalsChangeNothing
<1>1. /\ Inv /\ RegisteredInv /\ (Inv /\ RegisteredInv)' /\ RefusalsChangeNothing /\ [Next]_vars
      => RefusalsChangeNothing'
    BY RefusalsStep
<1> QED  BY InitResolvers, SubgraphInvariance, <1>1, PTL DEF Spec

\* The fields of a mutation take effect in the order they are written: a login
\* after a registration finds the account, and the second registration of an
\* address does not commit, whatever became of the first one's answer.
THEOREM MutationsAreSerial == Spec => []EffectsInOrder
<1>1. /\ Inv /\ RegisteredInv /\ (Inv /\ RegisteredInv)' /\ EffectsInOrder /\ [Next]_vars
      => EffectsInOrder'
    BY OrderStep
<1> QED  BY InitResolvers, SubgraphInvariance, <1>1, PTL DEF Spec

\* A login is refused as unauthorized exactly for want of the account or of its
\* password, whatever parameters its stored hash was made with.
THEOREM PasswordsOutlive == Spec => PasswordsOutliveParameters
<1>1. ASSUME Inv, RegisteredInv, [Next]_vars, NEW i \in Asked, Name(i) = "loginUser"
      PROVE  LET f == op.fields[i]
                 right == f.good /\ f.user \in accounts /\ hash[f.user].key[1] = f.password
             IN  /\ Fault(i, 0, "UNAUTHORIZED") \in errors' \ errors => ~right
                 /\ i \in committed' \ committed => right
    BY <1>1, PasswordsStep DEF Right
<1>2. ASSUME Inv, RegisteredInv, [Next]_vars
      PROVE  \A i \in Asked : Name(i) = "loginUser" =>
                LET f == op.fields[i]
                    right == f.good /\ f.user \in accounts /\ hash[f.user].key[1] = f.password
                IN  /\ Fault(i, 0, "UNAUTHORIZED") \in errors' \ errors => ~right
                    /\ i \in committed' \ committed => right
    BY <1>1, <1>2
<1> QED  BY SubgraphInvariance, <1>2, PTL DEF Spec, PasswordsOutliveParameters
=============================================================================
