------------------------------ MODULE Principal ------------------------------
(***************************************************************************)
(* The caller's identity on its way from an access token to a handler:     *)
(* the router turns the claims of a verified token into two headers, and   *)
(* the GraphQL and gRPC adapters read them back.  The roles header is a    *)
(* comma-separated list, here the set of its parts: no code tells apart    *)
(* lists that differ in order or in repetitions.                           *)
(***************************************************************************)
CONSTANTS
    User,     \* the subjects of tokens
    None      \* an absent claim, header or identity

Role == {"customer", "admin"}
RoleLists == {{}, {"customer"}, {"customer", "admin"}}

\* The headers of the subgraph request; without a token there are none.
Forward(claims) ==
    IF claims = None THEN [userID |-> None, roles |-> None]
    ELSE [userID |-> claims.sub,
          roles |-> IF claims.roles = {} THEN None ELSE claims.roles]

\* The GraphQL middleware: blank parts of the list are dropped.
SplitRoles(header) ==
    IF header = None THEN {} ELSE header \ {""}

\* Mutant of Lift: the roles alone make a caller.
LiftRoles(headers) ==
    IF headers.roles = None THEN None
    ELSE [userID |-> headers.userID, roles |-> SplitRoles(headers.roles)]

\* No x-user-id is an anonymous request, not a refused one.
Lift(headers) ==
    IF headers.userID = None THEN None
    ELSE [userID |-> headers.userID, roles |-> SplitRoles(headers.roles)]

\* The gRPC adapter reads the same keys from the metadata; an absent one leaves
\* its part of the caller empty.
CallerFromMetadata(md) ==
    [userID |-> md.userID, roles |-> IF md.roles = None THEN {} ELSE md.roles]

IsAdmin(caller) == "admin" \in caller.roles

\* Mutant of CanAccessUser: whoever says nothing of itself may ask for nobody.
CanAccessNobody(caller, user) == IsAdmin(caller) \/ caller.userID = user

\* Self or admin.
CanAccessUser(caller, user) ==
    IsAdmin(caller) \/ (caller.userID # None /\ caller.userID = user)
=============================================================================
