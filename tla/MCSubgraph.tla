------------------------------ MODULE MCSubgraph ------------------------------
(* Small instances of Subgraph: the operations are chosen so that fields fail   *)
(* beside others, representations of several types are resolved together, and   *)
(* a mutation depends on the one before it.                                     *)
EXTENDS Subgraph, TLC

CONSTANTS u1, u2, x

Plain(name) == [name |-> name, sel |-> {}, reps |-> <<>>, user |-> None,
                password |-> None, good |-> TRUE]
Select(name, sel) == [Plain(name) EXCEPT !.sel = sel]
AskType(known) == [Plain("__type") EXCEPT !.good = known]
Send(name, user, password, good) ==
    [name |-> name, reps |-> <<>>, user |-> user, password |-> password, good |-> good,
     sel |-> IF name = "registerUser" THEN {"id", "roles"} ELSE {"accessToken", "refreshToken"}]
Resolve(reps) == [Select("_entities", {"id", "email"}) EXCEPT !.reps = reps]
Ref(type, id) == [type |-> type, id |-> id]

MCQueries == {
    <<Resolve(<<Ref("User", u1), Ref("Order", x), Ref("User", u2)>>), Select("me", {"id"})>>,
    <<Resolve(<<Ref(None, u1), Ref("User", x), Ref("User", None)>>),
      Resolve(<<Ref("Order", u1), Ref("User", u2)>>), AskType(FALSE)>>,
    <<Select("me", {"email"}), Resolve(<<Ref("User", u1), Ref("scalar", None)>>),
      Select("_service", {"sdl"})>>,
    <<Select("me", {"id"}), Plain("__typename"), Select("me", UserFields), AskType(TRUE)>>,
    <<Resolve(<<>>), Resolve(<<Ref("User", u2)>>), Plain("__schema")>>}

MCMutations == {
    <<Send("registerUser", u1, "secret", TRUE), Send("loginUser", u1, "secret", TRUE)>>,
    <<Send("registerUser", u2, "other", TRUE), Plain("__typename"),
      Send("registerUser", u2, "other", TRUE), Send("loginUser", u2, "other", TRUE)>>,
    <<Send("loginUser", u1, "secret", FALSE), Send("registerUser", u1, "short", TRUE),
      Send("registerUser", u1, "other", TRUE)>>}

MCUser == {u1, u2}
MCOperation ==
    [kind : {"query"}, fields : MCQueries] \cup [kind : {"mutation"}, fields : MCMutations]
=============================================================================
