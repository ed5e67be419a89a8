--------------------------- MODULE MCGrpcPipeline ---------------------------
(* Small instances of GrpcPipeline: requests with an id and without one, to       *)
(* GetUser for the caller, for another, by an admin and with empty metadata, for  *)
(* a user and for the empty id; errors of every kind, of none, and wrapped.       *)
EXTENDS GrpcPipeline, TLC

CONSTANTS u1, u2, i1

Ask(id, asks, userID, roles) == [id |-> id, asks |-> asks, md |-> [userID |-> userID, roles |-> roles]]

MCUser == {u1, u2}
MCId == {i1}
MCRequest == {
    Ask("", "other", None, None), Ask("", u1, None, None), Ask("", None, None, None),
    Ask(i1, u1, u1, None),
    Ask(i1, u2, u1, {"customer"}), Ask("", u2, u1, {"customer", "admin"})}
MCErr == {<<>>, <<"plain">>, <<"plain", "internal", "invalid">>, <<"plain", "unauthorized">>}
            \cup {<<kind>> : kind \in Kind}
Symmetry == Permutations(Call)
=============================================================================
