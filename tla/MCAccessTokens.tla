--------------------------- MODULE MCAccessTokens ---------------------------
(* Small instances of AccessTokens. *)
EXTENDS AccessTokens, TLC

Symmetry == Permutations(Token)
=============================================================================
