----------------------------- MODULE MCSessions -----------------------------
(* Small instances of Sessions. *)
EXTENDS Sessions, TLC

Symmetry == Permutations(Call) \cup Permutations(User)
=============================================================================
