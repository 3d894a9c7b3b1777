--------------------------- MODULE MCAuthSession ---------------------------
(* Instances of AuthSession for TLC. *)
EXTENDS AuthSession, TLC

Symmetry == Permutations(Sids) \cup Permutations(Requests)

=============================================================================
