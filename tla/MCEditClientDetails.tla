------------------------ MODULE MCEditClientDetails ------------------------
(* Instances of EditClientDetails for TLC. *)
EXTENDS EditClientDetails, TLC

Symmetry == Permutations(Users) \cup Permutations(Requests)

=============================================================================
