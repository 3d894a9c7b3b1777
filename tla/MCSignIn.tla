------------------------------ MODULE MCSignIn ------------------------------
(* Instances of SignIn for TLC. *)
EXTENDS SignIn, TLC

\* Sign-ins, callbacks and sessions are interchangeable.
Symmetry == Permutations(Attempts) \cup Permutations(Callbacks) \cup Permutations(Sessions)

=============================================================================
