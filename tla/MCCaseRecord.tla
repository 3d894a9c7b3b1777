---------------------------- MODULE MCCaseRecord ----------------------------
(* An instance of CaseRecord: two offices, of which a token claims none, one or both. *)
EXTENDS CaseRecord, TLC

CONSTANTS o1, o2

MCClaimSets == {{}, {o2}, {o1, o2}}

Symmetry == Permutations(Requests) \cup Permutations(Cases)

=============================================================================
