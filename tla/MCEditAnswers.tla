--------------------------- MODULE MCEditAnswers ---------------------------
(* Instances of EditAnswers for TLC. *)
EXTENDS EditAnswers

\* A private-law case that reached the evidence scope.
PrivateCase ==
    [ecfFlag |-> FALSE, priorLegalAid |-> "yesSameMatter",
     familyLawClassification |-> "private",
     needsAdviceOnMaintenance |-> FALSE, needsProtectiveInjunction |-> FALSE,
     laspoEvidenceScope |-> "childAbuse",
     careProceedingsStarted |-> Missing,
     careProceedingsParentalResponsibility |-> Missing,
     reasonForReapplication |-> "reason1", client |-> "client1",
     niNumber |-> "ni1", hasFixedAddress |-> TRUE, address |-> "uk1"]

\* A public-law case without an address in the country.
PublicCase ==
    [PrivateCase EXCEPT
        !.priorLegalAid = "no", !.reasonForReapplication = Missing,
        !.familyLawClassification = "public",
        !.needsAdviceOnMaintenance = Missing, !.needsProtectiveInjunction = Missing,
        !.laspoEvidenceScope = Missing,
        !.careProceedingsStarted = TRUE, !.careProceedingsParentalResponsibility = TRUE,
        !.niNumber = Missing, !.address = "os1"]

\* Of before the scoping questions were asked, one with answers off its branch,
\* and one whose scope was not recorded.
SparseCase ==
    [PublicCase EXCEPT
        !.ecfFlag = Missing, !.familyLawClassification = Missing,
        !.priorLegalAid = Missing, !.careProceedingsStarted = Missing,
        !.careProceedingsParentalResponsibility = Missing,
        !.hasFixedAddress = FALSE, !.address = Missing]

OffBranchCase ==
    [PublicCase EXCEPT
        !.careProceedingsStarted = FALSE, !.needsProtectiveInjunction = TRUE,
        !.reasonForReapplication = "reason1", !.hasFixedAddress = FALSE]

ScopelessCase == [PrivateCase EXCEPT !.laspoEvidenceScope = Missing]

SavedCases == {PrivateCase, PublicCase, SparseCase, OffBranchCase, ScopelessCase}

=============================================================================
