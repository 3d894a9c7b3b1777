------------------------- MODULE MCEvidenceAnswers -------------------------
(* Instances of EvidenceAnswers for TLC. *)
EXTENDS EvidenceAnswers

\* All there is to tick, and something of a group of each page.
Ticks == {Items, {"wageSlips", "premiumBondsStatement"}}

\* Evidence of all kinds, and an exemption.
FullEvidence ==
    [EmptyEvidence EXCEPT
        !.hasChecklists = TRUE,
        !.lists = [group \in Groups |->
                      IF group = "housingCosts" THEN {} ELSE ItemsOf(group)]]

Exemption ==
    [EmptyEvidence EXCEPT !.exemptionCode = "adviceOverPhone", !.exemptionReason = "details1"]

\* The unit test "maps evidence without an exemption to the yes answer".
NotExempt ==
    [EmptyEvidence EXCEPT !.exemptionCode = "none", !.exemptionReason = "details1"]

SavedEvidence == {NoEvidence, FullEvidence, Exemption, NotExempt}

=============================================================================
