-------------------------- MODULE EvidenceAnswers --------------------------
(***************************************************************************)
(* The evidence journey: its seven questions, where each answer leads, what *)
(* check-answers shows and demands, and what the API comes to record.       *)
(*                                                                         *)
(* One user answers for one application.  The journey does not check that a *)
(* page can be reached, so a page of a branch that was left (an old tab, the *)
(* back button) can still be submitted; the draft is loaded once in a        *)
(* session and kept, also after an update, and updates carry no version.    *)
(***************************************************************************)
EXTENDS EvidenceDto, Naturals, FiniteSets

CONSTANTS
    Selections, \* the sets of items users tick
    Saved,      \* the evidence the API may hold at first, or another user stores
    NoDraft,
    MaxPages,   \* bound: how many different pages are answered
    MaxUpdates, \* bound: how many updates are taken while pages are answered
    MaxOthers,  \* bound: how many updates of other users
    Straying    \* bound: whether pages that were not asked for are submitted

VARIABLES
    evidence,   \* what the API records
    draft,      \* session.journeyDrafts["evidence:<application>"]
    at,         \* where the service's last answer has led the user
    answered,   \* history: the pages submitted since the draft was loaded
    updates,    \* history: how many updates were taken
    others,     \* history: how many updates of other users
    trail,      \* history: how closely the user has followed the service
    stale       \* history: another user's update is not in the draft

vars == <<evidence, draft, at, answered, updates, others, trail, stale>>

---------------------------------------------------------------------------
(* What check-answers shows and demands *)

Rows == {"doYouHaveEvidence", "reasonForNoEvidence", "moreDetailsForNoEvidence",
         "incomeEvidence", "haveEvidenceOfExpenditure", "expenditureEvidence",
         "haveEvidenceOfCapital", "capitalEvidence"}

\* The visibleWhen of checkAnswersModel and of the summary list: the evidence of
\* expenditure and of capital goes by its own question, not by the first one.
Visible(answers) ==
    [doYouHaveEvidence |-> TRUE,
     reasonForNoEvidence |-> answers.doYouHaveEvidence = "no",
     moreDetailsForNoEvidence |-> answers.doYouHaveEvidence = "no",
     incomeEvidence |-> answers.doYouHaveEvidence = "yes",
     haveEvidenceOfExpenditure |-> answers.doYouHaveEvidence = "yes",
     expenditureEvidence |-> answers.haveEvidenceOfExpenditure = "yes",
     haveEvidenceOfCapital |-> answers.doYouHaveEvidence = "yes",
     capitalEvidence |-> answers.haveEvidenceOfCapital = "yes"]

\* IsRequired of some of the lists: an empty one does not count.
SomeTicked(lists, groups) == \E group \in groups : lists[group] \notin {Missing, {}}

\* The completeWhen of checkAnswersModel.
Completed(answers) ==
    [doYouHaveEvidence |-> answers.doYouHaveEvidence \in YesNo,
     reasonForNoEvidence |-> answers.reasonForNoEvidence # Missing,
     moreDetailsForNoEvidence |-> answers.moreDetailsForNoEvidence # Missing,
     incomeEvidence |-> SomeTicked(answers.lists, IncomeEvidence),
     haveEvidenceOfExpenditure |-> answers.haveEvidenceOfExpenditure \in YesNo,
     expenditureEvidence |-> SomeTicked(answers.lists, ExpenditureEvidence),
     haveEvidenceOfCapital |-> answers.haveEvidenceOfCapital \in YesNo,
     capitalEvidence |-> SomeTicked(answers.lists, CapitalEvidence)]

CheckAnswersComplete(answers) ==
    \A row \in Rows : Visible(answers)[row] => Completed(answers)[row]

\* The items that are ticked, each under its group.
Ticked(lists, groups) ==
    UNION {{<<group, item>> : item \in lists[group]} :
              group \in {g \in groups : lists[g] # Missing}}

\* The items check-answers has a label for; any other would read as a blank.
IncomeLabels ==
    {"asylumSupportLetter", "bankStatements", "cashBook", "completeFinancialAccounts",
     "evidenceOfRentalIncome", "evidenceOfTrustIncome", "latestBenefitChangeLetter",
     "latestTaxCreditAwardNotice", "letterFromFriendOrFamily",
     "originalNotificationLetter", "other", "otherRecentHMRCLetter", "p11dTaxForm",
     "passportingBenefitLetter", "pensionDocuments", "selfAssessmentTaxReturn",
     "studentLoanLetter", "wageSlips"}

ExpenditureLabels ==
    {"agreementOrContract", "bankStatementsChildCare", "bankStatementsHousing",
     "bankStatementsMaintenance", "maintenanceOrder", "mortgageStatement", "receipts",
     "rentStatement", "taxCalculationSheet", "wageSlips"}

CapitalLabels ==
    {"bankStatementCapital", "premiumBondsStatement", "savingsCertificatePassbook",
     "shareCertificate"}

\* The values of the summary list: a list reads as the labels of its items.
Shown(answers) ==
    LET Label(answer) == IF answer = "yes" THEN "yes" ELSE "no"
        Labels(groups, known) ==
            {line \in Ticked(answers.lists, groups) : line[2] \in known}
    IN
    [doYouHaveEvidence |-> Label(answers.doYouHaveEvidence),
     reasonForNoEvidence |-> answers.reasonForNoEvidence,
     moreDetailsForNoEvidence |-> answers.moreDetailsForNoEvidence,
     incomeEvidence |-> Labels(IncomeEvidence, IncomeLabels),
     haveEvidenceOfExpenditure |-> Label(answers.haveEvidenceOfExpenditure),
     expenditureEvidence |-> Labels(ExpenditureEvidence, ExpenditureLabels),
     haveEvidenceOfCapital |-> Label(answers.haveEvidenceOfCapital),
     capitalEvidence |-> Labels(CapitalEvidence, CapitalLabels)]

---------------------------------------------------------------------------
(* The journey *)

Pages == {"have-evidence", "reason-for-no-evidence", "evidence-of-income",
          "have-evidence-of-expenditure", "evidence-of-expenditure",
          "have-evidence-of-capital", "evidence-of-capital"}

\* The page a row's change link leads to, with returnTo=check-answers.
ChangeLink ==
    [doYouHaveEvidence |-> "have-evidence",
     reasonForNoEvidence |-> "reason-for-no-evidence",
     moreDetailsForNoEvidence |-> "reason-for-no-evidence",
     incomeEvidence |-> "evidence-of-income",
     haveEvidenceOfExpenditure |-> "have-evidence-of-expenditure",
     expenditureEvidence |-> "evidence-of-expenditure",
     haveEvidenceOfCapital |-> "have-evidence-of-capital",
     capitalEvidence |-> "evidence-of-capital"]

\* The pages the answers so far ask for.
Asked(answers) == {ChangeLink[row] : row \in {r \in Rows : Visible(answers)[r]}}

\* A place: a page, and the returnTo of its address.
ReturnTo == Maybe({"check-answers"})

Places == [page : Pages \cup {"check-answers", "task-list"}, returnTo : ReturnTo]

Place(page, returnTo) == [page |-> page, returnTo |-> returnTo]

\* followed: every page as led to, or by a change link; wandered: pages that
\* were asked for, in any order; strayed: a page of a branch that was left.
Trails == {"followed", "wandered", "strayed"}

TypeOK ==
    /\ evidence \in Evidence \cup {NoEvidence}
    /\ draft \in Answers \cup {NoDraft}
    /\ at \in Places
    /\ answered \subseteq Pages
    /\ updates \in Nat
    /\ others \in Nat
    /\ trail \in Trails
    /\ stale \in BOOLEAN

Init ==
    /\ evidence \in Saved
    /\ draft = NoDraft
    /\ at = Place("task-list", Missing)
    /\ answered = {}
    /\ updates = 0
    /\ others = 0
    /\ trail = "followed"
    /\ stale = FALSE

\* loadEvidenceAsAnswers, at the start of every request of the journey.
Loaded == IF draft = NoDraft THEN ToAnswers(evidence) ELSE draft

\* The task list's link to the journey.  A way that is not followed to its end,
\* and a record that was complete for the task list alone, end the followed trail.
Open ==
    LET page == IF EvidenceCompleted(evidence) THEN "check-answers" ELSE "have-evidence"
        followed == \/ page = "have-evidence"
                    \/ CheckAnswersComplete(Loaded)
    IN
    /\ draft' = Loaded
    /\ at' = Place(page, Missing)
    /\ trail' = IF trail = "followed" /\ ~followed THEN "wandered" ELSE trail
    /\ UNCHANGED <<evidence, answered, updates, others, stale>>

TrailAfter(page, returnTo) ==
    LET led == \/ at = Place(page, returnTo)
               \/ at.page = "check-answers" /\ returnTo = "check-answers"
    IN IF trail = "strayed" \/ page \notin Asked(Loaded) THEN "strayed"
       ELSE IF trail = "followed" /\ led THEN "followed"
       ELSE "wandered"

\* The end of a valid submission of a page: clearFieldAnswers, saveDraftAnswers
\* and a redirect.
Submit(page, returnTo, answers, goto) ==
    /\ updates < MaxUpdates
    /\ Cardinality(answered \cup {page}) <= MaxPages
    /\ Straying \/ page \in Asked(Loaded)
    /\ draft' = answers
    /\ at' = goto
    /\ answered' = answered \cup {page}
    /\ trail' = TrailAfter(page, returnTo)
    /\ UNCHANGED <<evidence, updates, others, stale>>

\* Of two redirects that match, the first one is taken.
CheckAnswersOr(returnTo, page) ==
    IF returnTo = "check-answers" THEN Place("check-answers", Missing) ELSE Place(page, Missing)

Cleared(lists, groups) ==
    [group \in Groups |-> IF group \in groups THEN Missing ELSE lists[group]]

\* Variant: the evidence is cleared, the answers that there is some are not.
HaveEvidenceKeepingAnswers(returnTo) ==
    \/ Submit("have-evidence", returnTo,
              [Loaded EXCEPT !.doYouHaveEvidence = "no", !.lists = NoLists],
              Place("reason-for-no-evidence", Missing))
    \/ Submit("have-evidence", returnTo,
              [Loaded EXCEPT !.doYouHaveEvidence = "yes",
                             !.reasonForNoEvidence = Missing,
                             !.moreDetailsForNoEvidence = Missing],
              Place("evidence-of-income", Missing))

\* Its redirects to the next page come before those that look for returnTo.
HaveEvidence(returnTo) ==
    \/ Submit("have-evidence", returnTo,
              [Loaded EXCEPT !.doYouHaveEvidence = "no",
                             !.haveEvidenceOfExpenditure = Missing,
                             !.haveEvidenceOfCapital = Missing,
                             !.lists = NoLists],
              Place("reason-for-no-evidence", Missing))
    \/ Submit("have-evidence", returnTo,
              [Loaded EXCEPT !.doYouHaveEvidence = "yes",
                             !.reasonForNoEvidence = Missing,
                             !.moreDetailsForNoEvidence = Missing],
              Place("evidence-of-income", Missing))

ReasonForNoEvidence(returnTo) ==
    \E reason \in ExemptionReasonCodes, details \in Details :
        Submit("reason-for-no-evidence", returnTo,
               [Loaded EXCEPT !.reasonForNoEvidence = reason,
                              !.moreDetailsForNoEvidence = details],
               Place("check-answers", Missing))

\* Variant: the checkboxes of all pages are saved.
WithTicksOfAllPages(lists, groups, selection) ==
    [group \in Groups |->
        IF group \in groups \/ lists[group] # Missing
        THEN ItemsOf(group) \cap selection ELSE lists[group]]

\* The checkboxes of a page: a group without a tick is saved as an empty list.
WithTicks(lists, groups, selection) ==
    [group \in Groups |->
        IF group \in groups THEN ItemsOf(group) \cap selection ELSE lists[group]]

\* A valid submission of a page of checkboxes has some tick on it.
SubmitTicks(page, groups, returnTo, goto) ==
    \E selection \in Selections :
        LET lists == WithTicks(Loaded.lists, groups, selection)
        IN /\ SomeTicked(lists, groups)
           /\ Submit(page, returnTo, [Loaded EXCEPT !.lists = lists], goto)

EvidenceOfIncome(returnTo) ==
    SubmitTicks("evidence-of-income", IncomeEvidence, returnTo,
                CheckAnswersOr(returnTo, "have-evidence-of-expenditure"))

\* Variant: "yes" goes on to the next question, or back.
HaveEvidenceOfExpenditureSkipping(returnTo) ==
    \/ Submit("have-evidence-of-expenditure", returnTo,
              [Loaded EXCEPT !.haveEvidenceOfExpenditure = "no",
                             !.lists = Cleared(@, ExpenditureEvidence)],
              CheckAnswersOr(returnTo, "have-evidence-of-capital"))
    \/ Submit("have-evidence-of-expenditure", returnTo,
              [Loaded EXCEPT !.haveEvidenceOfExpenditure = "yes"],
              IF returnTo = "check-answers" THEN Place("check-answers", Missing)
              ELSE Place("evidence-of-expenditure", Missing))

HaveEvidenceOfExpenditure(returnTo) ==
    \/ Submit("have-evidence-of-expenditure", returnTo,
              [Loaded EXCEPT !.haveEvidenceOfExpenditure = "no",
                             !.lists = Cleared(@, ExpenditureEvidence)],
              CheckAnswersOr(returnTo, "have-evidence-of-capital"))
    \/ Submit("have-evidence-of-expenditure", returnTo,
              [Loaded EXCEPT !.haveEvidenceOfExpenditure = "yes"],
              Place("evidence-of-expenditure", returnTo))

EvidenceOfExpenditure(returnTo) ==
    SubmitTicks("evidence-of-expenditure", ExpenditureEvidence, returnTo,
                CheckAnswersOr(returnTo, "have-evidence-of-capital"))

HaveEvidenceOfCapital(returnTo) ==
    \/ Submit("have-evidence-of-capital", returnTo,
              [Loaded EXCEPT !.haveEvidenceOfCapital = "no",
                             !.lists = Cleared(@, CapitalEvidence)],
              Place("check-answers", Missing))
    \/ Submit("have-evidence-of-capital", returnTo,
              [Loaded EXCEPT !.haveEvidenceOfCapital = "yes"],
              Place("evidence-of-capital", returnTo))

EvidenceOfCapital(returnTo) ==
    SubmitTicks("evidence-of-capital", CapitalEvidence, returnTo,
                Place("check-answers", Missing))

\* check-answers is submitted and the API answers 204; the draft is kept.
UpdateEvidence ==
    /\ updates < MaxUpdates
    /\ CheckAnswersComplete(Loaded)
    /\ draft' = Loaded
    /\ evidence' = Sent(Loaded)
    /\ at' = Place("task-list", Missing)
    /\ updates' = updates + 1
    /\ UNCHANGED <<answered, others, trail, stale>>

\* An incomplete draft, or an update that fails: an error page, and what was
\* answered is kept.
UpdateFails ==
    /\ draft' = Loaded
    /\ UNCHANGED <<evidence, at, answered, updates, others, trail, stale>>

\* The session ends, and the draft with it.
SessionEnds ==
    /\ draft' = NoDraft
    /\ at' = Place("task-list", Missing)
    /\ answered' = {}
    /\ stale' = FALSE
    /\ UNCHANGED <<evidence, updates, others, trail>>

\* Another user of the office updates the evidence of the application.
OtherUserUpdates ==
    /\ others < MaxOthers
    /\ evidence' \in Saved \ {NoEvidence}
    /\ others' = others + 1
    /\ stale' = (draft # NoDraft)
    /\ UNCHANGED <<draft, at, answered, updates, trail>>

Next ==
    \/ Open
    \/ \E returnTo \in ReturnTo :
           \/ HaveEvidence(returnTo)
           \/ ReasonForNoEvidence(returnTo)
           \/ EvidenceOfIncome(returnTo)
           \/ HaveEvidenceOfExpenditure(returnTo)
           \/ EvidenceOfExpenditure(returnTo)
           \/ HaveEvidenceOfCapital(returnTo)
           \/ EvidenceOfCapital(returnTo)
    \/ UpdateEvidence
    \/ UpdateFails
    \/ SessionEnds
    \/ OtherUserUpdates

Spec == Init /\ [][Next]_vars

---------------------------------------------------------------------------
(* Properties *)

\* An answer that there is none of a kind leaves nothing of that kind behind.
Coherent(answers) ==
    /\ answers.doYouHaveEvidence # "yes" =>
          /\ answers.haveEvidenceOfExpenditure # "yes"
          /\ answers.haveEvidenceOfCapital # "yes"
          /\ answers.lists = NoLists
    /\ answers.haveEvidenceOfExpenditure # "yes" =>
          \A group \in ExpenditureEvidence : answers.lists[group] = Missing
    /\ answers.haveEvidenceOfCapital # "yes" =>
          \A group \in CapitalEvidence : answers.lists[group] = Missing

\* What the API records at first was recorded by users who did not stray.
ASSUME EvidenceAssumption ==
    /\ Saved \subseteq Evidence \cup {NoEvidence}
    /\ \A e \in Saved : Coherent(ToAnswers(e))
    /\ NoDraft \notin Answers
    /\ Missing # "check-answers"
    /\ Straying \in BOOLEAN

\* Whatever pages are submitted, in whatever order and however often, as long as
\* check-answers would have asked for each: no answer of a branch that was left
\* stays in the draft (the clearFieldAnswers of three pages, with one another).
ClearedBehind ==
    trail # "strayed" => /\ draft # NoDraft => Coherent(draft)
                         /\ Coherent(ToAnswers(evidence))

\* The four lists of expenditure are saved, cleared, sent and read together:
\* toAnswers takes the application to have evidence of expenditure only if it
\* has all of them.
Together(lists) ==
    \A g, h \in ExpenditureEvidence : lists[g] = Missing => lists[h] = Missing

GroupsTogether ==
    trail # "strayed" => /\ draft # NoDraft => Together(draft.lists)
                         /\ Together(Recorded(evidence).lists)

\* What is there when the user is led to a page.
Arrives(place, answers) ==
    LET income == answers.doYouHaveEvidence = "yes" /\ Completed(answers).incomeEvidence
        capital == /\ answers.haveEvidenceOfCapital \in YesNo
                   /\ answers.haveEvidenceOfCapital = "yes"
                         => Completed(answers).capitalEvidence
        expenditure == /\ answers.haveEvidenceOfExpenditure \in YesNo
                       /\ answers.haveEvidenceOfExpenditure = "yes"
                             => Completed(answers).expenditureEvidence
        On(page) == place.page = page
    IN
    /\ place.returnTo # Missing => On("evidence-of-expenditure") \/ On("evidence-of-capital")
    /\ On("reason-for-no-evidence") => answers.doYouHaveEvidence = "no"
    /\ On("evidence-of-income") => answers.doYouHaveEvidence = "yes"
    /\ On("have-evidence-of-expenditure") => income
    /\ On("evidence-of-expenditure") =>
          /\ income
          /\ answers.haveEvidenceOfExpenditure = "yes"
          /\ place.returnTo # Missing => capital
    /\ On("have-evidence-of-capital") => income /\ expenditure
    /\ On("evidence-of-capital") =>
          income /\ expenditure /\ answers.haveEvidenceOfCapital = "yes"
    /\ On("check-answers") => CheckAnswersComplete(answers)

PlaceFits ==
    /\ draft = NoDraft => at = Place("task-list", Missing)
    /\ draft # NoDraft /\ trail = "followed" => Arrives(at, draft)

\* The pages that ask for a group, and those that can drop it.
PageOf(group) ==
    CASE group \in IncomeEvidence -> "evidence-of-income"
      [] group \in ExpenditureEvidence -> "evidence-of-expenditure"
      [] group \in CapitalEvidence -> "evidence-of-capital"

DroppedOn(group) ==
    {"have-evidence"}
    \cup (CASE group \in IncomeEvidence -> {}
            [] group \in ExpenditureEvidence -> {"have-evidence-of-expenditure"}
            [] group \in CapitalEvidence -> {"have-evidence-of-capital"})

\* What a user who has not seen a page cannot have changed: a list in the draft is
\* the record's, or its page was submitted, or its branch was left; and a record
\* with an exemption has no lists.
DraftFollowsPages ==
    /\ draft = NoDraft => answered = {} /\ ~stale
    /\ Recorded(evidence).exemptionCode \notin {Missing, "none"}
          => Recorded(evidence).lists = NoLists
    /\ draft # NoDraft =>
          \A group \in Groups :
             /\ draft.doYouHaveEvidence = "no" =>
                   PageOf(group) \in answered \/ draft.lists[group] = Missing
             /\ ~stale =>
                   \/ draft.lists[group] = Recorded(evidence).lists[group]
                   \/ PageOf(group) \in answered
                   \/ draft.lists[group] = Missing /\ DroppedOn(group) \cap answered # {}

IInv == TypeOK /\ ClearedBehind /\ GroupsTogether /\ PlaceFits /\ DraftFollowsPages

\* A user who goes where the pages lead, and from check-answers by its change
\* links, never finds check-answers incomplete: the redirects of seven pages,
\* with and without returnTo, ask for all that checkAnswersComplete demands.
FollowedIsComplete ==
    trail = "followed" /\ at.page = "check-answers" => CheckAnswersComplete(draft)

\* The values an application would be shown with.
RecordShown(e) ==
    [doYouHaveEvidence |-> IF e.hasChecklists THEN "yes" ELSE "no",
     reasonForNoEvidence |-> e.exemptionCode,
     moreDetailsForNoEvidence |-> e.exemptionReason,
     incomeEvidence |-> Ticked(e.lists, IncomeEvidence),
     haveEvidenceOfExpenditure |->
        IF Ticked(e.lists, ExpenditureEvidence) = {} THEN "no" ELSE "yes",
     expenditureEvidence |-> Ticked(e.lists, ExpenditureEvidence),
     haveEvidenceOfCapital |->
        IF Ticked(e.lists, CapitalEvidence) = {} THEN "no" ELSE "yes",
     capitalEvidence |-> Ticked(e.lists, CapitalEvidence)]

\* An update records what check-answers showed, row by row, and nothing of the
\* rows it did not show; every item that was ticked was on the page.
UpdateRecordsShown ==
    UpdateEvidence /\ trail # "strayed" =>
       \A row \in Rows :
          IF Visible(Loaded)[row]
          THEN RecordShown(evidence')[row] = Shown(Loaded)[row]
          ELSE RecordShown(evidence')[row] = RecordShown(EmptyEvidence)[row]

SavedAsShown == [][UpdateRecordsShown]_vars

\* An updated application that is opened in another session shows the rows and
\* values it was updated with, complete, and the task list leads there.
UpdateReopens ==
    UpdateEvidence /\ trail # "strayed" =>
       LET again == ToAnswers(evidence')
       IN /\ Visible(again) = Visible(Loaded)
          /\ \A row \in Rows :
                Visible(again)[row] => Shown(again)[row] = Shown(Loaded)[row]
          /\ CheckAnswersComplete(again)
          /\ EvidenceCompleted(evidence')

ReopensAsShown == [][UpdateReopens]_vars

\* While no other user has updated the evidence since the draft was loaded, an
\* update changes a list only if the page with it was submitted, and drops it
\* only with the branch it belongs to.  The draft is never loaded again in a
\* session, so with another user's update that is lost without a word.
UpdateChangesAnswered ==
    UpdateEvidence /\ ~stale =>
       \A group \in Groups :
          \/ evidence'.lists[group] = Recorded(evidence).lists[group]
          \/ PageOf(group) \in answered
          \/ evidence'.lists[group] = Missing /\ DroppedOn(group) \cap answered # {}

OnlyAnsweredChanges == [][UpdateChangesAnswered]_vars

\* The unit test "should handle no capital or expenditure evidence scenario": with
\* both answers "no", no list of expenditure or capital is sent.
NothingSentOfNo ==
    [][UpdateEvidence /\ draft # NoDraft /\ draft.haveEvidenceOfExpenditure = "no"
          => \A group \in ExpenditureEvidence : evidence'.lists[group] = Missing]_vars

=============================================================================
