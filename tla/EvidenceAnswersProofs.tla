----------------------- MODULE EvidenceAnswersProofs -----------------------
(***************************************************************************)
(* Proofs about EvidenceAnswers: what its pages leave in the draft, where   *)
(* they lead, and what an update records, for any selections and details,   *)
(* any recorded evidence, and any number of pages, updates and other users. *)
(***************************************************************************)
EXTENDS EvidenceAnswers, TLAPS

---------------------------------------------------------------------------
(* Lists *)

\* No group is on two pages.
LEMMA GroupsApart ==
    /\ IncomeEvidence \cap ExpenditureEvidence = {}
    /\ IncomeEvidence \cap CapitalEvidence = {}
    /\ ExpenditureEvidence \cap CapitalEvidence = {}
BY DEF IncomeEvidence, ExpenditureEvidence, CapitalEvidence

\* What is offered in a group is among the items.
LEMMA Offered == \A group \in Groups : ItemsOf(group) \subseteq Items
BY DEF Items

LEMMA NoListsTyped == NoLists \in Lists
BY DEF NoLists, Lists, Maybe

\* Lists as functions.
LEMMA ListsTyped ==
    ASSUME NEW lists \in Lists
    PROVE  /\ lists = [group \in Groups |-> lists[group]]
           /\ \A group \in Groups : /\ lists[group] \in Maybe(SUBSET Items)
                                    /\ lists[group] # Missing
                                          => lists[group] \subseteq ItemsOf(group)
BY DEF Lists

\* Lists made of lists, of offered items or of nothing are lists.
LEMMA ListsMade ==
    ASSUME NEW lists, lists = [group \in Groups |-> lists[group]],
           \A group \in Groups :
              lists[group] = Missing \/ lists[group] \subseteq ItemsOf(group)
    PROVE  lists \in Lists
BY Offered DEF Lists, Maybe

\* A saved group of checkboxes is not missing, ticked or not.
LEMMA TickedIsThere ==
    ASSUME NEW group \in Groups, NEW ticks, ticks \subseteq ItemsOf(group)
    PROVE  ticks # Missing
BY DtoAssumption

LEMMA ClearedTyped ==
    ASSUME NEW lists \in Lists, NEW groups
    PROVE  Cleared(lists, groups) \in Lists
<1>1. \A group \in Groups : Cleared(lists, groups)[group] \in {Missing, lists[group]}
  BY DEF Cleared
<1> QED BY <1>1, ListsMade, ListsTyped DEF Cleared

LEMMA WithTicksTyped ==
    ASSUME NEW lists \in Lists, NEW groups, NEW selection
    PROVE  WithTicks(lists, groups, selection) \in Lists
<1>1. \A group \in Groups :
         WithTicks(lists, groups, selection)[group]
            \in {ItemsOf(group) \cap selection, lists[group]}
  BY DEF WithTicks
<1> QED BY <1>1, ListsMade, ListsTyped DEF WithTicks

---------------------------------------------------------------------------
(* Answers and records *)

\* The types of the fields of answers, one by one.
LEMMA AnswersTyped ==
    ASSUME NEW answers \in Answers
    PROVE  /\ answers.doYouHaveEvidence \in Maybe(YesNo)
           /\ answers.reasonForNoEvidence \in Maybe(ExemptionReasonCodes)
           /\ answers.moreDetailsForNoEvidence \in Maybe(Details)
           /\ answers.haveEvidenceOfExpenditure \in Maybe(YesNo)
           /\ answers.haveEvidenceOfCapital \in Maybe(YesNo)
           /\ answers.lists \in Lists
BY DEF Answers

LEMMA EvidenceTyped ==
    ASSUME NEW e \in Evidence
    PROVE  /\ e.exemptionCode \in Maybe(ExemptionReasonCodes \cup {"none"})
           /\ e.exemptionReason \in Maybe(Details)
           /\ e.hasChecklists \in BOOLEAN
           /\ e.lists \in Lists
BY DEF Evidence

LEMMA NoAnswersTyped == NoAnswers \in Answers
BY NoListsTyped DEF NoAnswers, Answers, Maybe

LEMMA EmptyEvidenceTyped == EmptyEvidence \in Evidence
BY NoListsTyped DEF EmptyEvidence, Evidence, Maybe

LEMMA RecordedTyped ==
    ASSUME NEW e \in Evidence \cup {NoEvidence}
    PROVE  Recorded(e) \in Evidence
BY EmptyEvidenceTyped DEF Recorded

LEMMA RecordedAnswersTyped ==
    ASSUME NEW e \in Evidence
    PROVE  RecordedAnswers(e) \in Answers
<1>1. Given(e.exemptionCode # "none", e.exemptionCode) \in Maybe(ExemptionReasonCodes)
  BY EvidenceTyped DEF Given, Maybe
<1> QED BY <1>1, EvidenceTyped DEF RecordedAnswers, Answers, Maybe, YesNo

LEMMA ToAnswersTyped ==
    ASSUME NEW e \in Evidence \cup {NoEvidence}
    PROVE  ToAnswers(e) \in Answers
BY RecordedAnswersTyped, NoAnswersTyped DEF ToAnswers

\* What is sent, field by field.
LEMMA SentFields ==
    ASSUME NEW answers
    PROVE  /\ answers.doYouHaveEvidence = "no" =>
                 Sent(answers) = [exemptionCode |-> answers.reasonForNoEvidence,
                                  exemptionReason |-> answers.moreDetailsForNoEvidence,
                                  hasChecklists |-> FALSE, lists |-> NoLists]
           /\ answers.doYouHaveEvidence # "no" =>
                 Sent(answers) = [exemptionCode |-> Missing, exemptionReason |-> Missing,
                                  hasChecklists |-> TRUE, lists |-> answers.lists]
BY DEF Sent, EmptyEvidence

LEMMA SentTyped ==
    ASSUME NEW answers \in Answers
    PROVE  Sent(answers) \in Evidence
<1>1. /\ answers.reasonForNoEvidence \in Maybe(ExemptionReasonCodes \cup {"none"})
      /\ answers.moreDetailsForNoEvidence \in Maybe(Details)
      /\ answers.lists \in Lists
      /\ Missing \in Maybe(ExemptionReasonCodes \cup {"none"})
      /\ Missing \in Maybe(Details)
  BY AnswersTyped DEF Maybe
<1>2. CASE answers.doYouHaveEvidence = "no"
  <2>1. Sent(answers) = [exemptionCode |-> answers.reasonForNoEvidence,
                         exemptionReason |-> answers.moreDetailsForNoEvidence,
                         hasChecklists |-> FALSE, lists |-> NoLists]
    BY <1>2, SentFields
  <2> QED BY <1>1, <2>1, NoListsTyped DEF Evidence
<1>3. CASE answers.doYouHaveEvidence # "no"
  <2>1. Sent(answers) = [exemptionCode |-> Missing, exemptionReason |-> Missing,
                         hasChecklists |-> TRUE, lists |-> answers.lists]
    BY <1>3, SentFields
  <2> QED BY <1>1, <2>1 DEF Evidence
<1> QED BY <1>2, <1>3

\* An application without evidence, and one without lists, reads as coherent.
LEMMA NoAnswersCoherent == Coherent(NoAnswers) /\ Together(NoLists)
<1>1. \A group \in Groups : NoLists[group] = Missing
  BY DEF NoLists
<1>2. Missing # "yes"
  BY DtoAssumption DEF YesNo
<1> QED BY <1>1, <1>2 DEF Coherent, NoAnswers, Together, Groups

\* Lists of expenditure that are read with a coherent record are together.
LEMMA CoherentRecordTogether ==
    ASSUME NEW e \in Evidence \cup {NoEvidence}, Coherent(ToAnswers(e))
    PROVE  Together(Recorded(e).lists)
<1>1. CASE e = NoEvidence
  BY <1>1, NoAnswersCoherent DEF Recorded, EmptyEvidence
<1>2. CASE e # NoEvidence
  BY <1>2 DEF Recorded, ToAnswers, RecordedAnswers, Coherent, Together
<1> QED BY <1>1, <1>2

\* What the draft says complete is recorded as a coherent record.
LEMMA SentCoherent ==
    ASSUME NEW answers \in Answers, CheckAnswersComplete(answers),
           Coherent(answers), Together(answers.lists)
    PROVE  Coherent(ToAnswers(Sent(answers)))
<1>1. Sent(answers) # NoEvidence
  BY SentTyped, DtoAssumption
<1>2. CASE answers.doYouHaveEvidence = "no"
  <2>1. answers.reasonForNoEvidence \notin {Missing, "none"}
    <3>1. answers.reasonForNoEvidence # Missing
      BY <1>2 DEF CheckAnswersComplete, Rows, Visible, Completed
    <3> QED BY <3>1, AnswersTyped DEF Maybe, ExemptionReasonCodes
  <2>2. \A group \in Groups : NoLists[group] = Missing
    BY DEF NoLists
  <2>3. "childCare" \in ExpenditureEvidence /\ "capital" \in CapitalEvidence
    BY DEF ExpenditureEvidence, CapitalEvidence
  <2> QED BY <1>1, <1>2, <2>1, <2>2, <2>3, SentFields
           DEF ToAnswers, RecordedAnswers, Coherent, Groups
<1>3. CASE answers.doYouHaveEvidence # "no"
  <2>1. Sent(answers).lists = answers.lists /\ Sent(answers).exemptionCode = Missing
    BY <1>3, SentFields
  <2>2. RecordedAnswers(Sent(answers)).doYouHaveEvidence = "yes"
    BY <2>1 DEF RecordedAnswers
  <2>3. RecordedAnswers(Sent(answers)).lists = answers.lists
    BY <2>1 DEF RecordedAnswers
  <2>4. RecordedAnswers(Sent(answers)).haveEvidenceOfExpenditure # "yes"
           => \E group \in ExpenditureEvidence : answers.lists[group] = Missing
    BY <2>1 DEF RecordedAnswers
  <2>5. RecordedAnswers(Sent(answers)).haveEvidenceOfCapital # "yes"
           => \E group \in CapitalEvidence : answers.lists[group] = Missing
    BY <2>1 DEF RecordedAnswers
  <2>6. \A g, h \in CapitalEvidence : g = h
    BY DEF CapitalEvidence
  <2> QED BY <1>1, <2>2, <2>3, <2>4, <2>5, <2>6 DEF ToAnswers, Coherent, Together
<1> QED BY <1>2, <1>3

---------------------------------------------------------------------------
(* The inductive invariant *)

\* A list of the draft, or of the record without one, is accounted for.
Follows(answers) ==
    \A group \in Groups :
       /\ answers.doYouHaveEvidence = "no" =>
             PageOf(group) \in answered \/ answers.lists[group] = Missing
       /\ ~stale =>
             \/ answers.lists[group] = Recorded(evidence).lists[group]
             \/ PageOf(group) \in answered
             \/ answers.lists[group] = Missing /\ DroppedOn(group) \cap answered # {}

\* What holds of the draft holds of the answers a request begins with.
LEMMA LoadedFits ==
    ASSUME IInv
    PROVE  /\ Loaded \in Answers
           /\ trail # "strayed" => Coherent(Loaded) /\ Together(Loaded.lists)
           /\ Follows(Loaded)
           /\ trail = "followed" /\ at.page # "task-list" => Arrives(at, Loaded)
<1>1. CASE draft # NoDraft
  <2>1. Loaded = draft /\ draft \in Answers
    BY <1>1 DEF Loaded, IInv, TypeOK
  <2> QED BY <1>1, <2>1
           DEF IInv, ClearedBehind, GroupsTogether, PlaceFits, DraftFollowsPages, Follows
<1>2. CASE draft = NoDraft
  <2>1. Loaded = ToAnswers(evidence) /\ evidence \in Evidence \cup {NoEvidence}
    BY <1>2 DEF Loaded, IInv, TypeOK
  <2>2. Loaded.lists = Recorded(evidence).lists
    BY <2>1 DEF ToAnswers, Recorded, RecordedAnswers, NoAnswers, EmptyEvidence
  <2>3. Loaded.doYouHaveEvidence = "no" => Loaded.lists = NoLists
    <3>1. CASE evidence = NoEvidence
      BY <3>1, <2>1, DtoAssumption DEF ToAnswers, NoAnswers, YesNo
    <3>2. CASE evidence # NoEvidence
      BY <3>2, <2>1, <2>2 DEF ToAnswers, RecordedAnswers, Recorded, IInv, DraftFollowsPages
    <3> QED BY <3>1, <3>2
  <2>4. \A group \in Groups : NoLists[group] = Missing
    BY DEF NoLists
  <2>5. Follows(Loaded)
    BY <2>2, <2>3, <2>4 DEF Follows
  <2>6. at.page = "task-list"
    BY <1>2 DEF IInv, PlaceFits, Place
  <2> QED BY <1>2, <2>1, <2>2, <2>5, <2>6, ToAnswersTyped
           DEF IInv, ClearedBehind, GroupsTogether
<1> QED BY <1>1, <1>2

\* What a submission must leave in the draft, and where it may lead.
LEMMA SubmitKeepsInvariant ==
    ASSUME IInv, NEW page \in Pages, NEW returnTo \in ReturnTo,
           NEW answers \in Answers, NEW goto \in Places,
           Submit(page, returnTo, answers, goto),
           page \in Asked(Loaded) /\ Coherent(Loaded) => Coherent(answers),
           Together(Loaded.lists) => Together(answers.lists),
           \A group \in Groups :
              /\ \/ answers.lists[group] = Loaded.lists[group]
                 \/ PageOf(group) = page
                 \/ answers.lists[group] = Missing /\ page \in DroppedOn(group)
              /\ answers.doYouHaveEvidence = "no" =>
                    \/ Loaded.doYouHaveEvidence = "no"
                    \/ answers.lists[group] = Missing,
           TrailAfter(page, returnTo) = "followed" /\ page \in Asked(Loaded)
               => Arrives(goto, answers)
    PROVE  IInv'
<1> USE DEF Submit
<1>1. TypeOK'
  BY DEF IInv, TypeOK, TrailAfter, Trails
<1>2. answers # NoDraft
  BY EvidenceAssumption
<1>3. trail' # "strayed" => trail # "strayed" /\ page \in Asked(Loaded)
  BY DEF TrailAfter
<1>4. trail' = "followed" => TrailAfter(page, returnTo) = "followed"
  OBVIOUS
<1>5. ClearedBehind'
  BY <1>2, <1>3, LoadedFits DEF ClearedBehind, IInv
<1>6. GroupsTogether'
  BY <1>2, <1>3, LoadedFits DEF GroupsTogether, IInv, Recorded
<1>7. PlaceFits'
  BY <1>2, <1>3, <1>4 DEF PlaceFits
<1>8. DraftFollowsPages'
  <2>1. ASSUME NEW group \in Groups, answers.doYouHaveEvidence = "no"
        PROVE  PageOf(group) \in answered' \/ answers.lists[group] = Missing
    BY <2>1, LoadedFits DEF Follows
  <2>2. ASSUME NEW group \in Groups, ~stale
        PROVE  \/ answers.lists[group] = Recorded(evidence).lists[group]
               \/ PageOf(group) \in answered'
               \/ answers.lists[group] = Missing /\ DroppedOn(group) \cap answered' # {}
    BY <2>2, LoadedFits DEF Follows
  <2> QED BY <1>2, <2>1, <2>2 DEF DraftFollowsPages, IInv, Recorded
<1> QED BY <1>1, <1>5, <1>6, <1>7, <1>8 DEF IInv

---------------------------------------------------------------------------
(* The pages *)

\* Which rows are shown, one by one.
LEMMA VisibleRows ==
    ASSUME NEW answers
    PROVE  /\ Visible(answers)["doYouHaveEvidence"]
           /\ Visible(answers)["reasonForNoEvidence"] <=> answers.doYouHaveEvidence = "no"
           /\ Visible(answers)["moreDetailsForNoEvidence"] <=> answers.doYouHaveEvidence = "no"
           /\ Visible(answers)["incomeEvidence"] <=> answers.doYouHaveEvidence = "yes"
           /\ Visible(answers)["haveEvidenceOfExpenditure"]
                 <=> answers.doYouHaveEvidence = "yes"
           /\ Visible(answers)["expenditureEvidence"]
                 <=> answers.haveEvidenceOfExpenditure = "yes"
           /\ Visible(answers)["haveEvidenceOfCapital"]
                 <=> answers.doYouHaveEvidence = "yes"
           /\ Visible(answers)["capitalEvidence"]
                 <=> answers.haveEvidenceOfCapital = "yes"
BY DEF Visible

\* The pages each row that is shown asks for.
LEMMA AskedPages ==
    ASSUME NEW answers
    PROVE  /\ "have-evidence" \in Asked(answers)
           /\ "reason-for-no-evidence" \in Asked(answers)
                 <=> answers.doYouHaveEvidence = "no"
           /\ "evidence-of-income" \in Asked(answers)
                 <=> answers.doYouHaveEvidence = "yes"
           /\ "have-evidence-of-expenditure" \in Asked(answers)
                 <=> answers.doYouHaveEvidence = "yes"
           /\ "evidence-of-expenditure" \in Asked(answers)
                 <=> answers.haveEvidenceOfExpenditure = "yes"
           /\ "have-evidence-of-capital" \in Asked(answers)
                 <=> answers.doYouHaveEvidence = "yes"
           /\ "evidence-of-capital" \in Asked(answers)
                 <=> answers.haveEvidenceOfCapital = "yes"
<1>1. \A page : page \in Asked(answers)
                  <=> \E row \in Rows : Visible(answers)[row] /\ ChangeLink[row] = page
  BY DEF Asked
<1>2. /\ ChangeLink["doYouHaveEvidence"] = "have-evidence"
      /\ ChangeLink["reasonForNoEvidence"] = "reason-for-no-evidence"
      /\ ChangeLink["moreDetailsForNoEvidence"] = "reason-for-no-evidence"
      /\ ChangeLink["incomeEvidence"] = "evidence-of-income"
      /\ ChangeLink["haveEvidenceOfExpenditure"] = "have-evidence-of-expenditure"
      /\ ChangeLink["expenditureEvidence"] = "evidence-of-expenditure"
      /\ ChangeLink["haveEvidenceOfCapital"] = "have-evidence-of-capital"
      /\ ChangeLink["capitalEvidence"] = "evidence-of-capital"
  BY DEF ChangeLink
<1> QED BY <1>1, <1>2, VisibleRows DEF Rows

\* What is complete, kind by kind.
LEMMA CompleteKinds ==
    ASSUME NEW answers
    PROVE  CheckAnswersComplete(answers) <=>
              /\ Completed(answers).doYouHaveEvidence
              /\ answers.doYouHaveEvidence = "no" =>
                    /\ Completed(answers).reasonForNoEvidence
                    /\ Completed(answers).moreDetailsForNoEvidence
              /\ answers.doYouHaveEvidence = "yes" =>
                    /\ Completed(answers).incomeEvidence
                    /\ Completed(answers).haveEvidenceOfExpenditure
                    /\ Completed(answers).haveEvidenceOfCapital
              /\ answers.haveEvidenceOfExpenditure = "yes" =>
                    Completed(answers).expenditureEvidence
              /\ answers.haveEvidenceOfCapital = "yes" =>
                    Completed(answers).capitalEvidence
<1>1. CheckAnswersComplete(answers) <=>
         \A row \in Rows : Visible(answers)[row] => Completed(answers)[row]
  BY DEF CheckAnswersComplete
<1> QED BY <1>1, VisibleRows DEF Rows

\* A page that was followed was asked for and led to, or linked.
LEMMA TrailLed ==
    ASSUME NEW page, NEW returnTo \in ReturnTo, TrailAfter(page, returnTo) = "followed"
    PROVE  /\ trail = "followed" /\ page \in Asked(Loaded)
           /\ at = Place(page, returnTo) \/ (at.page = "check-answers" /\ returnTo = "check-answers")
BY DEF TrailAfter

\* Who follows the service arrives at a page with what it was led there for; by a
\* change link, with all that check-answers demands.
LEMMA FollowedBegins ==
    ASSUME IInv, NEW page \in Pages, NEW returnTo \in ReturnTo,
           TrailAfter(page, returnTo) = "followed"
    PROVE  /\ page \in Asked(Loaded)
           /\ Coherent(Loaded)
           /\ \/ Arrives(Place(page, returnTo), Loaded)
              \/ returnTo = "check-answers" /\ CheckAnswersComplete(Loaded)
<1>1. page \in Asked(Loaded) /\ trail = "followed"
  BY TrailLed
<1>2. at = Place(page, returnTo) \/ (at.page = "check-answers" /\ returnTo = "check-answers")
  BY TrailLed
<1>3. Coherent(Loaded)
  <2>1. trail # "strayed"
    BY <1>1
  <2> QED BY <2>1, LoadedFits
<1>4. CASE at = Place(page, returnTo)
  <2>1. at.page = page
    BY <1>4 DEF Place
  <2>2. page # "task-list"
    BY DEF Pages
  <2> QED BY <1>1, <1>3, <1>4, <2>1, <2>2, LoadedFits
<1>5. CASE at.page = "check-answers" /\ returnTo = "check-answers"
  BY <1>1, <1>3, <1>5, LoadedFits DEF Arrives
<1> QED BY <1>2, <1>4, <1>5

\* The completeness of the kinds of evidence, answer by answer.
LEMMA CompletedFields ==
    ASSUME NEW answers
    PROVE  /\ Completed(answers).doYouHaveEvidence <=> answers.doYouHaveEvidence \in YesNo
           /\ Completed(answers).reasonForNoEvidence <=> answers.reasonForNoEvidence # Missing
           /\ Completed(answers).moreDetailsForNoEvidence
                 <=> answers.moreDetailsForNoEvidence # Missing
           /\ Completed(answers).incomeEvidence <=> SomeTicked(answers.lists, IncomeEvidence)
           /\ Completed(answers).haveEvidenceOfExpenditure
                 <=> answers.haveEvidenceOfExpenditure \in YesNo
           /\ Completed(answers).expenditureEvidence
                 <=> SomeTicked(answers.lists, ExpenditureEvidence)
           /\ Completed(answers).haveEvidenceOfCapital
                 <=> answers.haveEvidenceOfCapital \in YesNo
           /\ Completed(answers).capitalEvidence <=> SomeTicked(answers.lists, CapitalEvidence)
BY DEF Completed

\* Whether something of a kind is ticked is a matter of its lists.
LEMMA TickedByGroup ==
    ASSUME NEW one, NEW other, NEW groups,
           \A group \in groups : one[group] = other[group]
    PROVE  SomeTicked(one, groups) <=> SomeTicked(other, groups)
BY DEF SomeTicked

\* The answers change what HaveEvidence changes.
LEMMA HaveEvidenceKeeps ==
    ASSUME IInv, NEW returnTo \in ReturnTo, HaveEvidence(returnTo)
    PROVE  IInv'
<1>1. /\ Loaded \in Answers /\ "have-evidence" \in Pages
      /\ \A page \in Pages : Place(page, Missing) \in Places
  BY LoadedFits DEF Pages, Places, Place, ReturnTo, Maybe
<1>2. \A group \in Groups : NoLists[group] = Missing /\ "have-evidence" \in DroppedOn(group)
  BY DEF NoLists, DroppedOn
<1>3. CASE Submit("have-evidence", returnTo,
                  [Loaded EXCEPT !.doYouHaveEvidence = "no",
                                 !.haveEvidenceOfExpenditure = Missing,
                                 !.haveEvidenceOfCapital = Missing,
                                 !.lists = NoLists],
                  Place("reason-for-no-evidence", Missing))
  <2> DEFINE after == [Loaded EXCEPT !.doYouHaveEvidence = "no",
                                     !.haveEvidenceOfExpenditure = Missing,
                                     !.haveEvidenceOfCapital = Missing,
                                     !.lists = NoLists]
             goto == Place("reason-for-no-evidence", Missing)
  <2>1. /\ after.doYouHaveEvidence = "no" /\ after.lists = NoLists
        /\ after.haveEvidenceOfExpenditure = Missing
        /\ after.haveEvidenceOfCapital = Missing
    BY <1>1 DEF Answers
  <2>2. after \in Answers
    <3>1. "no" \in Maybe(YesNo) /\ Missing \in Maybe(YesNo) /\ NoLists \in Lists
      BY NoListsTyped DEF Maybe, YesNo
    <3> QED BY <1>1, <3>1, Zenon DEF Answers
  <2>3. goto \in Places /\ Arrives(goto, after)
    BY <1>1, <2>1 DEF Arrives, Place, Pages
  <2>4. Coherent(after) /\ Together(after.lists)
    BY <1>2, <2>1, DtoAssumption DEF Coherent, Together, Groups, YesNo
  <2>5. Submit("have-evidence", returnTo, after, goto)
    BY <1>3
  <2> HIDE DEF after, goto
  <2> QED BY <1>1, <1>2, <2>1, <2>2, <2>3, <2>4, <2>5, SubmitKeepsInvariant
<1>4. CASE Submit("have-evidence", returnTo,
                  [Loaded EXCEPT !.doYouHaveEvidence = "yes",
                                 !.reasonForNoEvidence = Missing,
                                 !.moreDetailsForNoEvidence = Missing],
                  Place("evidence-of-income", Missing))
  <2> DEFINE after == [Loaded EXCEPT !.doYouHaveEvidence = "yes",
                                     !.reasonForNoEvidence = Missing,
                                     !.moreDetailsForNoEvidence = Missing]
             goto == Place("evidence-of-income", Missing)
  <2>1. /\ after.doYouHaveEvidence = "yes" /\ after.lists = Loaded.lists
        /\ after.haveEvidenceOfExpenditure = Loaded.haveEvidenceOfExpenditure
        /\ after.haveEvidenceOfCapital = Loaded.haveEvidenceOfCapital
    BY <1>1 DEF Answers
  <2>2. after \in Answers
    <3>1. /\ "yes" \in Maybe(YesNo) /\ Missing \in Maybe(ExemptionReasonCodes)
          /\ Missing \in Maybe(Details)
      BY DEF Maybe, YesNo
    <3> QED BY <1>1, <3>1, Zenon DEF Answers
  <2>3. goto \in Places /\ Arrives(goto, after)
    BY <1>1, <2>1 DEF Arrives, Place, Pages
  <2>4. /\ Coherent(Loaded) => Coherent(after)
        /\ Together(Loaded.lists) => Together(after.lists)
    BY <2>1 DEF Coherent
  <2>5. Submit("have-evidence", returnTo, after, goto)
    BY <1>4
  <2> HIDE DEF after, goto
  <2> QED BY <1>1, <1>2, <2>1, <2>2, <2>3, <2>4, <2>5, SubmitKeepsInvariant
<1> QED BY <1>3, <1>4 DEF HaveEvidence

LEMMA ReasonForNoEvidenceKeeps ==
    ASSUME IInv, NEW returnTo \in ReturnTo, ReasonForNoEvidence(returnTo)
    PROVE  IInv'
<1>1. /\ Loaded \in Answers /\ "reason-for-no-evidence" \in Pages
      /\ Place("check-answers", Missing) \in Places
  BY LoadedFits DEF Pages, Places, Place, ReturnTo, Maybe
<1>2. PICK reason \in ExemptionReasonCodes, details \in Details :
         Submit("reason-for-no-evidence", returnTo,
                [Loaded EXCEPT !.reasonForNoEvidence = reason,
                               !.moreDetailsForNoEvidence = details],
                Place("check-answers", Missing))
  BY DEF ReasonForNoEvidence
<1> DEFINE after == [Loaded EXCEPT !.reasonForNoEvidence = reason,
                                   !.moreDetailsForNoEvidence = details]
           goto == Place("check-answers", Missing)
<1>3. /\ after.doYouHaveEvidence = Loaded.doYouHaveEvidence
      /\ after.lists = Loaded.lists
      /\ after.haveEvidenceOfExpenditure = Loaded.haveEvidenceOfExpenditure
      /\ after.haveEvidenceOfCapital = Loaded.haveEvidenceOfCapital
      /\ after.reasonForNoEvidence # Missing
      /\ after.moreDetailsForNoEvidence # Missing
  BY <1>1, DtoAssumption DEF Answers
<1>4. after \in Answers
  <2>1. reason \in Maybe(ExemptionReasonCodes) /\ details \in Maybe(Details)
    BY DEF Maybe
  <2> QED BY <1>1, <2>1, Zenon DEF Answers
<1>5. /\ Coherent(Loaded) => Coherent(after)
      /\ Together(Loaded.lists) => Together(after.lists)
  BY <1>3 DEF Coherent
<1>6. ASSUME TrailAfter("reason-for-no-evidence", returnTo) = "followed"
      PROVE  Arrives(goto, after)
  <2>1. Loaded.doYouHaveEvidence = "no" /\ Coherent(Loaded)
    BY <1>1, <1>6, FollowedBegins, AskedPages
  <2>2. /\ after.doYouHaveEvidence = "no" /\ after.doYouHaveEvidence # "yes"
        /\ after.haveEvidenceOfExpenditure # "yes"
        /\ after.haveEvidenceOfCapital # "yes"
    BY <1>3, <2>1 DEF Coherent
  <2>3. CheckAnswersComplete(after)
    BY <1>3, <2>2, CompleteKinds, CompletedFields DEF YesNo
  <2> QED BY <2>3 DEF Arrives, Place
<1>7. Submit("reason-for-no-evidence", returnTo, after, goto)
  BY <1>2
<1> HIDE DEF after, goto
<1> QED BY <1>1, <1>3, <1>4, <1>5, <1>6, <1>7, SubmitKeepsInvariant DEF goto

\* What the ticks of a page change.
LEMMA WithTicksLists ==
    ASSUME NEW lists, NEW groups, NEW selection, groups \subseteq Groups
    PROVE  /\ \A group \in Groups \ groups :
                 WithTicks(lists, groups, selection)[group] = lists[group]
           /\ \A group \in groups : WithTicks(lists, groups, selection)[group] # Missing
<1>1. \A group \in groups : ItemsOf(group) \cap selection # Missing
  BY TickedIsThere
<1> QED BY <1>1 DEF WithTicks

\* A page of checkboxes, whose groups are asked for by the answer before it.
LEMMA SubmitTicksKeeps ==
    ASSUME IInv, NEW page \in Pages, NEW returnTo \in ReturnTo, NEW goto \in Places,
           NEW groups \in {IncomeEvidence, ExpenditureEvidence, CapitalEvidence},
           SubmitTicks(page, groups, returnTo, goto),
           \A group \in groups : PageOf(group) = page,
           page \in Asked(Loaded) <=>
              /\ groups = IncomeEvidence => Loaded.doYouHaveEvidence = "yes"
              /\ groups = ExpenditureEvidence => Loaded.haveEvidenceOfExpenditure = "yes"
              /\ groups = CapitalEvidence => Loaded.haveEvidenceOfCapital = "yes",
           ASSUME NEW after \in Answers, TrailAfter(page, returnTo) = "followed",
                  after.doYouHaveEvidence = Loaded.doYouHaveEvidence,
                  after.haveEvidenceOfExpenditure = Loaded.haveEvidenceOfExpenditure,
                  after.haveEvidenceOfCapital = Loaded.haveEvidenceOfCapital,
                  SomeTicked(after.lists, groups),
                  \A group \in Groups \ groups : after.lists[group] = Loaded.lists[group]
           PROVE  Arrives(goto, after)
    PROVE  IInv'
<1>1. Loaded \in Answers /\ groups \subseteq Groups
  BY LoadedFits DEF Groups
<1>2. PICK selection \in Selections :
         LET lists == WithTicks(Loaded.lists, groups, selection)
         IN /\ SomeTicked(lists, groups)
            /\ Submit(page, returnTo, [Loaded EXCEPT !.lists = lists], goto)
  BY DEF SubmitTicks
<1> DEFINE lists == WithTicks(Loaded.lists, groups, selection)
           after == [Loaded EXCEPT !.lists = lists]
<1>3. /\ lists \in Lists /\ SomeTicked(lists, groups)
      /\ Submit(page, returnTo, after, goto)
      /\ \A group \in Groups \ groups : lists[group] = Loaded.lists[group]
      /\ \A group \in groups : lists[group] # Missing
  BY <1>1, <1>2, WithTicksTyped, WithTicksLists, AnswersTyped
<1> HIDE DEF lists
<1>4. /\ after.doYouHaveEvidence = Loaded.doYouHaveEvidence /\ after.lists = lists
      /\ after.haveEvidenceOfExpenditure = Loaded.haveEvidenceOfExpenditure
      /\ after.haveEvidenceOfCapital = Loaded.haveEvidenceOfCapital
  BY <1>1 DEF Answers
<1>5. after \in Answers
  BY <1>1, <1>3, Zenon DEF Answers
<1> HIDE DEF after
<1>6. Together(Loaded.lists) => Together(after.lists)
  <2>1. CASE groups = ExpenditureEvidence
    BY <1>3, <1>4, <2>1 DEF Together
  <2>2. CASE groups # ExpenditureEvidence
    <3>1. \A group \in ExpenditureEvidence : lists[group] = Loaded.lists[group]
      BY <1>3, <2>2, GroupsApart DEF Groups
    <3> QED BY <1>4, <3>1 DEF Together
  <2> QED BY <2>1, <2>2
<1>7. page \in Asked(Loaded) /\ Coherent(Loaded) => Coherent(after)
  <2> SUFFICES ASSUME page \in Asked(Loaded), Coherent(Loaded)
               PROVE  Coherent(after)
    OBVIOUS
  <2>1. IncomeEvidence # ExpenditureEvidence /\ IncomeEvidence # CapitalEvidence
        /\ ExpenditureEvidence # CapitalEvidence
    BY DEF IncomeEvidence, ExpenditureEvidence, CapitalEvidence
  <2>2. Loaded.doYouHaveEvidence = "yes"
    BY <2>1 DEF Coherent
  <2>3. Loaded.haveEvidenceOfExpenditure # "yes" =>
           \A group \in ExpenditureEvidence : lists[group] = Missing
    <3>1. CASE groups = ExpenditureEvidence
      BY <2>1, <3>1
    <3>2. CASE groups # ExpenditureEvidence
      <4>1. \A group \in ExpenditureEvidence : lists[group] = Loaded.lists[group]
        BY <1>3, <3>2, GroupsApart DEF Groups
      <4> QED BY <4>1 DEF Coherent
    <3> QED BY <3>1, <3>2
  <2>4. Loaded.haveEvidenceOfCapital # "yes" =>
           \A group \in CapitalEvidence : lists[group] = Missing
    <3>1. CASE groups = CapitalEvidence
      BY <2>1, <3>1
    <3>2. CASE groups # CapitalEvidence
      <4>1. \A group \in CapitalEvidence : lists[group] = Loaded.lists[group]
        BY <1>3, <3>2, GroupsApart DEF Groups
      <4> QED BY <4>1 DEF Coherent
    <3> QED BY <3>1, <3>2
  <2> QED BY <1>4, <2>2, <2>3, <2>4 DEF Coherent
<1>8. \A group \in Groups :
         /\ after.lists[group] = Loaded.lists[group] \/ PageOf(group) = page
         /\ after.doYouHaveEvidence = "no" => Loaded.doYouHaveEvidence = "no"
  BY <1>3, <1>4
<1>9. TrailAfter(page, returnTo) = "followed" => Arrives(goto, after)
  BY <1>3, <1>4, <1>5
<1> QED BY <1>3, <1>5, <1>6, <1>7, <1>8, <1>9, SubmitKeepsInvariant

\* The pages of the groups.
LEMMA PagesOfGroups ==
    /\ \A group \in IncomeEvidence : PageOf(group) = "evidence-of-income"
    /\ \A group \in ExpenditureEvidence : PageOf(group) = "evidence-of-expenditure"
    /\ \A group \in CapitalEvidence : PageOf(group) = "evidence-of-capital"
    /\ \A group \in ExpenditureEvidence : "have-evidence-of-expenditure" \in DroppedOn(group)
    /\ \A group \in CapitalEvidence : "have-evidence-of-capital" \in DroppedOn(group)
BY GroupsApart DEF PageOf, DroppedOn

\* Where redirects lead.
LEMMA PlacesLed ==
    ASSUME NEW returnTo \in ReturnTo
    PROVE  /\ \A page \in Pages : /\ Place(page, returnTo) \in Places
                                  /\ Place(page, Missing) \in Places
                                  /\ CheckAnswersOr(returnTo, page) \in Places
                                  /\ page \notin {"check-answers", "task-list"}
           /\ Place("check-answers", Missing) \in Places
           /\ \A page, to : Place(page, to).page = page /\ Place(page, to).returnTo = to
           /\ returnTo # Missing <=> returnTo = "check-answers"
<1>1. returnTo # Missing <=> returnTo = "check-answers"
  BY EvidenceAssumption DEF ReturnTo, Maybe
<1>2. Missing \in ReturnTo
  BY DEF ReturnTo, Maybe
<1> QED BY <1>1, <1>2 DEF Pages, Places, Place, CheckAnswersOr

\* A change link led to every page but those of checkboxes that depend on an
\* answer of the page before.
LEMMA LedByLink ==
    ASSUME IInv, NEW page \in Pages, NEW returnTo \in ReturnTo,
           TrailAfter(page, returnTo) = "followed", returnTo = "check-answers",
           page \notin {"evidence-of-expenditure", "evidence-of-capital"}
    PROVE  CheckAnswersComplete(Loaded)
<1>1. Place(page, returnTo).page = page /\ Place(page, returnTo).returnTo = returnTo
  BY DEF Place
<1>2. returnTo # Missing
  BY PlacesLed
<1>3. ~Arrives(Place(page, returnTo), Loaded)
  BY <1>1, <1>2 DEF Arrives
<1> QED BY <1>3, FollowedBegins

LEMMA EvidenceOfIncomeKeeps ==
    ASSUME IInv, NEW returnTo \in ReturnTo, EvidenceOfIncome(returnTo)
    PROVE  IInv'
<1> DEFINE page == "evidence-of-income"
           goto == CheckAnswersOr(returnTo, "have-evidence-of-expenditure")
<1>1. page \in Pages /\ "have-evidence-of-expenditure" \in Pages
  BY DEF Pages
<1>2. goto \in Places
  BY <1>1, PlacesLed
<1>3. page \in Asked(Loaded) <=>
         /\ IncomeEvidence = IncomeEvidence => Loaded.doYouHaveEvidence = "yes"
         /\ IncomeEvidence = ExpenditureEvidence => Loaded.haveEvidenceOfExpenditure = "yes"
         /\ IncomeEvidence = CapitalEvidence => Loaded.haveEvidenceOfCapital = "yes"
  BY AskedPages DEF IncomeEvidence, ExpenditureEvidence, CapitalEvidence
<1>4. ASSUME NEW after \in Answers, TrailAfter(page, returnTo) = "followed",
             after.doYouHaveEvidence = Loaded.doYouHaveEvidence,
             after.haveEvidenceOfExpenditure = Loaded.haveEvidenceOfExpenditure,
             after.haveEvidenceOfCapital = Loaded.haveEvidenceOfCapital,
             SomeTicked(after.lists, IncomeEvidence),
             \A group \in Groups \ IncomeEvidence : after.lists[group] = Loaded.lists[group]
      PROVE  Arrives(goto, after)
  <2>1. Loaded.doYouHaveEvidence = "yes"
    BY <1>1, <1>4, TrailLed, AskedPages
  <2>2. Completed(after).incomeEvidence
    BY <1>4, CompletedFields
  <2>3. CASE returnTo = "check-answers"
    <3>1. CheckAnswersComplete(Loaded)
      BY <1>1, <1>4, <2>3, LedByLink
    <3>2. /\ SomeTicked(after.lists, ExpenditureEvidence)
                <=> SomeTicked(Loaded.lists, ExpenditureEvidence)
          /\ SomeTicked(after.lists, CapitalEvidence)
                <=> SomeTicked(Loaded.lists, CapitalEvidence)
      BY <1>4, GroupsApart, TickedByGroup DEF Groups
    <3>3. CheckAnswersComplete(after)
      BY <1>4, <2>1, <2>2, <3>1, <3>2, CompleteKinds, CompletedFields
    <3> QED BY <2>3, <3>3 DEF Arrives, CheckAnswersOr, Place
  <2>4. CASE returnTo # "check-answers"
    BY <1>4, <2>1, <2>2, <2>4 DEF Arrives, CheckAnswersOr, Place
  <2> QED BY <2>3, <2>4
<1>5. SubmitTicks(page, IncomeEvidence, returnTo, goto)
  BY DEF EvidenceOfIncome
<1>6. \A group \in IncomeEvidence : PageOf(group) = page
  BY PagesOfGroups
<1> HIDE DEF page, goto
<1> QED BY <1>1, <1>2, <1>3, <1>4, <1>5, <1>6, SubmitTicksKeeps

LEMMA HaveEvidenceOfExpenditureKeeps ==
    ASSUME IInv, NEW returnTo \in ReturnTo, HaveEvidenceOfExpenditure(returnTo)
    PROVE  IInv'
<1> DEFINE page == "have-evidence-of-expenditure"
<1>1. /\ Loaded \in Answers /\ page \in Pages
      /\ "evidence-of-expenditure" \in Pages /\ "have-evidence-of-capital" \in Pages
      /\ "evidence-of-capital" \in Pages
  BY LoadedFits DEF Pages
<1>2. page \in Asked(Loaded) => Loaded.doYouHaveEvidence = "yes"
  BY AskedPages
<1>3. CASE Submit(page, returnTo,
                  [Loaded EXCEPT !.haveEvidenceOfExpenditure = "no",
                                 !.lists = Cleared(@, ExpenditureEvidence)],
                  CheckAnswersOr(returnTo, "have-evidence-of-capital"))
  <2> DEFINE lists == Cleared(Loaded.lists, ExpenditureEvidence)
             after == [Loaded EXCEPT !.haveEvidenceOfExpenditure = "no", !.lists = lists]
             goto == CheckAnswersOr(returnTo, "have-evidence-of-capital")
  <2>1. /\ lists \in Lists
        /\ \A group \in ExpenditureEvidence : lists[group] = Missing
        /\ \A group \in Groups \ ExpenditureEvidence : lists[group] = Loaded.lists[group]
    BY <1>1, ClearedTyped, AnswersTyped DEF Cleared, Groups
  <2> HIDE DEF lists
  <2>2. /\ after.doYouHaveEvidence = Loaded.doYouHaveEvidence /\ after.lists = lists
        /\ after.haveEvidenceOfExpenditure = "no"
        /\ after.haveEvidenceOfCapital = Loaded.haveEvidenceOfCapital
    BY <1>1 DEF Answers
  <2>3. after \in Answers
    <3>1. "no" \in Maybe(YesNo)
      BY DEF Maybe, YesNo
    <3> QED BY <1>1, <2>1, <3>1, Zenon DEF Answers
  <2>4. Submit(page, returnTo, after, goto) /\ goto \in Places
    BY <1>1, <1>3, PlacesLed DEF lists
  <2> HIDE DEF after
  <2>5. /\ \A group \in IncomeEvidence : lists[group] = Loaded.lists[group]
        /\ \A group \in CapitalEvidence : lists[group] = Loaded.lists[group]
    BY <2>1, GroupsApart DEF Groups
  <2>6. /\ page \in Asked(Loaded) /\ Coherent(Loaded) => Coherent(after)
        /\ Together(Loaded.lists) => Together(after.lists)
    BY <1>2, <2>1, <2>2, <2>5 DEF Coherent, Together
  <2>7. \A group \in Groups :
           /\ \/ after.lists[group] = Loaded.lists[group]
              \/ after.lists[group] = Missing /\ page \in DroppedOn(group)
           /\ after.doYouHaveEvidence = "no" => Loaded.doYouHaveEvidence = "no"
    BY <2>1, <2>2, PagesOfGroups
  <2>8. ASSUME TrailAfter(page, returnTo) = "followed"
        PROVE  Arrives(goto, after)
    <3>1. Loaded.doYouHaveEvidence = "yes"
      BY <1>1, <1>2, <2>8, TrailLed
    <3>2. /\ SomeTicked(lists, IncomeEvidence) <=> SomeTicked(Loaded.lists, IncomeEvidence)
          /\ SomeTicked(lists, CapitalEvidence) <=> SomeTicked(Loaded.lists, CapitalEvidence)
      BY <2>5, TickedByGroup
    <3>3. \/ Arrives(Place(page, returnTo), Loaded)
          \/ returnTo = "check-answers" /\ CheckAnswersComplete(Loaded)
      BY <1>1, <2>8, FollowedBegins
    <3>4. Completed(Loaded).incomeEvidence
      BY <3>1, <3>3, CompleteKinds DEF Arrives, Place
    <3>5. Completed(after).incomeEvidence
      BY <2>2, <3>2, <3>4, CompletedFields
    <3>6. CASE returnTo = "check-answers"
      <4>1. CheckAnswersComplete(Loaded)
        BY <1>1, <2>8, <3>6, LedByLink
      <4>2. CheckAnswersComplete(after)
        BY <2>2, <3>1, <3>2, <3>5, <4>1, CompleteKinds, CompletedFields DEF YesNo
      <4> QED BY <3>6, <4>2, PlacesLed DEF Arrives, CheckAnswersOr
    <3>7. CASE returnTo # "check-answers"
      BY <2>2, <3>1, <3>5, <3>7 DEF Arrives, CheckAnswersOr, Place, YesNo
    <3> QED BY <3>6, <3>7
  <2> HIDE DEF page, goto
  <2> QED BY <1>1, <2>3, <2>4, <2>6, <2>7, <2>8, SubmitKeepsInvariant
<1>4. CASE Submit(page, returnTo, [Loaded EXCEPT !.haveEvidenceOfExpenditure = "yes"],
                  Place("evidence-of-expenditure", returnTo))
  <2> DEFINE after == [Loaded EXCEPT !.haveEvidenceOfExpenditure = "yes"]
             goto == Place("evidence-of-expenditure", returnTo)
  <2>1. /\ after.doYouHaveEvidence = Loaded.doYouHaveEvidence
        /\ after.lists = Loaded.lists
        /\ after.haveEvidenceOfExpenditure = "yes"
        /\ after.haveEvidenceOfCapital = Loaded.haveEvidenceOfCapital
    BY <1>1 DEF Answers
  <2>2. after \in Answers
    <3>1. "yes" \in Maybe(YesNo)
      BY DEF Maybe, YesNo
    <3> QED BY <1>1, <3>1, Zenon DEF Answers
  <2>3. Submit(page, returnTo, after, goto) /\ goto \in Places
    BY <1>1, <1>4, PlacesLed
  <2> HIDE DEF after
  <2>4. /\ page \in Asked(Loaded) /\ Coherent(Loaded) => Coherent(after)
        /\ Together(Loaded.lists) => Together(after.lists)
    BY <1>2, <2>1 DEF Coherent
  <2>5. ASSUME TrailAfter(page, returnTo) = "followed"
        PROVE  Arrives(goto, after)
    <3>1. Loaded.doYouHaveEvidence = "yes"
      BY <1>1, <1>2, <2>5, TrailLed
    <3>2. \/ Arrives(Place(page, returnTo), Loaded)
          \/ returnTo = "check-answers" /\ CheckAnswersComplete(Loaded)
      BY <1>1, <2>5, FollowedBegins
    <3>3. Completed(Loaded).incomeEvidence
      BY <3>1, <3>2, CompleteKinds DEF Arrives, Place
    <3>4. Completed(after).incomeEvidence
      BY <2>1, <3>3, CompletedFields
    <3>5. returnTo # Missing =>
             /\ after.haveEvidenceOfCapital \in YesNo
             /\ after.haveEvidenceOfCapital = "yes" => Completed(after).capitalEvidence
      <4>1. returnTo # Missing => CheckAnswersComplete(Loaded)
        BY <1>1, <2>5, PlacesLed, LedByLink
      <4> QED BY <2>1, <3>1, <4>1, CompleteKinds, CompletedFields
    <3> QED BY <2>1, <3>1, <3>4, <3>5 DEF Arrives, Place
  <2> HIDE DEF page, goto
  <2> QED BY <1>1, <2>1, <2>2, <2>3, <2>4, <2>5, SubmitKeepsInvariant
<1> QED BY <1>3, <1>4 DEF HaveEvidenceOfExpenditure

LEMMA EvidenceOfExpenditureKeeps ==
    ASSUME IInv, NEW returnTo \in ReturnTo, EvidenceOfExpenditure(returnTo)
    PROVE  IInv'
<1> DEFINE page == "evidence-of-expenditure"
           goto == CheckAnswersOr(returnTo, "have-evidence-of-capital")
<1>1. page \in Pages /\ "have-evidence-of-capital" \in Pages
  BY DEF Pages
<1>2. goto \in Places
  BY <1>1, PlacesLed
<1>3. page \in Asked(Loaded) <=>
         /\ ExpenditureEvidence = IncomeEvidence => Loaded.doYouHaveEvidence = "yes"
         /\ ExpenditureEvidence = ExpenditureEvidence => Loaded.haveEvidenceOfExpenditure = "yes"
         /\ ExpenditureEvidence = CapitalEvidence => Loaded.haveEvidenceOfCapital = "yes"
  BY AskedPages DEF IncomeEvidence, ExpenditureEvidence, CapitalEvidence
<1>4. ASSUME NEW after \in Answers, TrailAfter(page, returnTo) = "followed",
             after.doYouHaveEvidence = Loaded.doYouHaveEvidence,
             after.haveEvidenceOfExpenditure = Loaded.haveEvidenceOfExpenditure,
             after.haveEvidenceOfCapital = Loaded.haveEvidenceOfCapital,
             SomeTicked(after.lists, ExpenditureEvidence),
             \A group \in Groups \ ExpenditureEvidence : after.lists[group] = Loaded.lists[group]
      PROVE  Arrives(goto, after)
  <2>1. Loaded.haveEvidenceOfExpenditure = "yes" /\ Loaded.doYouHaveEvidence = "yes"
    BY <1>1, <1>4, FollowedBegins, AskedPages DEF Coherent
  <2>2. /\ Completed(after).expenditureEvidence
        /\ SomeTicked(after.lists, IncomeEvidence) <=> SomeTicked(Loaded.lists, IncomeEvidence)
        /\ SomeTicked(after.lists, CapitalEvidence)
              <=> SomeTicked(Loaded.lists, CapitalEvidence)
    BY <1>4, CompletedFields, GroupsApart, TickedByGroup DEF Groups
  <2>3. \/ Arrives(Place(page, returnTo), Loaded)
        \/ returnTo = "check-answers" /\ CheckAnswersComplete(Loaded)
    BY <1>1, <1>4, FollowedBegins
  <2>4. Completed(Loaded).incomeEvidence
    BY <2>1, <2>3, CompleteKinds DEF Arrives, Place
  <2>5. Completed(after).incomeEvidence
    BY <2>2, <2>4, CompletedFields
  <2>6. CASE returnTo = "check-answers"
    <3>1. /\ Loaded.haveEvidenceOfCapital \in YesNo
          /\ Loaded.haveEvidenceOfCapital = "yes" => Completed(Loaded).capitalEvidence
      BY <2>1, <2>3, <2>6, PlacesLed, CompleteKinds, CompletedFields DEF Arrives, Place
    <3>2. CheckAnswersComplete(after)
      BY <1>4, <2>1, <2>2, <2>5, <3>1, CompleteKinds, CompletedFields DEF YesNo
    <3> QED BY <2>6, <3>2, PlacesLed DEF Arrives, CheckAnswersOr
  <2>7. CASE returnTo # "check-answers"
    BY <1>4, <2>1, <2>2, <2>5, <2>7 DEF Arrives, CheckAnswersOr, Place, YesNo
  <2> QED BY <2>6, <2>7
<1>5. SubmitTicks(page, ExpenditureEvidence, returnTo, goto)
  BY DEF EvidenceOfExpenditure
<1>6. \A group \in ExpenditureEvidence : PageOf(group) = page
  BY PagesOfGroups
<1> HIDE DEF page, goto
<1> QED BY <1>1, <1>2, <1>3, <1>4, <1>5, <1>6, SubmitTicksKeeps

LEMMA HaveEvidenceOfCapitalKeeps ==
    ASSUME IInv, NEW returnTo \in ReturnTo, HaveEvidenceOfCapital(returnTo)
    PROVE  IInv'
<1> DEFINE page == "have-evidence-of-capital"
<1>1. /\ Loaded \in Answers /\ page \in Pages
      /\ "evidence-of-expenditure" \in Pages /\ "have-evidence-of-capital" \in Pages
      /\ "evidence-of-capital" \in Pages
  BY LoadedFits DEF Pages
<1>2. page \in Asked(Loaded) => Loaded.doYouHaveEvidence = "yes"
  BY AskedPages
<1>3. CASE Submit(page, returnTo,
                  [Loaded EXCEPT !.haveEvidenceOfCapital = "no",
                                 !.lists = Cleared(@, CapitalEvidence)],
                  Place("check-answers", Missing))
  <2> DEFINE lists == Cleared(Loaded.lists, CapitalEvidence)
             after == [Loaded EXCEPT !.haveEvidenceOfCapital = "no", !.lists = lists]
             goto == Place("check-answers", Missing)
  <2>1. /\ lists \in Lists
        /\ \A group \in CapitalEvidence : lists[group] = Missing
        /\ \A group \in Groups \ CapitalEvidence : lists[group] = Loaded.lists[group]
    BY <1>1, ClearedTyped, AnswersTyped DEF Cleared, Groups
  <2> HIDE DEF lists
  <2>2. /\ after.doYouHaveEvidence = Loaded.doYouHaveEvidence /\ after.lists = lists
        /\ after.haveEvidenceOfCapital = "no"
        /\ after.haveEvidenceOfExpenditure = Loaded.haveEvidenceOfExpenditure
    BY <1>1 DEF Answers
  <2>3. after \in Answers
    <3>1. "no" \in Maybe(YesNo)
      BY DEF Maybe, YesNo
    <3> QED BY <1>1, <2>1, <3>1, Zenon DEF Answers
  <2>4. Submit(page, returnTo, after, goto) /\ goto \in Places
    BY <1>1, <1>3, PlacesLed DEF lists
  <2> HIDE DEF after
  <2>5. /\ \A group \in IncomeEvidence : lists[group] = Loaded.lists[group]
        /\ \A group \in ExpenditureEvidence : lists[group] = Loaded.lists[group]
    BY <2>1, GroupsApart DEF Groups
  <2>6. /\ page \in Asked(Loaded) /\ Coherent(Loaded) => Coherent(after)
        /\ Together(Loaded.lists) => Together(after.lists)
    BY <1>2, <2>1, <2>2, <2>5 DEF Coherent, Together
  <2>7. \A group \in Groups :
           /\ \/ after.lists[group] = Loaded.lists[group]
              \/ after.lists[group] = Missing /\ page \in DroppedOn(group)
           /\ after.doYouHaveEvidence = "no" => Loaded.doYouHaveEvidence = "no"
    BY <2>1, <2>2, PagesOfGroups
  <2>8. ASSUME TrailAfter(page, returnTo) = "followed"
        PROVE  Arrives(goto, after)
    <3>1. Loaded.doYouHaveEvidence = "yes"
      BY <1>1, <1>2, <2>8, TrailLed
    <3>2. /\ SomeTicked(lists, IncomeEvidence) <=> SomeTicked(Loaded.lists, IncomeEvidence)
          /\ SomeTicked(lists, ExpenditureEvidence) <=> SomeTicked(Loaded.lists, ExpenditureEvidence)
      BY <2>5, TickedByGroup
    <3>3. \/ Arrives(Place(page, returnTo), Loaded)
          \/ returnTo = "check-answers" /\ CheckAnswersComplete(Loaded)
      BY <1>1, <2>8, FollowedBegins
    <3>4. /\ Completed(Loaded).incomeEvidence
          /\ Loaded.haveEvidenceOfExpenditure \in YesNo
          /\ Loaded.haveEvidenceOfExpenditure = "yes" => Completed(Loaded).expenditureEvidence
      BY <3>1, <3>3, CompleteKinds, CompletedFields DEF Arrives, Place
    <3>5. CheckAnswersComplete(after)
      BY <2>2, <3>1, <3>2, <3>4, CompleteKinds, CompletedFields DEF YesNo
    <3> QED BY <3>5, PlacesLed DEF Arrives
  <2> HIDE DEF page, goto
  <2> QED BY <1>1, <2>3, <2>4, <2>6, <2>7, <2>8, SubmitKeepsInvariant
<1>4. CASE Submit(page, returnTo, [Loaded EXCEPT !.haveEvidenceOfCapital = "yes"],
                  Place("evidence-of-capital", returnTo))
  <2> DEFINE after == [Loaded EXCEPT !.haveEvidenceOfCapital = "yes"]
             goto == Place("evidence-of-capital", returnTo)
  <2>1. /\ after.doYouHaveEvidence = Loaded.doYouHaveEvidence
        /\ after.lists = Loaded.lists
        /\ after.haveEvidenceOfCapital = "yes"
        /\ after.haveEvidenceOfExpenditure = Loaded.haveEvidenceOfExpenditure
    BY <1>1 DEF Answers
  <2>2. after \in Answers
    <3>1. "yes" \in Maybe(YesNo)
      BY DEF Maybe, YesNo
    <3> QED BY <1>1, <3>1, Zenon DEF Answers
  <2>3. Submit(page, returnTo, after, goto) /\ goto \in Places
    BY <1>1, <1>4, PlacesLed
  <2> HIDE DEF after
  <2>4. /\ page \in Asked(Loaded) /\ Coherent(Loaded) => Coherent(after)
        /\ Together(Loaded.lists) => Together(after.lists)
    BY <1>2, <2>1 DEF Coherent
  <2>5. ASSUME TrailAfter(page, returnTo) = "followed"
        PROVE  Arrives(goto, after)
    <3>1. Loaded.doYouHaveEvidence = "yes"
      BY <1>1, <1>2, <2>5, TrailLed
    <3>2. \/ Arrives(Place(page, returnTo), Loaded)
          \/ returnTo = "check-answers" /\ CheckAnswersComplete(Loaded)
      BY <1>1, <2>5, FollowedBegins
    <3>3. /\ Completed(Loaded).incomeEvidence
          /\ Loaded.haveEvidenceOfExpenditure \in YesNo
          /\ Loaded.haveEvidenceOfExpenditure = "yes" => Completed(Loaded).expenditureEvidence
      BY <3>1, <3>2, CompleteKinds, CompletedFields DEF Arrives, Place
    <3>4. /\ Completed(after).incomeEvidence
          /\ after.haveEvidenceOfExpenditure \in YesNo
          /\ after.haveEvidenceOfExpenditure = "yes" => Completed(after).expenditureEvidence
      BY <2>1, <3>3, CompletedFields
    <3> QED BY <2>1, <3>1, <3>4 DEF Arrives, Place
  <2> HIDE DEF page, goto
  <2> QED BY <1>1, <2>1, <2>2, <2>3, <2>4, <2>5, SubmitKeepsInvariant
<1> QED BY <1>3, <1>4 DEF HaveEvidenceOfCapital

LEMMA EvidenceOfCapitalKeeps ==
    ASSUME IInv, NEW returnTo \in ReturnTo, EvidenceOfCapital(returnTo)
    PROVE  IInv'
<1> DEFINE page == "evidence-of-capital"
           goto == Place("check-answers", Missing)
<1>1. page \in Pages /\ "have-evidence-of-capital" \in Pages
  BY DEF Pages
<1>2. goto \in Places
  BY <1>1, PlacesLed
<1>3. page \in Asked(Loaded) <=>
         /\ CapitalEvidence = IncomeEvidence => Loaded.doYouHaveEvidence = "yes"
         /\ CapitalEvidence = ExpenditureEvidence => Loaded.haveEvidenceOfExpenditure = "yes"
         /\ CapitalEvidence = CapitalEvidence => Loaded.haveEvidenceOfCapital = "yes"
  BY AskedPages DEF IncomeEvidence, ExpenditureEvidence, CapitalEvidence
<1>4. ASSUME NEW after \in Answers, TrailAfter(page, returnTo) = "followed",
             after.doYouHaveEvidence = Loaded.doYouHaveEvidence,
             after.haveEvidenceOfExpenditure = Loaded.haveEvidenceOfExpenditure,
             after.haveEvidenceOfCapital = Loaded.haveEvidenceOfCapital,
             SomeTicked(after.lists, CapitalEvidence),
             \A group \in Groups \ CapitalEvidence : after.lists[group] = Loaded.lists[group]
      PROVE  Arrives(goto, after)
  <2>1. Loaded.haveEvidenceOfCapital = "yes" /\ Loaded.doYouHaveEvidence = "yes"
    BY <1>1, <1>4, FollowedBegins, AskedPages DEF Coherent
  <2>2. /\ Completed(after).capitalEvidence
        /\ SomeTicked(after.lists, IncomeEvidence) <=> SomeTicked(Loaded.lists, IncomeEvidence)
        /\ SomeTicked(after.lists, ExpenditureEvidence)
              <=> SomeTicked(Loaded.lists, ExpenditureEvidence)
    BY <1>4, CompletedFields, GroupsApart, TickedByGroup DEF Groups
  <2>3. \/ Arrives(Place(page, returnTo), Loaded)
        \/ returnTo = "check-answers" /\ CheckAnswersComplete(Loaded)
    BY <1>1, <1>4, FollowedBegins
  <2>4. /\ Completed(Loaded).incomeEvidence
        /\ Loaded.haveEvidenceOfExpenditure \in YesNo
        /\ Loaded.haveEvidenceOfExpenditure = "yes" => Completed(Loaded).expenditureEvidence
    BY <2>1, <2>3, CompleteKinds, CompletedFields DEF Arrives, Place
  <2>5. CheckAnswersComplete(after)
    BY <1>4, <2>1, <2>2, <2>4, CompleteKinds, CompletedFields DEF YesNo
  <2> QED BY <2>5, PlacesLed DEF Arrives
<1>5. SubmitTicks(page, CapitalEvidence, returnTo, goto)
  BY DEF EvidenceOfCapital
<1>6. \A group \in CapitalEvidence : PageOf(group) = page
  BY PagesOfGroups
<1> HIDE DEF page, goto
<1> QED BY <1>1, <1>2, <1>3, <1>4, <1>5, <1>6, SubmitTicksKeeps

---------------------------------------------------------------------------
(* The other actions *)

\* A request that keeps the loaded answers, wherever it leads.
LEMMA LoadedKeeps ==
    ASSUME IInv, draft' = Loaded, at' \in Places, trail' \in Trails,
           trail' # "strayed" => trail # "strayed",
           trail' = "followed" => Arrives(at', Loaded),
           UNCHANGED <<evidence, answered, updates, others, stale>>
    PROVE  IInv'
<1>1. Loaded \in Answers /\ Loaded # NoDraft
  BY LoadedFits, EvidenceAssumption
<1>2. TypeOK'
  BY <1>1 DEF IInv, TypeOK
<1>3. ClearedBehind'
  BY LoadedFits DEF ClearedBehind, IInv
<1>4. GroupsTogether'
  BY LoadedFits DEF GroupsTogether, IInv, Recorded
<1>5. PlaceFits'
  BY <1>1 DEF PlaceFits
<1>6. DraftFollowsPages'
  BY <1>1, LoadedFits DEF DraftFollowsPages, Follows, IInv, Recorded
<1> QED BY <1>2, <1>3, <1>4, <1>5, <1>6 DEF IInv

LEMMA OpenKeeps ==
    ASSUME IInv, Open
    PROVE  IInv'
<1>1. PICK page \in {"check-answers", "have-evidence"} :
         /\ draft' = Loaded /\ at' = Place(page, Missing)
         /\ trail' = IF trail = "followed"
                        /\ ~(page = "have-evidence" \/ CheckAnswersComplete(Loaded))
                     THEN "wandered" ELSE trail
         /\ UNCHANGED <<evidence, answered, updates, others, stale>>
  BY DEF Open
<1>2. at' \in Places
  BY <1>1 DEF Places, Place, Pages, ReturnTo, Maybe
<1>3. trail' \in Trails /\ (trail' # "strayed" => trail # "strayed")
  BY <1>1 DEF Trails, IInv, TypeOK
<1>4. trail' = "followed" => Arrives(at', Loaded)
  BY <1>1 DEF Arrives, Place
<1> QED BY <1>1, <1>2, <1>3, <1>4, LoadedKeeps

LEMMA UpdateFailsKeeps ==
    ASSUME IInv, UpdateFails
    PROVE  IInv'
<1>1. CASE at.page = "task-list"
  <2>1. trail = "followed" => at.returnTo = Missing
    <3>1. CASE draft = NoDraft
      BY <3>1 DEF IInv, PlaceFits, Place
    <3>2. CASE draft # NoDraft
      BY <1>1, <3>2 DEF IInv, PlaceFits, Arrives
    <3> QED BY <3>1, <3>2
  <2>2. trail = "followed" => Arrives(at, Loaded)
    BY <1>1, <2>1 DEF Arrives
  <2> QED BY <1>1, <2>1, <2>2, LoadedKeeps DEF UpdateFails, IInv, TypeOK
<1>2. CASE at.page # "task-list"
  BY <1>2, LoadedFits, LoadedKeeps DEF UpdateFails, IInv, TypeOK
<1> QED BY <1>1, <1>2

LEMMA UpdateEvidenceKeeps ==
    ASSUME IInv, UpdateEvidence
    PROVE  IInv'
<1>1. /\ Loaded \in Answers /\ Loaded # NoDraft /\ CheckAnswersComplete(Loaded)
      /\ draft' = Loaded /\ evidence' = Sent(Loaded) /\ at' = Place("task-list", Missing)
      /\ updates' = updates + 1
      /\ UNCHANGED <<answered, others, trail, stale>>
  BY LoadedFits, EvidenceAssumption DEF UpdateEvidence
<1>2. evidence' \in Evidence /\ evidence' # NoEvidence
  BY <1>1, SentTyped, DtoAssumption
<1>3. TypeOK'
  <2>1. at' \in Places
    BY <1>1 DEF Places, Place, ReturnTo, Maybe
  <2>2. updates' \in Nat
    BY <1>1 DEF IInv, TypeOK
  <2> QED BY <1>1, <1>2, <2>1, <2>2 DEF IInv, TypeOK
<1>4. ClearedBehind'
  BY <1>1, LoadedFits, SentCoherent DEF ClearedBehind
<1>5. evidence'.lists = IF Loaded.doYouHaveEvidence = "no" THEN NoLists ELSE Loaded.lists
  BY <1>1, SentFields
<1>6. Recorded(evidence)' = evidence'
  BY <1>2 DEF Recorded
<1>7. GroupsTogether'
  BY <1>1, <1>5, <1>6, LoadedFits, NoAnswersCoherent DEF GroupsTogether
<1>8. PlaceFits'
  BY <1>1 DEF PlaceFits, Arrives, Place
<1>9. DraftFollowsPages'
  <2>1. evidence'.exemptionCode \notin {Missing, "none"} => evidence'.lists = NoLists
    <3>1. CASE Loaded.doYouHaveEvidence = "no"
      BY <3>1, <1>5
    <3>2. CASE Loaded.doYouHaveEvidence # "no"
      BY <3>2, <1>1, SentFields
    <3> QED BY <3>1, <3>2
  <2>2. ASSUME NEW group \in Groups
        PROVE  /\ Loaded.doYouHaveEvidence = "no" =>
                     PageOf(group) \in answered \/ Loaded.lists[group] = Missing
               /\ \/ Loaded.lists[group] = evidence'.lists[group]
                  \/ PageOf(group) \in answered
    <3>1. NoLists[group] = Missing
      BY DEF NoLists
    <3> QED BY <3>1, <1>5, LoadedFits DEF Follows
  <2> QED BY <1>1, <1>6, <2>1, <2>2 DEF DraftFollowsPages
<1> QED BY <1>3, <1>4, <1>7, <1>8, <1>9 DEF IInv

LEMMA SessionEndsKeeps ==
    ASSUME IInv, SessionEnds
    PROVE  IInv'
<1>1. /\ draft' = NoDraft /\ at' = Place("task-list", Missing) /\ answered' = {}
      /\ stale' = FALSE /\ UNCHANGED <<evidence, updates, others, trail>>
  BY DEF SessionEnds
<1>2. TypeOK'
  <2>1. at' \in Places
    BY <1>1 DEF Places, Place, ReturnTo, Maybe
  <2> QED BY <1>1, <2>1 DEF IInv, TypeOK
<1> QED BY <1>1, <1>2 DEF IInv, ClearedBehind, GroupsTogether, PlaceFits, Place,
                          DraftFollowsPages, Recorded

\* What is stored by others is coherent, and reads as followed.
LEMMA SavedFits ==
    ASSUME NEW e \in Saved
    PROVE  /\ e \in Evidence \cup {NoEvidence}
           /\ Coherent(ToAnswers(e))
           /\ Together(Recorded(e).lists)
           /\ Recorded(e).exemptionCode \notin {Missing, "none"}
                 => Recorded(e).lists = NoLists
<1>1. e \in Evidence \cup {NoEvidence} /\ Coherent(ToAnswers(e))
  BY EvidenceAssumption
<1>2. CASE e = NoEvidence
  BY <1>1, <1>2, CoherentRecordTogether DEF Recorded, EmptyEvidence
<1>3. CASE e # NoEvidence
  BY <1>1, <1>3, CoherentRecordTogether DEF Recorded, ToAnswers, RecordedAnswers, Coherent
<1> QED BY <1>2, <1>3

LEMMA OtherUserUpdatesKeeps ==
    ASSUME IInv, OtherUserUpdates
    PROVE  IInv'
<1>1. /\ evidence' \in Saved /\ evidence' # NoEvidence /\ others' = others + 1
      /\ stale' = (draft # NoDraft)
      /\ UNCHANGED <<draft, at, answered, updates, trail>>
  BY DEF OtherUserUpdates
<1>2. /\ evidence' \in Evidence /\ Coherent(ToAnswers(evidence'))
      /\ Together(Recorded(evidence').lists)
      /\ Recorded(evidence').exemptionCode \notin {Missing, "none"}
            => Recorded(evidence').lists = NoLists
  BY <1>1, SavedFits
<1>3. TypeOK'
  BY <1>1, <1>2 DEF IInv, TypeOK
<1>4. ClearedBehind' /\ GroupsTogether'
  BY <1>1, <1>2 DEF IInv, ClearedBehind, GroupsTogether
<1>5. PlaceFits'
  BY <1>1 DEF IInv, PlaceFits
<1>6. DraftFollowsPages'
  BY <1>1, <1>2 DEF IInv, DraftFollowsPages
<1> QED BY <1>3, <1>4, <1>5, <1>6 DEF IInv

---------------------------------------------------------------------------
(* Theorems *)

LEMMA InitHolds ==
    ASSUME Init
    PROVE  IInv
<1>1. /\ evidence \in Saved /\ draft = NoDraft /\ at = Place("task-list", Missing)
      /\ answered = {} /\ updates = 0 /\ others = 0 /\ trail = "followed" /\ stale = FALSE
  BY DEF Init
<1>2. TypeOK
  <2>1. at \in Places
    BY <1>1 DEF Places, Place, ReturnTo, Maybe
  <2> QED BY <1>1, <2>1, SavedFits DEF TypeOK, Trails
<1> QED BY <1>1, <1>2, SavedFits DEF IInv, ClearedBehind, GroupsTogether, PlaceFits, Place,
                                     DraftFollowsPages

LEMMA StepKeeps ==
    ASSUME IInv, [Next]_vars
    PROVE  IInv'
<1>1. CASE UNCHANGED vars
  BY <1>1 DEF vars, IInv, TypeOK, ClearedBehind, GroupsTogether, PlaceFits,
              DraftFollowsPages, Recorded
<1>2. CASE Next
  BY <1>2, OpenKeeps, HaveEvidenceKeeps, ReasonForNoEvidenceKeeps, EvidenceOfIncomeKeeps,
     HaveEvidenceOfExpenditureKeeps, EvidenceOfExpenditureKeeps,
     HaveEvidenceOfCapitalKeeps, EvidenceOfCapitalKeeps, UpdateEvidenceKeeps,
     UpdateFailsKeeps, SessionEndsKeeps, OtherUserUpdatesKeeps DEF Next
<1> QED BY <1>1, <1>2

\* Whatever pages are submitted, and whatever other users record: no answer of a
\* branch that was left stays behind, and the draft differs from the record only
\* where a page was submitted.
THEOREM Invariance == Spec => []IInv
BY InitHolds, StepKeeps, PTL DEF Spec

\* Who goes where the pages lead finds check-answers complete, whatever is ticked
\* and however often answers are changed.
THEOREM FollowedCompletes == Spec => []FollowedIsComplete
<1>1. IInv => FollowedIsComplete
  <2> SUFFICES ASSUME IInv, trail = "followed", at.page = "check-answers"
               PROVE  CheckAnswersComplete(draft)
    BY DEF FollowedIsComplete
  <2> QED BY DEF IInv, PlaceFits, Place, Arrives
<1> QED BY <1>1, Invariance, PTL

\* Without another user's update, an update changes what was answered.
THEOREM OnlyAnsweredHolds == Spec => OnlyAnsweredChanges
<1>1. IInv => UpdateChangesAnswered
  <2> SUFFICES ASSUME IInv, UpdateEvidence, ~stale, NEW group \in Groups
               PROVE  \/ evidence'.lists[group] = Recorded(evidence).lists[group]
                      \/ PageOf(group) \in answered
                      \/ /\ evidence'.lists[group] = Missing
                         /\ DroppedOn(group) \cap answered # {}
    BY DEF UpdateChangesAnswered
  <2>1. evidence'.lists = IF Loaded.doYouHaveEvidence = "no" THEN NoLists ELSE Loaded.lists
    BY SentFields DEF UpdateEvidence
  <2>2. NoLists[group] = Missing
    BY DEF NoLists
  <2> QED BY <2>1, <2>2, LoadedFits DEF Follows
<1> QED BY <1>1, Invariance, PTL DEF OnlyAnsweredChanges

---------------------------------------------------------------------------
(* What an update records *)

\* Every item on a page has a label on check-answers.
LEMMA LabelsKnown ==
    /\ \A group \in IncomeEvidence : ItemsOf(group) \subseteq IncomeLabels
    /\ \A group \in ExpenditureEvidence : ItemsOf(group) \subseteq ExpenditureLabels
    /\ \A group \in CapitalEvidence : ItemsOf(group) \subseteq CapitalLabels
<1>1. \A group \in IncomeEvidence : IncomeItems[group] \subseteq IncomeLabels
  BY DEF IncomeEvidence, IncomeItems, IncomeLabels
<1>2. \A group \in ExpenditureEvidence : ExpenditureItems[group] \subseteq ExpenditureLabels
  BY DEF ExpenditureEvidence, ExpenditureItems, ExpenditureLabels
<1>3. \A group \in CapitalEvidence : CapitalItems[group] \subseteq CapitalLabels
  BY DEF CapitalEvidence, CapitalItems, CapitalLabels
<1> QED BY <1>1, <1>2, <1>3, GroupsApart DEF ItemsOf

LEMMA TickedLines ==
    ASSUME NEW lists, NEW groups
    PROVE  \A line : line \in Ticked(lists, groups) <=>
              \E group \in groups : /\ lists[group] # Missing
                                   /\ \E item \in lists[group] : line = <<group, item>>
BY DEF Ticked

\* The lines of lists are those with a label, when the labels cover the items.
LEMMA TickedLabelled ==
    ASSUME NEW lists \in Lists, NEW groups, groups \subseteq Groups, NEW known,
           \A group \in groups : ItemsOf(group) \subseteq known
    PROVE  {line \in Ticked(lists, groups) : line[2] \in known} = Ticked(lists, groups)
<1>1. \A line \in Ticked(lists, groups) : line[2] \in known
  <2> SUFFICES ASSUME NEW group \in groups, lists[group] # Missing,
                      NEW item \in lists[group]
               PROVE  <<group, item>>[2] \in known
    BY TickedLines
  <2>1. lists[group] \subseteq ItemsOf(group)
    BY ListsTyped
  <2> QED BY <2>1
<1> QED BY <1>1

LEMMA TickedOrNot ==
    ASSUME NEW lists \in Lists, NEW groups, groups \subseteq Groups
    PROVE  /\ Ticked(lists, groups) # {} <=> SomeTicked(lists, groups)
           /\ (\A group \in groups : lists[group] = Missing) => Ticked(lists, groups) = {}
           /\ Ticked(NoLists, groups) = {}
<1>1. \A group \in groups : NoLists[group] = Missing
  BY DEF NoLists
<1>2. Ticked(lists, groups) # {} => SomeTicked(lists, groups)
  BY TickedLines DEF SomeTicked
<1>3. SomeTicked(lists, groups) => Ticked(lists, groups) # {}
  <2> SUFFICES ASSUME NEW group \in groups, lists[group] \notin {Missing, {}}
               PROVE  Ticked(lists, groups) # {}
    BY DEF SomeTicked
  <2>1. lists[group] \subseteq Items
    BY ListsTyped, Offered
  <2>2. PICK item : item \in lists[group]
    BY <2>1
  <2>3. <<group, item>> \in Ticked(lists, groups)
    BY <2>2, TickedLines
  <2> QED BY <2>3
<1> QED BY <1>1, <1>2, <1>3, TickedLines

\* An update is made of complete answers without anything left behind.
LEMMA UpdateBegins ==
    ASSUME IInv, UpdateEvidence, trail # "strayed"
    PROVE  /\ Loaded \in Answers /\ Loaded.lists \in Lists
           /\ Coherent(Loaded) /\ Together(Loaded.lists)
           /\ CheckAnswersComplete(Loaded) /\ Loaded.doYouHaveEvidence \in YesNo
           /\ evidence' = Sent(Loaded)
BY LoadedFits, AnswersTyped, CompleteKinds, CompletedFields DEF UpdateEvidence

\* What is ticked of a kind goes with the answer about it.
LEMMA KindTicked ==
    ASSUME NEW answers \in Answers, Coherent(answers), CheckAnswersComplete(answers)
    PROVE  /\ answers.haveEvidenceOfExpenditure = "yes"
                 <=> Ticked(answers.lists, ExpenditureEvidence) # {}
           /\ answers.haveEvidenceOfCapital = "yes"
                 <=> Ticked(answers.lists, CapitalEvidence) # {}
           /\ answers.doYouHaveEvidence = "yes"
                 <=> Ticked(answers.lists, IncomeEvidence) # {}
<1>1. answers.lists \in Lists
  BY AnswersTyped
<1>2. /\ IncomeEvidence \subseteq Groups /\ ExpenditureEvidence \subseteq Groups
      /\ CapitalEvidence \subseteq Groups
  BY DEF Groups
<1>3. \A groups : (groups \subseteq Groups) =>
         (Ticked(answers.lists, groups) # {} <=> SomeTicked(answers.lists, groups))
  BY <1>1, TickedOrNot
<1>4. answers.doYouHaveEvidence # "yes" => ~SomeTicked(answers.lists, IncomeEvidence)
  BY <1>2 DEF Coherent, SomeTicked, NoLists
<1>5. answers.haveEvidenceOfExpenditure # "yes"
         => ~SomeTicked(answers.lists, ExpenditureEvidence)
  BY DEF Coherent, SomeTicked
<1>6. answers.haveEvidenceOfCapital # "yes" => ~SomeTicked(answers.lists, CapitalEvidence)
  BY DEF Coherent, SomeTicked
<1> QED BY <1>2, <1>3, <1>4, <1>5, <1>6, CompleteKinds, CompletedFields

\* The values of the rows, one by one.
LEMMA ShownRows ==
    ASSUME NEW answers \in Answers
    PROVE  /\ Shown(answers).doYouHaveEvidence
                 = IF answers.doYouHaveEvidence = "yes" THEN "yes" ELSE "no"
           /\ Shown(answers).reasonForNoEvidence = answers.reasonForNoEvidence
           /\ Shown(answers).moreDetailsForNoEvidence = answers.moreDetailsForNoEvidence
           /\ Shown(answers).incomeEvidence = Ticked(answers.lists, IncomeEvidence)
           /\ Shown(answers).haveEvidenceOfExpenditure
                 = IF answers.haveEvidenceOfExpenditure = "yes" THEN "yes" ELSE "no"
           /\ Shown(answers).expenditureEvidence = Ticked(answers.lists, ExpenditureEvidence)
           /\ Shown(answers).haveEvidenceOfCapital
                 = IF answers.haveEvidenceOfCapital = "yes" THEN "yes" ELSE "no"
           /\ Shown(answers).capitalEvidence = Ticked(answers.lists, CapitalEvidence)
<1>1. answers.lists \in Lists
  BY AnswersTyped
<1>2. /\ IncomeEvidence \subseteq Groups /\ ExpenditureEvidence \subseteq Groups
      /\ CapitalEvidence \subseteq Groups
  BY DEF Groups
<1>3. /\ {line \in Ticked(answers.lists, IncomeEvidence) : line[2] \in IncomeLabels}
            = Ticked(answers.lists, IncomeEvidence)
      /\ {line \in Ticked(answers.lists, ExpenditureEvidence) : line[2] \in ExpenditureLabels}
            = Ticked(answers.lists, ExpenditureEvidence)
      /\ {line \in Ticked(answers.lists, CapitalEvidence) : line[2] \in CapitalLabels}
            = Ticked(answers.lists, CapitalEvidence)
  BY <1>1, <1>2, LabelsKnown, TickedLabelled
<1> QED BY <1>3 DEF Shown

\* An update records what check-answers showed, and nothing else.
THEOREM SavedHolds == Spec => SavedAsShown
<1>1. ASSUME IInv, UpdateEvidence, trail # "strayed", NEW row \in Rows
      PROVE  IF Visible(Loaded)[row]
             THEN RecordShown(evidence')[row] = Shown(Loaded)[row]
             ELSE RecordShown(evidence')[row] = RecordShown(EmptyEvidence)[row]
  <2>1. /\ Loaded \in Answers /\ Loaded.lists \in Lists
        /\ Coherent(Loaded) /\ CheckAnswersComplete(Loaded)
        /\ Loaded.doYouHaveEvidence \in YesNo /\ evidence' = Sent(Loaded)
    BY <1>1, UpdateBegins
  <2>2. /\ IncomeEvidence \subseteq Groups /\ ExpenditureEvidence \subseteq Groups
        /\ CapitalEvidence \subseteq Groups
    BY DEF Groups
  <2>3. /\ Ticked(NoLists, IncomeEvidence) = {} /\ Ticked(NoLists, ExpenditureEvidence) = {}
        /\ Ticked(NoLists, CapitalEvidence) = {}
    BY <2>1, <2>2, TickedOrNot
  <2>4. RecordShown(EmptyEvidence) =
           [doYouHaveEvidence |-> "no", reasonForNoEvidence |-> Missing,
            moreDetailsForNoEvidence |-> Missing, incomeEvidence |-> {},
            haveEvidenceOfExpenditure |-> "no", expenditureEvidence |-> {},
            haveEvidenceOfCapital |-> "no", capitalEvidence |-> {}]
    BY <2>3 DEF RecordShown, EmptyEvidence
  <2>5. CASE Loaded.doYouHaveEvidence = "no"
    <3>1. RecordShown(evidence') =
             [doYouHaveEvidence |-> "no",
              reasonForNoEvidence |-> Loaded.reasonForNoEvidence,
              moreDetailsForNoEvidence |-> Loaded.moreDetailsForNoEvidence,
              incomeEvidence |-> {},
              haveEvidenceOfExpenditure |-> "no", expenditureEvidence |-> {},
              haveEvidenceOfCapital |-> "no", capitalEvidence |-> {}]
      <4>1. evidence' = [exemptionCode |-> Loaded.reasonForNoEvidence,
                         exemptionReason |-> Loaded.moreDetailsForNoEvidence,
                         hasChecklists |-> FALSE, lists |-> NoLists]
        BY <2>1, <2>5, SentFields
      <4> QED BY <2>3, <4>1 DEF RecordShown
    <3>2. Loaded.haveEvidenceOfExpenditure # "yes" /\ Loaded.haveEvidenceOfCapital # "yes"
      BY <2>1, <2>5 DEF Coherent
    <3>3. CASE row = "doYouHaveEvidence"
      BY <2>1, <2>4, <2>5, <3>1, <3>2, <3>3, VisibleRows, ShownRows
    <3>4. CASE row = "reasonForNoEvidence"
      BY <2>1, <2>4, <2>5, <3>1, <3>2, <3>4, VisibleRows, ShownRows
    <3>5. CASE row = "moreDetailsForNoEvidence"
      BY <2>1, <2>4, <2>5, <3>1, <3>2, <3>5, VisibleRows, ShownRows
    <3>6. CASE row = "incomeEvidence"
      BY <2>1, <2>4, <2>5, <3>1, <3>2, <3>6, VisibleRows, ShownRows
    <3>7. CASE row = "haveEvidenceOfExpenditure"
      BY <2>1, <2>4, <2>5, <3>1, <3>2, <3>7, VisibleRows, ShownRows
    <3>8. CASE row = "expenditureEvidence"
      BY <2>1, <2>4, <2>5, <3>1, <3>2, <3>8, VisibleRows, ShownRows
    <3>9. CASE row = "haveEvidenceOfCapital"
      BY <2>1, <2>4, <2>5, <3>1, <3>2, <3>9, VisibleRows, ShownRows
    <3>10. CASE row = "capitalEvidence"
      BY <2>1, <2>4, <2>5, <3>1, <3>2, <3>10, VisibleRows, ShownRows
    <3> QED BY <3>3, <3>4, <3>5, <3>6, <3>7, <3>8, <3>9, <3>10 DEF Rows
  <2>6. CASE Loaded.doYouHaveEvidence = "yes"
    <3>1. RecordShown(evidence') =
             [doYouHaveEvidence |-> "yes",
              reasonForNoEvidence |-> Missing, moreDetailsForNoEvidence |-> Missing,
              incomeEvidence |-> Ticked(Loaded.lists, IncomeEvidence),
              haveEvidenceOfExpenditure |->
                 IF Ticked(Loaded.lists, ExpenditureEvidence) = {} THEN "no" ELSE "yes",
              expenditureEvidence |-> Ticked(Loaded.lists, ExpenditureEvidence),
              haveEvidenceOfCapital |->
                 IF Ticked(Loaded.lists, CapitalEvidence) = {} THEN "no" ELSE "yes",
              capitalEvidence |-> Ticked(Loaded.lists, CapitalEvidence)]
      BY <2>1, <2>6, SentFields DEF RecordShown
    <3>2. /\ Loaded.haveEvidenceOfExpenditure = "yes"
                <=> Ticked(Loaded.lists, ExpenditureEvidence) # {}
          /\ Loaded.haveEvidenceOfCapital = "yes"
                <=> Ticked(Loaded.lists, CapitalEvidence) # {}
      BY <2>1, KindTicked
    <3>3. CASE row = "doYouHaveEvidence"
      BY <2>1, <2>4, <2>6, <3>1, <3>2, <3>3, VisibleRows, ShownRows
    <3>4. CASE row = "reasonForNoEvidence"
      BY <2>1, <2>4, <2>6, <3>1, <3>2, <3>4, VisibleRows, ShownRows
    <3>5. CASE row = "moreDetailsForNoEvidence"
      BY <2>1, <2>4, <2>6, <3>1, <3>2, <3>5, VisibleRows, ShownRows
    <3>6. CASE row = "incomeEvidence"
      BY <2>1, <2>4, <2>6, <3>1, <3>2, <3>6, VisibleRows, ShownRows
    <3>7. CASE row = "haveEvidenceOfExpenditure"
      BY <2>1, <2>4, <2>6, <3>1, <3>2, <3>7, VisibleRows, ShownRows
    <3>8. CASE row = "expenditureEvidence"
      BY <2>1, <2>4, <2>6, <3>1, <3>2, <3>8, VisibleRows, ShownRows
    <3>9. CASE row = "haveEvidenceOfCapital"
      BY <2>1, <2>4, <2>6, <3>1, <3>2, <3>9, VisibleRows, ShownRows
    <3>10. CASE row = "capitalEvidence"
      BY <2>1, <2>4, <2>6, <3>1, <3>2, <3>10, VisibleRows, ShownRows
    <3> QED BY <3>3, <3>4, <3>5, <3>6, <3>7, <3>8, <3>9, <3>10 DEF Rows
  <2> QED BY <2>1, <2>5, <2>6 DEF YesNo
<1>2. IInv => UpdateRecordsShown
  BY <1>1 DEF UpdateRecordsShown
<1> QED BY <1>2, Invariance, PTL DEF SavedAsShown

\* What is read back of answers that were sent.
LEMMA SentAgain ==
    ASSUME NEW answers \in Answers, Coherent(answers), Together(answers.lists),
           CheckAnswersComplete(answers), answers.doYouHaveEvidence \in YesNo
    PROVE  LET again == ToAnswers(Sent(answers))
           IN /\ again \in Answers
              /\ again.doYouHaveEvidence = answers.doYouHaveEvidence
              /\ again.haveEvidenceOfExpenditure \in YesNo
              /\ again.haveEvidenceOfExpenditure = "yes"
                    <=> answers.haveEvidenceOfExpenditure = "yes"
              /\ again.haveEvidenceOfCapital \in YesNo
              /\ again.haveEvidenceOfCapital = "yes" <=> answers.haveEvidenceOfCapital = "yes"
              /\ again.lists = answers.lists
              /\ answers.doYouHaveEvidence = "no" =>
                    /\ again.reasonForNoEvidence = answers.reasonForNoEvidence
                    /\ again.moreDetailsForNoEvidence = answers.moreDetailsForNoEvidence
<1> DEFINE again == ToAnswers(Sent(answers))
<1>1. /\ Sent(answers) \in Evidence /\ again = RecordedAnswers(Sent(answers))
      /\ again \in Answers
  BY SentTyped, ToAnswersTyped, DtoAssumption DEF ToAnswers
<1>2. answers.lists = Sent(answers).lists
  BY SentFields DEF Coherent, YesNo
<1>3. again.lists = answers.lists
  BY <1>1, <1>2 DEF RecordedAnswers
<1>4. again.doYouHaveEvidence = IF Sent(answers).exemptionCode \notin {Missing, "none"}
                                THEN "no" ELSE "yes"
  BY <1>1 DEF RecordedAnswers
<1>5. answers.doYouHaveEvidence = "no" =>
         answers.reasonForNoEvidence \in ExemptionReasonCodes
  BY AnswersTyped, CompleteKinds, CompletedFields DEF Maybe
<1>6. again.doYouHaveEvidence = answers.doYouHaveEvidence
  BY <1>4, <1>5, SentFields, DtoAssumption DEF YesNo, ExemptionReasonCodes
<1>7. answers.doYouHaveEvidence = "no" =>
         /\ again.reasonForNoEvidence = answers.reasonForNoEvidence
         /\ again.moreDetailsForNoEvidence = answers.moreDetailsForNoEvidence
  BY <1>1, <1>5, SentFields DEF RecordedAnswers, Given, ExemptionReasonCodes
<1>8. /\ again.haveEvidenceOfExpenditure
            = IF \A group \in ExpenditureEvidence : answers.lists[group] # Missing
              THEN "yes" ELSE "no"
      /\ again.haveEvidenceOfCapital
            = IF \A group \in CapitalEvidence : answers.lists[group] # Missing
              THEN "yes" ELSE "no"
  BY <1>1, <1>2 DEF RecordedAnswers
<1>9. answers.haveEvidenceOfExpenditure = "yes"
         <=> \A group \in ExpenditureEvidence : answers.lists[group] # Missing
  <2>1. answers.haveEvidenceOfExpenditure = "yes" =>
           \E group \in ExpenditureEvidence : answers.lists[group] # Missing
    BY CompleteKinds, CompletedFields DEF SomeTicked
  <2>2. "childCare" \in ExpenditureEvidence
    BY DEF ExpenditureEvidence
  <2> QED BY <2>1, <2>2 DEF Together, Coherent
<1>10. answers.haveEvidenceOfCapital = "yes"
         <=> \A group \in CapitalEvidence : answers.lists[group] # Missing
  <2>1. answers.haveEvidenceOfCapital = "yes" =>
           \E group \in CapitalEvidence : answers.lists[group] # Missing
    BY CompleteKinds, CompletedFields DEF SomeTicked
  <2>2. "capital" \in CapitalEvidence /\ \A g, h \in CapitalEvidence : g = h
    BY DEF CapitalEvidence
  <2> QED BY <2>1, <2>2 DEF Coherent
<1> HIDE DEF again
<1>11. again.haveEvidenceOfExpenditure \in YesNo /\ again.haveEvidenceOfCapital \in YesNo
  BY <1>8 DEF YesNo
<1> QED BY <1>1, <1>3, <1>6, <1>7, <1>8, <1>9, <1>10, <1>11 DEF again

\* An updated application is opened again as it was shown.
THEOREM ReopensHolds == Spec => ReopensAsShown
<1>1. ASSUME IInv, UpdateEvidence, trail # "strayed"
      PROVE  LET again == ToAnswers(evidence')
             IN /\ Visible(again) = Visible(Loaded)
                /\ \A row \in Rows :
                      Visible(again)[row] => Shown(again)[row] = Shown(Loaded)[row]
                /\ CheckAnswersComplete(again)
                /\ EvidenceCompleted(evidence')
  <2> DEFINE again == ToAnswers(Sent(Loaded))
  <2>1. /\ Loaded \in Answers /\ Coherent(Loaded) /\ Together(Loaded.lists)
        /\ CheckAnswersComplete(Loaded) /\ Loaded.doYouHaveEvidence \in YesNo
        /\ evidence' = Sent(Loaded)
    BY <1>1, UpdateBegins
  <2>2. /\ again \in Answers
        /\ again.doYouHaveEvidence = Loaded.doYouHaveEvidence
        /\ again.haveEvidenceOfExpenditure \in YesNo
        /\ again.haveEvidenceOfExpenditure = "yes" <=> Loaded.haveEvidenceOfExpenditure = "yes"
        /\ again.haveEvidenceOfCapital \in YesNo
        /\ again.haveEvidenceOfCapital = "yes" <=> Loaded.haveEvidenceOfCapital = "yes"
        /\ again.lists = Loaded.lists
        /\ Loaded.doYouHaveEvidence = "no" =>
              /\ again.reasonForNoEvidence = Loaded.reasonForNoEvidence
              /\ again.moreDetailsForNoEvidence = Loaded.moreDetailsForNoEvidence
    BY <2>1, SentAgain
  <2> HIDE DEF again
  <2>3. Visible(again) = Visible(Loaded)
    BY <2>2, Zenon DEF Visible
  <2>4. \A row \in Rows : Visible(again)[row] => Shown(again)[row] = Shown(Loaded)[row]
    BY <2>1, <2>2, VisibleRows, ShownRows DEF Rows
  <2>5. CheckAnswersComplete(again)
    BY <2>1, <2>2, CompleteKinds, CompletedFields
  <2>6. EvidenceCompleted(evidence')
    <3>1. evidence' # NoEvidence
      BY <2>1, SentTyped, DtoAssumption
    <3>2. CASE Loaded.doYouHaveEvidence = "no"
      BY <2>1, <3>1, <3>2, SentFields, CompleteKinds, CompletedFields
         DEF EvidenceCompleted, Recorded
    <3>3. CASE Loaded.doYouHaveEvidence = "yes"
      BY <2>1, <3>1, <3>3, SentFields DEF EvidenceCompleted, Recorded
    <3> QED BY <2>1, <3>2, <3>3 DEF YesNo
  <2> QED BY <2>1, <2>3, <2>4, <2>5, <2>6 DEF again
<1>2. IInv => UpdateReopens
  BY <1>1 DEF UpdateReopens
<1> QED BY <1>2, Invariance, PTL DEF ReopensAsShown

=============================================================================
