------------------------- MODULE EditAnswersProofs -------------------------
(***************************************************************************)
(* Proofs about EditAnswers: the inductive invariant IInv, and what it      *)
(* gives for every application, every draft and any number of pages and     *)
(* updates.                                                                 *)
(***************************************************************************)
EXTENDS EditAnswers, TLAPS

\* An application opens as answers, and never with two addresses.
LEMMA ToAnswersType ==
    ASSUME NEW app \in Applications
    PROVE  /\ ToAnswers(app) \in Answers
           /\ Missing \in {ToAnswers(app).ukAddress, ToAnswers(app).osAddress}
BY MissingAssumption, AddressAssumption
   DEF Applications, Answers, ToAnswers, Given, Maybe, AnswerTo, YesOrNo, YesNo,
       LaspoEvidenceScope, PriorLegalAid, FamilyLawClassification, Overseas

\* Answers that parse map to an application.
LEMMA DetailsType ==
    ASSUME NEW answers \in Answers, Parses(answers)
    PROVE  Details(answers) \in Applications
BY MissingAssumption
   DEF Applications, Answers, Details, NiNumberOf, Given, Maybe, YesNo, Parses,
       LaspoEvidenceScope, PriorLegalAid, FamilyLawClassification, Overseas

\* Under the invariant a request works on answers with one address at most.
LEMMA LoadedType ==
    ASSUME IInv
    PROVE  /\ Loaded \in Answers
           /\ Missing \in {Loaded.ukAddress, Loaded.osAddress}
           /\ \A field \in DOMAIN AskedOn :
                 \/ AskedOn[field] \in answered
                 \/ Loaded[field] \in {ToAnswers(application)[field], Missing}
<1>1. CASE draft = NoDraft
  BY <1>1, ToAnswersType DEF IInv, TypeOK, Loaded
<1>2. CASE draft # NoDraft
  BY <1>2 DEF IInv, TypeOK, Loaded, AddressLinkFits, AddressPage, DraftFollowsPages
<1>3. QED
  BY <1>1, <1>2

---------------------------------------------------------------------------
(* The invariant *)

\* What a submission has to leave behind, whatever page it is of: it sets the
\* fields its page asks for, and changes no other but by clearing it.
LEMMA SubmitKeepsInvariant ==
    ASSUME IInv, NEW page \in Pages, NEW after \in Answers,
           draft' = after, answered' = answered \cup {page},
           UNCHANGED <<application, updates>>,
           Missing \in {after.ukAddress, after.osAddress},
           \A field \in DOMAIN AskedOn :
              AskedOn[field] = page \/ after[field] \in {Loaded[field], Missing}
    PROVE  IInv'
<1>1. TypeOK'
  BY DEF IInv, TypeOK
<1>2. draft' = after /\ after # NoDraft
  BY EditAssumption
<1>3. AddressLinkFits'
  BY <1>2 DEF AddressLinkFits, AddressPage
<1>4. DraftFollowsPages'
  <2>1. SUFFICES ASSUME NEW field \in DOMAIN AskedOn, AskedOn[field] \notin answered'
                 PROVE  after[field] \in {ToAnswers(application)[field], Missing}
    BY <1>2, <2>1 DEF DraftFollowsPages
  <2>2. AskedOn[field] \notin answered /\ AskedOn[field] # page
    BY <2>1
  <2>3. Loaded[field] \in {ToAnswers(application)[field], Missing}
    BY <2>2, LoadedType
  <2>4. QED
    BY <2>2, <2>3
<1>5. QED
  BY <1>1, <1>3, <1>4 DEF IInv

\* A request that only loads the draft, or saves it as it was loaded.
LEMMA LoadKeepsInvariant ==
    ASSUME IInv, draft' = Loaded, UNCHANGED <<application, answered, updates>>
    PROVE  IInv'
<1>1. Loaded \in Answers /\ Loaded # NoDraft
  BY LoadedType, EditAssumption
<1>2. TypeOK'
  BY <1>1 DEF IInv, TypeOK
<1>3. AddressLinkFits'
  BY <1>1, LoadedType DEF AddressLinkFits, AddressPage
<1>4. DraftFollowsPages'
  BY <1>1, LoadedType DEF DraftFollowsPages
<1>5. QED
  BY <1>2, <1>3, <1>4 DEF IInv

\* No draft is kept at first.
LEMMA InitInvariant == Init => IInv
BY EditAssumption DEF Init, IInv, TypeOK, AddressLinkFits, DraftFollowsPages

\* Every page submits its own fields only, and an update maps to an application.
LEMMA NextInvariant == IInv /\ [Next]_vars => IInv'
<1> SUFFICES ASSUME IInv, [Next]_vars
             PROVE  IInv'
  OBVIOUS
<1>a. Loaded \in Answers /\ Missing \in {Loaded.ukAddress, Loaded.osAddress}
  BY LoadedType
<1>b. DOMAIN Loaded = DOMAIN AskedOn
  BY <1>a DEF Answers, AskedOn
<1>1. CASE Open
  BY <1>1, LoadKeepsInvariant DEF Open
<1>2. CASE Ecf
  <2>1. PICK answer \in YesNo :
           Submit("ecf",
                  [Loaded EXCEPT !.ecf = answer])
    BY <1>2 DEF Ecf
  <2> DEFINE after == [Loaded EXCEPT !.ecf = answer]
  <2>2. /\ draft' = after /\ answered' = answered \cup {"ecf"}
       /\ UNCHANGED <<application, updates>>
    BY <2>1 DEF Submit
  <2>3. answer \in Maybe(YesNo)
    BY <2>1 DEF Maybe
  <2>4. after \in Answers
    BY <1>a, <2>3, Zenon DEF Answers
  <2>5. Missing \in {after.ukAddress, after.osAddress}
    BY <1>a, <1>b DEF AskedOn
  <2>6. \A field \in DOMAIN AskedOn :
           \/ AskedOn[field] = "ecf"
           \/ after[field] \in {Loaded[field], Missing}
    BY <1>b DEF AskedOn
  <2>7. "ecf" \in Pages
    BY DEF Pages
  <2> HIDE DEF after
  <2>8. QED
    BY <2>2, <2>4, <2>5, <2>6, <2>7, SubmitKeepsInvariant
<1>3. CASE FamilyTypeOfCase
  <2>1. CASE Submit("family-type-of-case",
                   [Loaded EXCEPT !.familyLawClassification = "private"])
    <3> DEFINE after == [Loaded EXCEPT !.familyLawClassification = "private"]
    <3>1. /\ draft' = after /\ answered' = answered \cup {"family-type-of-case"}
         /\ UNCHANGED <<application, updates>>
      BY <2>1 DEF Submit
    <3>2. "private" \in Maybe(FamilyLawClassification)
      BY DEF Maybe, FamilyLawClassification
    <3>3. after \in Answers
      BY <1>a, <3>2, Zenon DEF Answers
    <3>4. Missing \in {after.ukAddress, after.osAddress}
      BY <1>a, <1>b DEF AskedOn
    <3>5. \A field \in DOMAIN AskedOn :
             \/ AskedOn[field] = "family-type-of-case"
             \/ after[field] \in {Loaded[field], Missing}
      BY <1>b DEF AskedOn
    <3>6. "family-type-of-case" \in Pages
      BY DEF Pages
    <3> HIDE DEF after
    <3>7. QED
      BY <3>1, <3>3, <3>4, <3>5, <3>6, SubmitKeepsInvariant
  <2>2. CASE Submit("family-type-of-case",
                   [Loaded EXCEPT !.familyLawClassification = "public",
                                  !.needsAdviceOnMaintenance = Missing])
    <3> DEFINE after == [Loaded EXCEPT !.familyLawClassification = "public",
                                      !.needsAdviceOnMaintenance = Missing]
    <3>1. /\ draft' = after /\ answered' = answered \cup {"family-type-of-case"}
         /\ UNCHANGED <<application, updates>>
      BY <2>2 DEF Submit
    <3>2. "public" \in Maybe(FamilyLawClassification) /\ Missing \in Maybe(YesNo)
      BY DEF Maybe, FamilyLawClassification
    <3>3. after \in Answers
      BY <1>a, <3>2, Zenon DEF Answers
    <3>4. Missing \in {after.ukAddress, after.osAddress}
      BY <1>a, <1>b DEF AskedOn
    <3>5. \A field \in DOMAIN AskedOn :
             \/ AskedOn[field] = "family-type-of-case"
             \/ after[field] \in {Loaded[field], Missing}
      <4>1. \A field \in {"familyLawClassification"} : AskedOn[field] = "family-type-of-case"
        BY DEF AskedOn
      <4>2. \A field \in DOMAIN AskedOn \ {"familyLawClassification"} :
               after[field] \in {Loaded[field], Missing}
        BY <1>b
      <4>3. QED
        BY <4>1, <4>2
    <3>6. "family-type-of-case" \in Pages
      BY DEF Pages
    <3> HIDE DEF after
    <3>7. QED
      BY <3>1, <3>3, <3>4, <3>5, <3>6, SubmitKeepsInvariant
  <2>3. QED
    BY <1>3, <2>1, <2>2 DEF FamilyTypeOfCase
<1>4. CASE InternationalMaintenanceAgreement
  <2>1. PICK answer \in YesNo :
           Submit("international-maintenance-agreement",
                  [Loaded EXCEPT !.needsAdviceOnMaintenance = answer])
    BY <1>4 DEF InternationalMaintenanceAgreement
  <2> DEFINE after == [Loaded EXCEPT !.needsAdviceOnMaintenance = answer]
  <2>2. /\ draft' = after /\ answered' = answered \cup {"international-maintenance-agreement"}
       /\ UNCHANGED <<application, updates>>
    BY <2>1 DEF Submit
  <2>3. answer \in Maybe(YesNo)
    BY <2>1 DEF Maybe
  <2>4. after \in Answers
    BY <1>a, <2>3, Zenon DEF Answers
  <2>5. Missing \in {after.ukAddress, after.osAddress}
    BY <1>a, <1>b DEF AskedOn
  <2>6. \A field \in DOMAIN AskedOn :
           \/ AskedOn[field] = "international-maintenance-agreement"
           \/ after[field] \in {Loaded[field], Missing}
    BY <1>b DEF AskedOn
  <2>7. "international-maintenance-agreement" \in Pages
    BY DEF Pages
  <2> HIDE DEF after
  <2>8. QED
    BY <2>2, <2>4, <2>5, <2>6, <2>7, SubmitKeepsInvariant
<1>5. CASE ProtectThemself
  <2>1. PICK answer \in YesNo :
           Submit("protect-themself",
                  [Loaded EXCEPT !.needsProtectiveInjunction = answer])
    BY <1>5 DEF ProtectThemself
  <2> DEFINE after == [Loaded EXCEPT !.needsProtectiveInjunction = answer]
  <2>2. /\ draft' = after /\ answered' = answered \cup {"protect-themself"}
       /\ UNCHANGED <<application, updates>>
    BY <2>1 DEF Submit
  <2>3. answer \in Maybe(YesNo)
    BY <2>1 DEF Maybe
  <2>4. after \in Answers
    BY <1>a, <2>3, Zenon DEF Answers
  <2>5. Missing \in {after.ukAddress, after.osAddress}
    BY <1>a, <1>b DEF AskedOn
  <2>6. \A field \in DOMAIN AskedOn :
           \/ AskedOn[field] = "protect-themself"
           \/ after[field] \in {Loaded[field], Missing}
    BY <1>b DEF AskedOn
  <2>7. "protect-themself" \in Pages
    BY DEF Pages
  <2> HIDE DEF after
  <2>8. QED
    BY <2>2, <2>4, <2>5, <2>6, <2>7, SubmitKeepsInvariant
<1>6. CASE ProveInScope
  <2>1. PICK scope \in LaspoEvidenceScope :
           Submit("prove-in-scope",
                  [Loaded EXCEPT !.laspoEvidenceScope = scope])
    BY <1>6 DEF ProveInScope
  <2> DEFINE after == [Loaded EXCEPT !.laspoEvidenceScope = scope]
  <2>2. /\ draft' = after /\ answered' = answered \cup {"prove-in-scope"}
       /\ UNCHANGED <<application, updates>>
    BY <2>1 DEF Submit
  <2>3. scope \in Maybe(LaspoEvidenceScope)
    BY <2>1 DEF Maybe
  <2>4. after \in Answers
    BY <1>a, <2>3, Zenon DEF Answers
  <2>5. Missing \in {after.ukAddress, after.osAddress}
    BY <1>a, <1>b DEF AskedOn
  <2>6. \A field \in DOMAIN AskedOn :
           \/ AskedOn[field] = "prove-in-scope"
           \/ after[field] \in {Loaded[field], Missing}
    BY <1>b DEF AskedOn
  <2>7. "prove-in-scope" \in Pages
    BY DEF Pages
  <2> HIDE DEF after
  <2>8. QED
    BY <2>2, <2>4, <2>5, <2>6, <2>7, SubmitKeepsInvariant
<1>7. CASE CareProceedings
  <2>1. PICK answer \in YesNo :
           Submit("care-proceedings",
                  [Loaded EXCEPT !.careProceedingsStarted = answer])
    BY <1>7 DEF CareProceedings
  <2> DEFINE after == [Loaded EXCEPT !.careProceedingsStarted = answer]
  <2>2. /\ draft' = after /\ answered' = answered \cup {"care-proceedings"}
       /\ UNCHANGED <<application, updates>>
    BY <2>1 DEF Submit
  <2>3. answer \in Maybe(YesNo)
    BY <2>1 DEF Maybe
  <2>4. after \in Answers
    BY <1>a, <2>3, Zenon DEF Answers
  <2>5. Missing \in {after.ukAddress, after.osAddress}
    BY <1>a, <1>b DEF AskedOn
  <2>6. \A field \in DOMAIN AskedOn :
           \/ AskedOn[field] = "care-proceedings"
           \/ after[field] \in {Loaded[field], Missing}
    BY <1>b DEF AskedOn
  <2>7. "care-proceedings" \in Pages
    BY DEF Pages
  <2> HIDE DEF after
  <2>8. QED
    BY <2>2, <2>4, <2>5, <2>6, <2>7, SubmitKeepsInvariant
<1>8. CASE LegalAidBefore
  <2>1. CASE Submit("legal-aid-before",
                   [Loaded EXCEPT !.legalAidBefore = "yesSameMatter"])
    <3> DEFINE after == [Loaded EXCEPT !.legalAidBefore = "yesSameMatter"]
    <3>1. /\ draft' = after /\ answered' = answered \cup {"legal-aid-before"}
         /\ UNCHANGED <<application, updates>>
      BY <2>1 DEF Submit
    <3>2. "yesSameMatter" \in Maybe(PriorLegalAid)
      BY DEF Maybe, PriorLegalAid
    <3>3. after \in Answers
      BY <1>a, <3>2, Zenon DEF Answers
    <3>4. Missing \in {after.ukAddress, after.osAddress}
      BY <1>a, <1>b DEF AskedOn
    <3>5. \A field \in DOMAIN AskedOn :
             \/ AskedOn[field] = "legal-aid-before"
             \/ after[field] \in {Loaded[field], Missing}
      BY <1>b DEF AskedOn
    <3>6. "legal-aid-before" \in Pages
      BY DEF Pages
    <3> HIDE DEF after
    <3>7. QED
      BY <3>1, <3>3, <3>4, <3>5, <3>6, SubmitKeepsInvariant
  <2>2. CASE \E answer \in PriorLegalAid \ {"yesSameMatter"} :
                 Submit("legal-aid-before",
                        [Loaded EXCEPT !.legalAidBefore = answer,
                                       !.legalAidLast6Months = Missing,
                                       !.reasonForYes = Missing])
    <3>1. PICK answer \in PriorLegalAid \ {"yesSameMatter"} :
             Submit("legal-aid-before",
                    [Loaded EXCEPT !.legalAidBefore = answer,
                                   !.legalAidLast6Months = Missing,
                                   !.reasonForYes = Missing])
      BY <2>2
    <3> DEFINE after == [Loaded EXCEPT !.legalAidBefore = answer,
                                      !.legalAidLast6Months = Missing,
                                      !.reasonForYes = Missing]
    <3>2. /\ draft' = after /\ answered' = answered \cup {"legal-aid-before"}
         /\ UNCHANGED <<application, updates>>
      BY <3>1 DEF Submit
    <3>3. answer \in Maybe(PriorLegalAid) /\ Missing \in Maybe(YesNo)
         /\ Missing \in Maybe(Reasons)
      BY <3>1 DEF Maybe
    <3>4. after \in Answers
      BY <1>a, <3>3, Zenon DEF Answers
    <3>5. Missing \in {after.ukAddress, after.osAddress}
      BY <1>a, <1>b DEF AskedOn
    <3>6. \A field \in DOMAIN AskedOn :
             \/ AskedOn[field] = "legal-aid-before"
             \/ after[field] \in {Loaded[field], Missing}
      <4>1. \A field \in {"legalAidBefore"} : AskedOn[field] = "legal-aid-before"
        BY DEF AskedOn
      <4>2. \A field \in DOMAIN AskedOn \ {"legalAidBefore"} :
               after[field] \in {Loaded[field], Missing}
        BY <1>b
      <4>3. QED
        BY <4>1, <4>2
    <3>7. "legal-aid-before" \in Pages
      BY DEF Pages
    <3> HIDE DEF after
    <3>8. QED
      BY <3>2, <3>4, <3>5, <3>6, <3>7, SubmitKeepsInvariant
  <2>3. QED
    BY <1>8, <2>1, <2>2 DEF LegalAidBefore
<1>9. CASE LegalAidLast6Months
  <2>1. CASE Submit("legal-aid-last-6-months",
                   [Loaded EXCEPT !.legalAidLast6Months = "no",
                                  !.reasonForYes = Missing])
    <3> DEFINE after == [Loaded EXCEPT !.legalAidLast6Months = "no",
                                      !.reasonForYes = Missing]
    <3>1. /\ draft' = after /\ answered' = answered \cup {"legal-aid-last-6-months"}
         /\ UNCHANGED <<application, updates>>
      BY <2>1 DEF Submit
    <3>2. "no" \in Maybe(YesNo) /\ Missing \in Maybe(Reasons)
      BY DEF Maybe, YesNo
    <3>3. after \in Answers
      BY <1>a, <3>2, Zenon DEF Answers
    <3>4. Missing \in {after.ukAddress, after.osAddress}
      BY <1>a, <1>b DEF AskedOn
    <3>5. \A field \in DOMAIN AskedOn :
             \/ AskedOn[field] = "legal-aid-last-6-months"
             \/ after[field] \in {Loaded[field], Missing}
      <4>1. \A field \in {"legalAidLast6Months"} : AskedOn[field] = "legal-aid-last-6-months"
        BY DEF AskedOn
      <4>2. \A field \in DOMAIN AskedOn \ {"legalAidLast6Months"} :
               after[field] \in {Loaded[field], Missing}
        BY <1>b
      <4>3. QED
        BY <4>1, <4>2
    <3>6. "legal-aid-last-6-months" \in Pages
      BY DEF Pages
    <3> HIDE DEF after
    <3>7. QED
      BY <3>1, <3>3, <3>4, <3>5, <3>6, SubmitKeepsInvariant
  <2>2. CASE \E reason \in Reasons :
                 Submit("legal-aid-last-6-months",
                        [Loaded EXCEPT !.legalAidLast6Months = "yes",
                                       !.reasonForYes = reason])
    <3>1. PICK reason \in Reasons :
             Submit("legal-aid-last-6-months",
                    [Loaded EXCEPT !.legalAidLast6Months = "yes",
                                   !.reasonForYes = reason])
      BY <2>2
    <3> DEFINE after == [Loaded EXCEPT !.legalAidLast6Months = "yes",
                                      !.reasonForYes = reason]
    <3>2. /\ draft' = after /\ answered' = answered \cup {"legal-aid-last-6-months"}
         /\ UNCHANGED <<application, updates>>
      BY <3>1 DEF Submit
    <3>3. "yes" \in Maybe(YesNo) /\ reason \in Maybe(Reasons)
      BY <3>1 DEF Maybe, YesNo
    <3>4. after \in Answers
      BY <1>a, <3>3, Zenon DEF Answers
    <3>5. Missing \in {after.ukAddress, after.osAddress}
      BY <1>a, <1>b DEF AskedOn
    <3>6. \A field \in DOMAIN AskedOn :
             \/ AskedOn[field] = "legal-aid-last-6-months"
             \/ after[field] \in {Loaded[field], Missing}
      <4>1. \A field \in {"legalAidLast6Months", "reasonForYes"} : AskedOn[field] = "legal-aid-last-6-months"
        BY DEF AskedOn
      <4>2. \A field \in DOMAIN AskedOn \ {"legalAidLast6Months", "reasonForYes"} :
               after[field] \in {Loaded[field], Missing}
        BY <1>b
      <4>3. QED
        BY <4>1, <4>2
    <3>7. "legal-aid-last-6-months" \in Pages
      BY DEF Pages
    <3> HIDE DEF after
    <3>8. QED
      BY <3>2, <3>4, <3>5, <3>6, <3>7, SubmitKeepsInvariant
  <2>3. QED
    BY <1>9, <2>1, <2>2 DEF LegalAidLast6Months
<1>10. CASE ClientDetails
  <2>1. PICK client \in Clients :
           Submit("client-details",
                  [Loaded EXCEPT !.client = client])
    BY <1>10 DEF ClientDetails
  <2> DEFINE after == [Loaded EXCEPT !.client = client]
  <2>2. /\ draft' = after /\ answered' = answered \cup {"client-details"}
       /\ UNCHANGED <<application, updates>>
    BY <2>1 DEF Submit
  <2>3. client \in Maybe(Clients)
    BY <2>1 DEF Maybe
  <2>4. after \in Answers
    BY <1>a, <2>3, Zenon DEF Answers
  <2>5. Missing \in {after.ukAddress, after.osAddress}
    BY <1>a, <1>b DEF AskedOn
  <2>6. \A field \in DOMAIN AskedOn :
           \/ AskedOn[field] = "client-details"
           \/ after[field] \in {Loaded[field], Missing}
    BY <1>b DEF AskedOn
  <2>7. "client-details" \in Pages
    BY DEF Pages
  <2> HIDE DEF after
  <2>8. QED
    BY <2>2, <2>4, <2>5, <2>6, <2>7, SubmitKeepsInvariant
<1>11. CASE NiNumber
  <2>1. CASE \E number \in {Loaded.niNumber, Missing} :
                 Submit("ni-number",
                        [Loaded EXCEPT !.hasNINumber = "no",
                                       !.niNumber = number])
    <3>1. PICK number \in {Loaded.niNumber, Missing} :
             Submit("ni-number",
                    [Loaded EXCEPT !.hasNINumber = "no",
                                   !.niNumber = number])
      BY <2>1
    <3> DEFINE after == [Loaded EXCEPT !.hasNINumber = "no",
                                      !.niNumber = number]
    <3>2. /\ draft' = after /\ answered' = answered \cup {"ni-number"}
         /\ UNCHANGED <<application, updates>>
      BY <3>1 DEF Submit
    <3>3. "no" \in Maybe(YesNo) /\ number \in Maybe(NiNumbers)
      BY <3>1, <1>a DEF Maybe, YesNo, Answers
    <3>4. after \in Answers
      BY <1>a, <3>3, Zenon DEF Answers
    <3>5. Missing \in {after.ukAddress, after.osAddress}
      BY <1>a, <1>b DEF AskedOn
    <3>6. \A field \in DOMAIN AskedOn :
             \/ AskedOn[field] = "ni-number"
             \/ after[field] \in {Loaded[field], Missing}
      <4>1. \A field \in {"hasNINumber", "niNumber"} : AskedOn[field] = "ni-number"
        BY DEF AskedOn
      <4>2. \A field \in DOMAIN AskedOn \ {"hasNINumber", "niNumber"} :
               after[field] \in {Loaded[field], Missing}
        BY <1>b
      <4>3. QED
        BY <4>1, <4>2
    <3>7. "ni-number" \in Pages
      BY DEF Pages
    <3> HIDE DEF after
    <3>8. QED
      BY <3>2, <3>4, <3>5, <3>6, <3>7, SubmitKeepsInvariant
  <2>2. CASE \E number \in NiNumbers :
                 Submit("ni-number",
                        [Loaded EXCEPT !.hasNINumber = "yes",
                                       !.niNumber = number])
    <3>1. PICK number \in NiNumbers :
             Submit("ni-number",
                    [Loaded EXCEPT !.hasNINumber = "yes",
                                   !.niNumber = number])
      BY <2>2
    <3> DEFINE after == [Loaded EXCEPT !.hasNINumber = "yes",
                                      !.niNumber = number]
    <3>2. /\ draft' = after /\ answered' = answered \cup {"ni-number"}
         /\ UNCHANGED <<application, updates>>
      BY <3>1 DEF Submit
    <3>3. "yes" \in Maybe(YesNo) /\ number \in Maybe(NiNumbers)
      BY <3>1 DEF Maybe, YesNo
    <3>4. after \in Answers
      BY <1>a, <3>3, Zenon DEF Answers
    <3>5. Missing \in {after.ukAddress, after.osAddress}
      BY <1>a, <1>b DEF AskedOn
    <3>6. \A field \in DOMAIN AskedOn :
             \/ AskedOn[field] = "ni-number"
             \/ after[field] \in {Loaded[field], Missing}
      <4>1. \A field \in {"hasNINumber", "niNumber"} : AskedOn[field] = "ni-number"
        BY DEF AskedOn
      <4>2. \A field \in DOMAIN AskedOn \ {"hasNINumber", "niNumber"} :
               after[field] \in {Loaded[field], Missing}
        BY <1>b
      <4>3. QED
        BY <4>1, <4>2
    <3>7. "ni-number" \in Pages
      BY DEF Pages
    <3> HIDE DEF after
    <3>8. QED
      BY <3>2, <3>4, <3>5, <3>6, <3>7, SubmitKeepsInvariant
  <2>3. QED
    BY <1>11, <2>1, <2>2 DEF NiNumber
<1>12. CASE HaveAHomeAddress
  <2>1. CASE Submit("have-a-home-address",
                   [Loaded EXCEPT !.haveAHomeAddress = "no",
                                  !.ukAddress = Missing,
                                  !.osAddress = Missing])
    <3> DEFINE after == [Loaded EXCEPT !.haveAHomeAddress = "no",
                                      !.ukAddress = Missing,
                                      !.osAddress = Missing]
    <3>1. /\ draft' = after /\ answered' = answered \cup {"have-a-home-address"}
         /\ UNCHANGED <<application, updates>>
      BY <2>1 DEF Submit
    <3>2. "no" \in Maybe(YesNo) /\ Missing \in Maybe(UkAddresses)
         /\ Missing \in Maybe(Overseas)
      BY DEF Maybe, YesNo
    <3>3. after \in Answers
      BY <1>a, <3>2, Zenon DEF Answers
    <3>4. Missing \in {after.ukAddress, after.osAddress}
      BY <1>a, <1>b DEF AskedOn
    <3>5. \A field \in DOMAIN AskedOn :
             \/ AskedOn[field] = "have-a-home-address"
             \/ after[field] \in {Loaded[field], Missing}
      <4>1. \A field \in {"haveAHomeAddress"} : AskedOn[field] = "have-a-home-address"
        BY DEF AskedOn
      <4>2. \A field \in DOMAIN AskedOn \ {"haveAHomeAddress"} :
               after[field] \in {Loaded[field], Missing}
        BY <1>b
      <4>3. QED
        BY <4>1, <4>2
    <3>6. "have-a-home-address" \in Pages
      BY DEF Pages
    <3> HIDE DEF after
    <3>7. QED
      BY <3>1, <3>3, <3>4, <3>5, <3>6, SubmitKeepsInvariant
  <2>2. CASE Submit("have-a-home-address",
                   [Loaded EXCEPT !.haveAHomeAddress = "yes"])
    <3> DEFINE after == [Loaded EXCEPT !.haveAHomeAddress = "yes"]
    <3>1. /\ draft' = after /\ answered' = answered \cup {"have-a-home-address"}
         /\ UNCHANGED <<application, updates>>
      BY <2>2 DEF Submit
    <3>2. "yes" \in Maybe(YesNo)
      BY DEF Maybe, YesNo
    <3>3. after \in Answers
      BY <1>a, <3>2, Zenon DEF Answers
    <3>4. Missing \in {after.ukAddress, after.osAddress}
      BY <1>a, <1>b DEF AskedOn
    <3>5. \A field \in DOMAIN AskedOn :
             \/ AskedOn[field] = "have-a-home-address"
             \/ after[field] \in {Loaded[field], Missing}
      BY <1>b DEF AskedOn
    <3>6. "have-a-home-address" \in Pages
      BY DEF Pages
    <3> HIDE DEF after
    <3>7. QED
      BY <3>1, <3>3, <3>4, <3>5, <3>6, SubmitKeepsInvariant
  <2>3. QED
    BY <1>12, <2>1, <2>2 DEF HaveAHomeAddress
<1>13. CASE EnterAddressManually
  <2>1. PICK address \in UkAddresses :
           Submit("enter-address-manually",
                  [Loaded EXCEPT !.ukAddress = address,
                                 !.osAddress = Missing])
    BY <1>13 DEF EnterAddressManually
  <2> DEFINE after == [Loaded EXCEPT !.ukAddress = address,
                                    !.osAddress = Missing]
  <2>2. /\ draft' = after /\ answered' = answered \cup {"enter-address-manually"}
       /\ UNCHANGED <<application, updates>>
    BY <2>1 DEF Submit
  <2>3. address \in Maybe(UkAddresses) /\ Missing \in Maybe(Overseas)
    BY <2>1 DEF Maybe
  <2>4. after \in Answers
    BY <1>a, <2>3, Zenon DEF Answers
  <2>5. Missing \in {after.ukAddress, after.osAddress}
    BY <1>a, <1>b DEF AskedOn
  <2>6. \A field \in DOMAIN AskedOn :
           \/ AskedOn[field] = "enter-address-manually"
           \/ after[field] \in {Loaded[field], Missing}
    <3>1. \A field \in {"ukAddress"} : AskedOn[field] = "enter-address-manually"
      BY DEF AskedOn
    <3>2. \A field \in DOMAIN AskedOn \ {"ukAddress"} :
             after[field] \in {Loaded[field], Missing}
      BY <1>b
    <3>3. QED
      BY <3>1, <3>2
  <2>7. "enter-address-manually" \in Pages
    BY DEF Pages
  <2> HIDE DEF after
  <2>8. QED
    BY <2>2, <2>4, <2>5, <2>6, <2>7, SubmitKeepsInvariant
<1>14. CASE EnterOverseasAddress
  <2>1. PICK address \in Overseas :
           Submit("enter-overseas-address",
                  [Loaded EXCEPT !.osAddress = address,
                                 !.ukAddress = Missing])
    BY <1>14 DEF EnterOverseasAddress
  <2> DEFINE after == [Loaded EXCEPT !.osAddress = address,
                                    !.ukAddress = Missing]
  <2>2. /\ draft' = after /\ answered' = answered \cup {"enter-overseas-address"}
       /\ UNCHANGED <<application, updates>>
    BY <2>1 DEF Submit
  <2>3. address \in Maybe(Overseas) /\ Missing \in Maybe(UkAddresses)
    BY <2>1 DEF Maybe
  <2>4. after \in Answers
    BY <1>a, <2>3, Zenon DEF Answers
  <2>5. Missing \in {after.ukAddress, after.osAddress}
    BY <1>a, <1>b DEF AskedOn
  <2>6. \A field \in DOMAIN AskedOn :
           \/ AskedOn[field] = "enter-overseas-address"
           \/ after[field] \in {Loaded[field], Missing}
    <3>1. \A field \in {"osAddress"} : AskedOn[field] = "enter-overseas-address"
      BY DEF AskedOn
    <3>2. \A field \in DOMAIN AskedOn \ {"osAddress"} :
             after[field] \in {Loaded[field], Missing}
      BY <1>b
    <3>3. QED
      BY <3>1, <3>2
  <2>7. "enter-overseas-address" \in Pages
    BY DEF Pages
  <2> HIDE DEF after
  <2>8. QED
    BY <2>2, <2>4, <2>5, <2>6, <2>7, SubmitKeepsInvariant
<1>15. CASE DropOut
  BY <1>15 DEF DropOut, IInv, TypeOK, AddressLinkFits, DraftFollowsPages
<1>16. CASE UpdateClientDetails
  <2>1. application' \in Applications
    BY <1>16, <1>a, DetailsType DEF UpdateClientDetails, Sendable
  <2>2. QED
    BY <1>16, <2>1
       DEF UpdateClientDetails, IInv, TypeOK, AddressLinkFits, DraftFollowsPages
<1>17. CASE UpdateFails
  BY <1>17, LoadKeepsInvariant DEF UpdateFails
<1>18. CASE UNCHANGED vars
  BY <1>18 DEF vars, IInv, TypeOK, AddressLinkFits, AddressPage, DraftFollowsPages
<1>19. QED
  BY <1>1, <1>2, <1>3, <1>4, <1>5, <1>6, <1>7, <1>8, <1>9,
     <1>10, <1>11, <1>12, <1>13, <1>14, <1>15, <1>16, <1>17, <1>18 DEF Next

\* IInv holds throughout, for any applications and any bounds: drafts and
\* applications keep their types, no draft holds two addresses, and no page
\* writes an answer that another one asks for.
THEOREM EditAnswersInvariance == Spec => []IInv
<1>1. Init => IInv
  BY InitInvariant
<1>2. IInv /\ [Next]_vars => IInv'
  BY NextInvariant
<1>3. QED
  BY <1>1, <1>2, PTL DEF Spec

---------------------------------------------------------------------------
(* What check-answers calls complete *)

\* Every row that the answers show is completed, hence so are these.
LEMMA CompletedRows ==
    ASSUME NEW answers, CheckAnswersComplete(answers)
    PROVE  /\ answers.ecf \in YesNo
           /\ answers.familyLawClassification \in FamilyLawClassification
           /\ answers.legalAidBefore \in PriorLegalAid
           /\ answers.client # Missing
           /\ answers.hasNINumber \in YesNo
           /\ answers.hasNINumber = "yes" => answers.niNumber # Missing
           /\ answers.haveAHomeAddress \in YesNo
           /\ answers.haveAHomeAddress = "yes"
                 => answers.ukAddress # Missing \/ answers.osAddress # Missing
           /\ answers.familyLawClassification = "public"
                 => answers.careProceedingsStarted \in YesNo
           /\ answers.familyLawClassification = "private"
                 => /\ answers.needsAdviceOnMaintenance \in YesNo
                    /\ answers.needsAdviceOnMaintenance = "no"
                          => /\ answers.needsProtectiveInjunction \in YesNo
                             /\ answers.needsProtectiveInjunction = "no"
                                   => answers.laspoEvidenceScope # Missing
           /\ answers.legalAidBefore = "yesSameMatter"
                 => /\ answers.legalAidLast6Months \in YesNo
                    /\ answers.legalAidLast6Months = "yes" => answers.reasonForYes # Missing
<1>1. \A row \in RowsOfAllCases : Completed(answers)[row]
  BY DEF CheckAnswersComplete, VisibleRows
<1>2. answers.ecf \in YesNo
  BY <1>1 DEF RowsOfAllCases, Completed
<1>3. answers.familyLawClassification \in FamilyLawClassification
  BY <1>1 DEF RowsOfAllCases, Completed
<1>4. answers.legalAidBefore \in PriorLegalAid
  BY <1>1 DEF RowsOfAllCases, Completed
<1>5. answers.client # Missing
  BY <1>1 DEF RowsOfAllCases, Completed
<1>6. /\ answers.hasNINumber \in YesNo
      /\ answers.hasNINumber = "yes" => answers.niNumber # Missing
  BY <1>1 DEF RowsOfAllCases, Completed, YesNo
<1>7. /\ answers.haveAHomeAddress \in YesNo
      /\ answers.haveAHomeAddress = "yes"
            => answers.ukAddress # Missing \/ answers.osAddress # Missing
  BY <1>1 DEF RowsOfAllCases, Completed
<1>8. ASSUME answers.familyLawClassification = "public"
      PROVE  answers.careProceedingsStarted \in YesNo
  <2>1. "careProceedingsStarted" \in VisibleRows(answers)
    BY <1>8 DEF VisibleRows
  <2>2. QED
    BY <2>1 DEF CheckAnswersComplete, Completed
<1>9. ASSUME answers.familyLawClassification = "private"
      PROVE  answers.needsAdviceOnMaintenance \in YesNo
  <2>1. "needsAdviceOnMaintenance" \in VisibleRows(answers)
    BY <1>9 DEF VisibleRows
  <2>2. QED
    BY <2>1 DEF CheckAnswersComplete, Completed
<1>10. ASSUME answers.familyLawClassification = "private",
              answers.needsAdviceOnMaintenance = "no"
       PROVE  answers.needsProtectiveInjunction \in YesNo
  <2>1. "needsProtectiveInjunction" \in VisibleRows(answers)
    BY <1>10 DEF VisibleRows
  <2>2. QED
    BY <2>1 DEF CheckAnswersComplete, Completed
<1>11. ASSUME answers.familyLawClassification = "private",
              answers.needsAdviceOnMaintenance = "no",
              answers.needsProtectiveInjunction = "no"
       PROVE  answers.laspoEvidenceScope # Missing
  <2>1. "laspoEvidenceScope" \in VisibleRows(answers)
    BY <1>11 DEF VisibleRows
  <2>2. QED
    BY <2>1 DEF CheckAnswersComplete, Completed
<1>12. ASSUME answers.legalAidBefore = "yesSameMatter"
       PROVE  answers.legalAidLast6Months \in YesNo
  <2>1. "legalAidLast6Months" \in VisibleRows(answers)
    BY <1>12 DEF VisibleRows
  <2>2. QED
    BY <2>1 DEF CheckAnswersComplete, Completed
<1>13. ASSUME answers.legalAidBefore = "yesSameMatter",
              answers.legalAidLast6Months = "yes"
       PROVE  answers.reasonForYes # Missing
  <2>1. "reasonForYes" \in VisibleRows(answers)
    BY <1>13 DEF VisibleRows
  <2>2. QED
    BY <2>1 DEF CheckAnswersComplete, Completed
<1>14. QED
  BY <1>2, <1>3, <1>4, <1>5, <1>6, <1>7, <1>8, <1>9, <1>10, <1>11, <1>12, <1>13

\* The three checks after check-answers' own, for any answers.
LEMMA CompleteAccepted ==
    ASSUME NEW answers \in Answers, CheckAnswersComplete(answers),
           answers.osAddress \notin UnlistedAddresses
    PROVE  Parses(answers) /\ ~Throws(answers) /\ FitsSchema(Details(answers))
<1>1. Parses(answers)
  BY CompletedRows, MissingAssumption DEF Parses, YesNo, PriorLegalAid, FamilyLawClassification
<1>2. ~Throws(answers)
  BY CompletedRows, MissingAssumption DEF Throws, YesNo
<1>3. FitsSchema(Details(answers))
  <2>1. answers.familyLawClassification \in {"private", "public"}
    BY CompletedRows DEF FamilyLawClassification
  <2>2. answers.legalAidBefore \in PriorLegalAid
    BY CompletedRows
  <2>3. Details(answers).address \notin UnlistedAddresses
    BY MissingAssumption, AddressAssumption DEF Details, Given, Overseas, Answers, Maybe
  <2>4. QED
    BY <2>1, <2>2, <2>3, MissingAssumption
       DEF FitsSchema, Details, Given, YesNo, LaspoEvidenceScope, PriorLegalAid, FamilyLawClassification
<1>4. QED
  BY <1>1, <1>2, <1>3

\* What check-answers calls complete passes the rules of Answers, toRcwApi and the
\* request's schema, whatever else the draft still holds.
THEOREM CompletenessIsEnough == Spec => []CompleteIsAccepted
<1>1. IInv => CompleteIsAccepted
  BY CompleteAccepted DEF IInv, TypeOK, CompleteIsAccepted
<1>2. QED
  BY <1>1, EditAnswersInvariance, PTL

---------------------------------------------------------------------------
(* What an update records *)

\* The rows of answers that are sent, and those not shown, as they are recorded.
LEMMA RecordedAsShown ==
    ASSUME NEW answers \in Answers, Sendable(answers)
    PROVE  /\ \A row \in VisibleRows(answers) :
                 Recorded(Details(answers))[row] = Shown(answers)[row]
           /\ \A row \in RowsOfSomeCases \ VisibleRows(answers) :
                 Recorded(Details(answers))[row] \in {Missing, "no"}
<1> DEFINE recorded == Recorded(Details(answers))
           shown == Shown(answers)
<1>a. CheckAnswersComplete(answers)
  BY DEF Sendable
<1>1. recorded.ecf = shown.ecf
  BY DEF Recorded, Details, Shown, YesOrNo
<1>2. recorded.familyLawClassification = shown.familyLawClassification
  BY <1>a, CompletedRows DEF Recorded, Details, Shown, FamilyLawClassification
<1>3. recorded.legalAidBefore = shown.legalAidBefore
  BY <1>a, CompletedRows, MissingAssumption
     DEF Recorded, Details, Shown, PriorLegalAid
<1>4. recorded.client = shown.client
  BY DEF Recorded, Details, Shown
<1>5. recorded.niNumber = shown.niNumber
  BY DEF Recorded, Details, Shown, NiNumberOf
<1>6. recorded.haveAHomeAddress = shown.haveAHomeAddress
  BY DEF Recorded, Details, Shown, YesOrNo
<1>7. recorded.address = shown.address
  BY DEF Recorded, Details, Shown
<1>8. IF "needsAdviceOnMaintenance" \in VisibleRows(answers)
      THEN recorded.needsAdviceOnMaintenance = shown.needsAdviceOnMaintenance
      ELSE recorded.needsAdviceOnMaintenance \in {Missing, "no"}
  <2>1. "needsAdviceOnMaintenance" \in VisibleRows(answers)
           <=> answers.familyLawClassification = "private"
    BY DEF VisibleRows, RowsOfAllCases
  <2>2. QED
    BY <2>1, MissingAssumption DEF Recorded, Details, Shown, YesOrNo, Given
<1>9. IF "needsProtectiveInjunction" \in VisibleRows(answers)
      THEN recorded.needsProtectiveInjunction = shown.needsProtectiveInjunction
      ELSE recorded.needsProtectiveInjunction \in {Missing, "no"}
  <2>1. "needsProtectiveInjunction" \in VisibleRows(answers)
           <=> /\ answers.familyLawClassification = "private"
               /\ answers.needsAdviceOnMaintenance = "no"
    BY DEF VisibleRows, RowsOfAllCases
  <2>2. QED
    BY <1>a, <2>1, CompletedRows, MissingAssumption
       DEF Recorded, Details, Shown, YesOrNo, Given, YesNo
<1>10. IF "laspoEvidenceScope" \in VisibleRows(answers)
       THEN recorded.laspoEvidenceScope = shown.laspoEvidenceScope
       ELSE recorded.laspoEvidenceScope \in {Missing, "no"}
  <2>1. "laspoEvidenceScope" \in VisibleRows(answers)
           <=> /\ answers.familyLawClassification = "private"
               /\ answers.needsAdviceOnMaintenance = "no"
               /\ answers.needsProtectiveInjunction = "no"
    BY DEF VisibleRows, RowsOfAllCases
  <2>2. QED
    BY <1>a, <2>1, CompletedRows, MissingAssumption
       DEF Recorded, Details, Shown, Given, YesNo
<1>11. IF "careProceedingsStarted" \in VisibleRows(answers)
       THEN recorded.careProceedingsStarted = shown.careProceedingsStarted
       ELSE recorded.careProceedingsStarted \in {Missing, "no"}
  <2>1. "careProceedingsStarted" \in VisibleRows(answers)
           <=> answers.familyLawClassification = "public"
    BY DEF VisibleRows, RowsOfAllCases
  <2>2. QED
    BY <1>a, <2>1, CompletedRows, MissingAssumption
       DEF Recorded, Details, Shown, YesOrNo, Given, FamilyLawClassification
<1>12. IF "legalAidLast6Months" \in VisibleRows(answers)
       THEN recorded.legalAidLast6Months = shown.legalAidLast6Months
       ELSE recorded.legalAidLast6Months \in {Missing, "no"}
  <2>1. "legalAidLast6Months" \in VisibleRows(answers)
           <=> answers.legalAidBefore = "yesSameMatter"
    BY DEF VisibleRows, RowsOfAllCases
  <2>2. QED
    BY <1>a, <2>1, CompletedRows, MissingAssumption
       DEF Recorded, Details, Shown, YesOrNo, Given, YesNo
<1>13. IF "reasonForYes" \in VisibleRows(answers)
       THEN recorded.reasonForYes = shown.reasonForYes
       ELSE recorded.reasonForYes \in {Missing, "no"}
  <2>1. "reasonForYes" \in VisibleRows(answers)
           <=> /\ answers.legalAidBefore = "yesSameMatter"
               /\ answers.legalAidLast6Months = "yes"
    BY DEF VisibleRows, RowsOfAllCases
  <2>2. QED
    BY <2>1 DEF Recorded, Details, Shown, Given
<1>14. VisibleRows(answers) \subseteq RowsOfAllCases \cup RowsOfSomeCases
  BY DEF VisibleRows, RowsOfSomeCases
<1>15. \A row \in RowsOfAllCases : recorded[row] = shown[row]
  BY <1>1, <1>2, <1>3, <1>4, <1>5, <1>6, <1>7 DEF RowsOfAllCases
<1>16. \A row \in RowsOfSomeCases :
          IF row \in VisibleRows(answers) THEN recorded[row] = shown[row]
          ELSE recorded[row] \in {Missing, "no"}
  <2> HIDE DEF recorded, shown
  <2>1. QED
    BY <1>8, <1>9, <1>10, <1>11, <1>12, <1>13 DEF RowsOfSomeCases
<1>17. QED
  BY <1>14, <1>15, <1>16

\* An update records every value check-answers showed, and no answer of a branch
\* that was left.
THEOREM UpdateIsWhatWasShown == Spec => SavedAsShown
<1>1. IInv => UpdateRecordsShown
  BY LoadedType, RecordedAsShown DEF UpdateRecordsShown, UpdateClientDetails
<1>2. QED
  BY <1>1, EditAnswersInvariance, PTL DEF Spec, SavedAsShown

\* Answers that are sent come back as they were, as far as their branch goes.
LEMMA ReopenedAnswers ==
    ASSUME NEW answers \in Answers, Sendable(answers),
           NEW again, again = ToAnswers(Details(answers))
    PROVE  /\ again.ecf = answers.ecf
           /\ again.familyLawClassification = answers.familyLawClassification
           /\ again.legalAidBefore = answers.legalAidBefore
           /\ again.client = answers.client
           /\ again.hasNINumber = answers.hasNINumber
           /\ again.niNumber = Given(answers.hasNINumber = "yes", answers.niNumber)
           /\ again.haveAHomeAddress = answers.haveAHomeAddress
           /\ answers.familyLawClassification = "private"
                 => /\ again.needsAdviceOnMaintenance = answers.needsAdviceOnMaintenance
                    /\ answers.needsAdviceOnMaintenance = "no"
                          => /\ again.needsProtectiveInjunction = answers.needsProtectiveInjunction
                             /\ answers.needsProtectiveInjunction = "no"
                                   => again.laspoEvidenceScope = answers.laspoEvidenceScope
           /\ answers.familyLawClassification = "public"
                 => again.careProceedingsStarted = answers.careProceedingsStarted
           /\ answers.legalAidBefore = "yesSameMatter"
                 => /\ again.legalAidLast6Months = answers.legalAidLast6Months
                    /\ answers.legalAidLast6Months = "yes"
                          => again.reasonForYes = answers.reasonForYes
           /\ answers.haveAHomeAddress = "yes"
                 => IF answers.ukAddress # Missing
                    THEN again.ukAddress = answers.ukAddress
                    ELSE again.ukAddress = Missing /\ again.osAddress = answers.osAddress
<1>a. CheckAnswersComplete(answers)
  BY DEF Sendable
<1>1. again.ecf = answers.ecf
  BY <1>a, CompletedRows, MissingAssumption
     DEF ToAnswers, Details, AnswerTo, YesOrNo, Given, YesNo
<1>2. again.familyLawClassification = answers.familyLawClassification
  BY <1>a, CompletedRows DEF ToAnswers, Details, FamilyLawClassification
<1>3. /\ again.legalAidBefore = answers.legalAidBefore
      /\ again.client = answers.client
  BY DEF ToAnswers, Details
<1>4. /\ again.hasNINumber = answers.hasNINumber
      /\ again.niNumber = Given(answers.hasNINumber = "yes", answers.niNumber)
  BY <1>a, CompletedRows DEF ToAnswers, Details, NiNumberOf, YesOrNo, Given, YesNo
<1>5. again.haveAHomeAddress = answers.haveAHomeAddress
  BY <1>a, CompletedRows DEF ToAnswers, Details, YesOrNo, YesNo
<1>6. ASSUME answers.familyLawClassification = "private"
      PROVE  again.needsAdviceOnMaintenance = answers.needsAdviceOnMaintenance
  BY <1>6, <1>a, CompletedRows, MissingAssumption
     DEF ToAnswers, Details, AnswerTo, YesOrNo, Given, YesNo
<1>7. ASSUME answers.familyLawClassification = "private",
             answers.needsAdviceOnMaintenance = "no"
      PROVE  again.needsProtectiveInjunction = answers.needsProtectiveInjunction
  BY <1>7, <1>a, CompletedRows, MissingAssumption
     DEF ToAnswers, Details, AnswerTo, YesOrNo, Given, YesNo
<1>8. ASSUME answers.familyLawClassification = "private",
             answers.needsAdviceOnMaintenance = "no",
             answers.needsProtectiveInjunction = "no"
      PROVE  again.laspoEvidenceScope = answers.laspoEvidenceScope
  BY <1>8, <1>a, CompletedRows, MissingAssumption DEF ToAnswers, Details, Given, YesNo
<1>9. ASSUME answers.familyLawClassification = "public"
      PROVE  again.careProceedingsStarted = answers.careProceedingsStarted
  BY <1>9, <1>a, CompletedRows, MissingAssumption
     DEF ToAnswers, Details, AnswerTo, YesOrNo, Given, YesNo
<1>10. ASSUME answers.legalAidBefore = "yesSameMatter"
       PROVE  /\ again.legalAidLast6Months = answers.legalAidLast6Months
              /\ answers.legalAidLast6Months = "yes"
                    => again.reasonForYes = answers.reasonForYes
  BY <1>10, <1>a, CompletedRows DEF ToAnswers, Details, YesOrNo, Given, YesNo
<1>11. ASSUME answers.haveAHomeAddress = "yes"
       PROVE  IF answers.ukAddress # Missing
              THEN again.ukAddress = answers.ukAddress
              ELSE again.ukAddress = Missing /\ again.osAddress = answers.osAddress
  <2>1. Details(answers).hasFixedAddress
    BY <1>11 DEF Details
  <2>2. Details(answers).address = IF answers.ukAddress # Missing THEN answers.ukAddress
                                   ELSE answers.osAddress
    BY <1>11 DEF Details, Given
  <2>3. /\ answers.ukAddress # Missing => answers.ukAddress \in UkAddresses
        /\ answers.osAddress # Missing => answers.osAddress \in Overseas
    BY DEF Answers, Maybe
  <2>4. answers.ukAddress # Missing \/ answers.osAddress # Missing
    BY <1>11, <1>a, CompletedRows
  <2>5. /\ again.ukAddress = Given(Details(answers).address \in UkAddresses, Details(answers).address)
        /\ again.osAddress = Given(Details(answers).address \in Overseas, Details(answers).address)
    BY <2>1 DEF ToAnswers, Given
  <2>6. QED
    BY <2>2, <2>3, <2>4, <2>5, AddressAssumption DEF Given
<1>12. QED
  BY <1>1, <1>2, <1>3, <1>4, <1>5, <1>6, <1>7, <1>8, <1>9, <1>10, <1>11

\* The rows and values that check-answers shows of them are the same.
LEMMA ReopenedAsShown ==
    ASSUME NEW answers \in Answers, Sendable(answers)
    PROVE  LET again == ToAnswers(Details(answers))
           IN /\ VisibleRows(again) = VisibleRows(answers)
              /\ \A row \in VisibleRows(again) : Shown(again)[row] = Shown(answers)[row]
              /\ CheckAnswersComplete(again)
<1> DEFINE again == ToAnswers(Details(answers))
<1>a. CheckAnswersComplete(answers)
  BY DEF Sendable
<1>b. /\ again.ecf = answers.ecf
      /\ again.familyLawClassification = answers.familyLawClassification
      /\ again.legalAidBefore = answers.legalAidBefore
      /\ again.client = answers.client
      /\ again.hasNINumber = answers.hasNINumber
      /\ again.niNumber = Given(answers.hasNINumber = "yes", answers.niNumber)
      /\ again.haveAHomeAddress = answers.haveAHomeAddress
  BY ReopenedAnswers
<1>c. answers.familyLawClassification = "private"
         => /\ again.needsAdviceOnMaintenance = answers.needsAdviceOnMaintenance
            /\ answers.needsAdviceOnMaintenance = "no"
                  => /\ again.needsProtectiveInjunction = answers.needsProtectiveInjunction
                     /\ answers.needsProtectiveInjunction = "no"
                           => again.laspoEvidenceScope = answers.laspoEvidenceScope
  BY ReopenedAnswers
<1>d. /\ answers.familyLawClassification = "public"
            => again.careProceedingsStarted = answers.careProceedingsStarted
      /\ answers.legalAidBefore = "yesSameMatter"
            => /\ again.legalAidLast6Months = answers.legalAidLast6Months
               /\ answers.legalAidLast6Months = "yes"
                     => again.reasonForYes = answers.reasonForYes
      /\ answers.haveAHomeAddress = "yes"
            => IF answers.ukAddress # Missing
               THEN again.ukAddress = answers.ukAddress
               ELSE again.ukAddress = Missing /\ again.osAddress = answers.osAddress
  BY ReopenedAnswers
<1> HIDE DEF again
<1>1. VisibleRows(again) = VisibleRows(answers)
  BY <1>b, <1>c, <1>d DEF VisibleRows
<1>2. ASSUME NEW row \in VisibleRows(answers)
      PROVE  Shown(again)[row] = Shown(answers)[row] /\ Completed(again)[row]
  <2>a. Completed(answers)[row]
    BY <1>a DEF CheckAnswersComplete
  <2>1. CASE row \in {"ecf", "familyLawClassification"}
    BY <2>a, <2>1, <1>b DEF Shown, Completed
  <2>2. CASE row \in {"legalAidBefore", "client"}
    BY <2>a, <2>2, <1>b DEF Shown, Completed
  <2>3. CASE row \in {"niNumber", "haveAHomeAddress"}
    BY <2>a, <2>3, <1>b DEF Shown, Completed, Given
  <2>4. CASE row = "address"
    BY <2>a, <2>4, <1>b, <1>d DEF Shown, Completed, Given
  <2>5. CASE row = "needsAdviceOnMaintenance"
    <3>1. answers.familyLawClassification = "private"
      BY <2>5 DEF VisibleRows, RowsOfAllCases
    <3>2. QED
      BY <2>a, <2>5, <3>1, <1>c DEF Shown, Completed
  <2>6. CASE row \in {"needsProtectiveInjunction"}
    <3>1. answers.familyLawClassification = "private" /\ answers.needsAdviceOnMaintenance = "no"
      BY <2>6 DEF VisibleRows, RowsOfAllCases
    <3>2. QED
      BY <2>a, <2>6, <3>1, <1>c DEF Shown, Completed
  <2>7. CASE row = "laspoEvidenceScope"
    <3>1. /\ answers.familyLawClassification = "private"
          /\ answers.needsAdviceOnMaintenance = "no"
          /\ answers.needsProtectiveInjunction = "no"
      BY <2>7 DEF VisibleRows, RowsOfAllCases
    <3>2. QED
      BY <2>a, <2>7, <3>1, <1>c DEF Shown, Completed
  <2>8. CASE row = "careProceedingsStarted"
    <3>1. answers.familyLawClassification = "public"
      BY <2>8 DEF VisibleRows, RowsOfAllCases
    <3>2. QED
      BY <2>a, <2>8, <3>1, <1>d DEF Shown, Completed
  <2>9. CASE row = "legalAidLast6Months"
    <3>1. answers.legalAidBefore = "yesSameMatter"
      BY <2>9 DEF VisibleRows, RowsOfAllCases
    <3>2. QED
      BY <2>a, <2>9, <3>1, <1>d DEF Shown, Completed
  <2>10. CASE row = "reasonForYes"
    <3>1. answers.legalAidBefore = "yesSameMatter" /\ answers.legalAidLast6Months = "yes"
      BY <2>10 DEF VisibleRows, RowsOfAllCases
    <3>2. QED
      BY <2>a, <2>10, <3>1, <1>d DEF Shown, Completed
  <2>11. QED
    BY <2>1, <2>2, <2>3, <2>4, <2>5, <2>6, <2>7, <2>8, <2>9, <2>10
       DEF VisibleRows, RowsOfAllCases
<1>3. CheckAnswersComplete(again)
  BY <1>1, <1>2 DEF CheckAnswersComplete
<1>4. QED
  BY <1>1, <1>2, <1>3 DEF again

\* An updated application opens with the rows and values it was updated with.
THEOREM UpdateReopensTheSame == Spec => ReopensAsShown
<1>1. IInv => UpdateReopens
  BY LoadedType, ReopenedAsShown DEF UpdateReopens, UpdateClientDetails
<1>2. QED
  BY <1>1, EditAnswersInvariance, PTL DEF Spec, ReopensAsShown

---------------------------------------------------------------------------
(* What an update changes *)

\* A field whose pages were not submitted keeps its value or loses it.
LEMMA ChangedWhenAnswered ==
    ASSUME IInv, Sendable(Loaded), NEW field \in DOMAIN PagesOf,
           PagesOf[field] \cap answered = {}
    PROVE  \/ Details(Loaded)[field] \in {application[field], Missing}
           \/ field = "laspoEvidenceScope" /\ application[field] = Missing
<1> DEFINE was == ToAnswers(application)
<1>a. Loaded \in Answers /\ application \in Applications
  BY LoadedType DEF IInv, TypeOK
<1>b. \A f \in DOMAIN AskedOn : AskedOn[f] \in answered \/ Loaded[f] \in {was[f], Missing}
  BY LoadedType
<1>c. CheckAnswersComplete(Loaded) /\ \A page \in PagesOf[field] : page \notin answered
  BY DEF Sendable
<1>1. CASE field = "ecfFlag"
  <2>1. Loaded.ecf \in {was.ecf, Missing}
    BY <1>b, <1>c, <1>1 DEF PagesOf, AskedOn
  <2>2. QED
    BY <1>1, <1>a, <1>c, <2>1, CompletedRows, MissingAssumption
       DEF Details, ToAnswers, AnswerTo, YesOrNo, Given, YesNo, Applications, Answers, Maybe
<1>2. CASE field = "priorLegalAid"
  <2>1. Loaded.legalAidBefore \in {was.legalAidBefore, Missing}
    BY <1>b, <1>c, <1>2 DEF PagesOf, AskedOn
  <2>2. QED
    BY <1>2, <1>a, <1>c, <2>1, CompletedRows, MissingAssumption
       DEF Details, ToAnswers, Given
<1>3. CASE field = "familyLawClassification"
  <2>1. Loaded.familyLawClassification \in {was.familyLawClassification, Missing}
    BY <1>b, <1>c, <1>3 DEF PagesOf, AskedOn
  <2>2. QED
    BY <1>3, <1>a, <1>c, <2>1, CompletedRows, MissingAssumption
       DEF Details, ToAnswers, FamilyLawClassification
<1>4. CASE field = "needsAdviceOnMaintenance"
  <2>1. Loaded.needsAdviceOnMaintenance \in {was.needsAdviceOnMaintenance, Missing}
    BY <1>b, <1>c, <1>4 DEF PagesOf, AskedOn
  <2>2. QED
    BY <1>4, <1>a, <1>c, <2>1, CompletedRows, MissingAssumption
       DEF Details, ToAnswers, AnswerTo, YesOrNo, Given, YesNo, Applications, Answers, Maybe
<1>5. CASE field = "needsProtectiveInjunction"
  <2>1. Loaded.needsProtectiveInjunction \in {was.needsProtectiveInjunction, Missing}
    BY <1>b, <1>c, <1>5 DEF PagesOf, AskedOn
  <2>2. QED
    BY <1>5, <1>a, <1>c, <2>1, CompletedRows, MissingAssumption
       DEF Details, ToAnswers, AnswerTo, YesOrNo, Given, YesNo, Applications, Answers, Maybe
<1>6. CASE field = "laspoEvidenceScope"
  <2>1. Loaded.laspoEvidenceScope \in {was.laspoEvidenceScope, Missing}
    BY <1>b, <1>c, <1>6 DEF PagesOf, AskedOn
  <2>2. QED
    BY <1>6, <1>a, <1>c, <2>1, CompletedRows, MissingAssumption
       DEF Details, ToAnswers, Given, YesNo
<1>7. CASE field = "careProceedingsStarted"
  <2>1. Loaded.careProceedingsStarted \in {was.careProceedingsStarted, Missing}
    BY <1>b, <1>c, <1>7 DEF PagesOf, AskedOn
  <2>2. QED
    BY <1>7, <1>a, <1>c, <2>1, CompletedRows, MissingAssumption
       DEF Details, ToAnswers, AnswerTo, YesOrNo, Given, YesNo, Applications, Answers, Maybe, FamilyLawClassification
<1>8. CASE field = "reasonForReapplication"
  <2>1. Loaded.reasonForYes \in {was.reasonForYes, Missing}
    BY <1>b, <1>c, <1>8 DEF PagesOf, AskedOn
  <2>2. QED
    BY <1>8, <1>a, <1>c, <2>1, CompletedRows, MissingAssumption
       DEF Details, ToAnswers, Given
<1>9. CASE field = "client"
  <2>1. Loaded.client \in {was.client, Missing}
    BY <1>b, <1>c, <1>9 DEF PagesOf, AskedOn
  <2>2. QED
    BY <1>9, <1>a, <1>c, <2>1, CompletedRows, MissingAssumption
       DEF Details, ToAnswers, Given
<1>10. CASE field = "niNumber"
  <2>1. Loaded.niNumber \in {was.niNumber, Missing}
    BY <1>b, <1>c, <1>10 DEF PagesOf, AskedOn
  <2>2. QED
    BY <1>10, <2>1 DEF Details, ToAnswers, NiNumberOf, Given
<1>11. CASE field = "hasFixedAddress"
  <2>1. Loaded.haveAHomeAddress \in {was.haveAHomeAddress, Missing}
    BY <1>b, <1>c, <1>11 DEF PagesOf, AskedOn
  <2>2. QED
    BY <1>11, <1>a, <1>c, <2>1, CompletedRows, MissingAssumption
       DEF Details, ToAnswers, YesOrNo, YesNo, Applications
<1>12. CASE field = "address"
  <2>1. /\ Loaded.haveAHomeAddress \in {was.haveAHomeAddress, Missing}
        /\ Loaded.ukAddress \in {was.ukAddress, Missing}
        /\ Loaded.osAddress \in {was.osAddress, Missing}
    BY <1>b, <1>c, <1>12 DEF PagesOf, AskedOn
  <2>2. was.ukAddress \in {application.address, Missing}
    BY DEF ToAnswers, Given
  <2>3. was.osAddress \in {application.address, Missing}
    BY DEF ToAnswers, Given
  <2>4. QED
    BY <1>12, <2>1, <2>2, <2>3 DEF Details, Given
<1>13. QED
  BY <1>1, <1>2, <1>3, <1>4, <1>5, <1>6, <1>7, <1>8, <1>9, <1>10, <1>11, <1>12 DEF PagesOf

\* An update changes only what the user was asked on a page submitted since the
\* draft was loaded, or drops it with its branch.
THEOREM UpdateChangesOnlyAnswered == Spec => OnlyAnsweredChanges
<1>1. IInv => UpdateChangesAnswered
  BY ChangedWhenAnswered DEF UpdateChangesAnswered, UpdateClientDetails
<1>2. QED
  BY <1>1, EditAnswersInvariance, PTL DEF Spec, OnlyAnsweredChanges

=============================================================================
