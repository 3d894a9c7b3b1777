--------------------------- MODULE ApplicationDto ---------------------------
(***************************************************************************)
(* The answers of the client-and-case questions, the application they are   *)
(* saved as, and application.dto.ts between the two.                        *)
(*                                                                         *)
(* The fields of one form that are only ever set and cleared together are   *)
(* one value: the client's names and date of birth, a UK address with its   *)
(* country, an overseas address with its own.  A value that is undefined,   *)
(* null or empty is Missing.                                                *)
(***************************************************************************)

CONSTANTS
    Missing,
    Clients,
    NiNumbers,
    Reasons,            \* for a new case on the same matter, not blank
    EvidenceScopes,     \* the values of laspoEvidenceScope other than "none"
    UkAddresses,
    OsAddresses,        \* with a country of COUNTRY_NAMES
    UnlistedAddresses   \* with another text as country, not a two-letter one

YesNo == {"yes", "no"}
PriorLegalAid == {"no", "yesSameMatter", "yesDifferentMatter"}
FamilyLawClassification == {"private", "public"}
LaspoEvidenceScope == {"none"} \cup EvidenceScopes
Overseas == OsAddresses \cup UnlistedAddresses

ASSUME MissingAssumption ==
    /\ Missing \notin BOOLEAN
    /\ Missing \notin YesNo \cup PriorLegalAid \cup FamilyLawClassification
    /\ Missing \notin LaspoEvidenceScope \cup Reasons
    /\ Missing \notin Clients \cup NiNumbers \cup UkAddresses \cup Overseas

ASSUME AddressAssumption ==
    UkAddresses \cap Overseas = {} /\ OsAddresses \cap UnlistedAddresses = {}

Maybe(S) == S \cup {Missing}

\* CreateApplicationAnswers.
Answers ==
    [ecf : Maybe(YesNo),
     familyLawClassification : Maybe(FamilyLawClassification),
     needsAdviceOnMaintenance : Maybe(YesNo),
     needsProtectiveInjunction : Maybe(YesNo),
     laspoEvidenceScope : Maybe(LaspoEvidenceScope),
     careProceedingsStarted : Maybe(YesNo),
     careProceedingsParentalResponsibility : Maybe(YesNo),
     legalAidBefore : Maybe(PriorLegalAid),
     legalAidLast6Months : Maybe(YesNo),
     reasonForYes : Maybe(Reasons),
     client : Maybe(Clients),
     hasNINumber : Maybe(YesNo),
     niNumber : Maybe(NiNumbers),
     haveAHomeAddress : Maybe(YesNo),
     ukAddress : Maybe(UkAddresses),
     osAddress : Maybe(Overseas)]

\* What the API stores of them, the scoping questions with the rest;
\* legalAidLast6Months is not stored.  What is asked only of a reached branch is
\* Missing elsewhere, and in old applications anything may be.
Applications ==
    [ecfFlag : Maybe(BOOLEAN),
     priorLegalAid : Maybe(PriorLegalAid),
     familyLawClassification : Maybe(FamilyLawClassification),
     needsAdviceOnMaintenance : Maybe(BOOLEAN),
     needsProtectiveInjunction : Maybe(BOOLEAN),
     laspoEvidenceScope : Maybe(LaspoEvidenceScope),
     careProceedingsStarted : Maybe(BOOLEAN),
     careProceedingsParentalResponsibility : Maybe(BOOLEAN),
     reasonForReapplication : Maybe(Reasons),
     client : Clients,
     niNumber : Maybe(NiNumbers),
     hasFixedAddress : BOOLEAN,
     address : Maybe(UkAddresses \cup Overseas)]

Given(condition, value) == IF condition THEN value ELSE Missing

---------------------------------------------------------------------------
(* From an application to answers *)

YesOrNo(flag) == IF flag = TRUE THEN "yes" ELSE "no"

\* Variant: a flag that is FALSE counts as one that is not there.
AnswerToTruthy(flag) == Given(flag = TRUE, "yes")

\* A flag that is not there leaves its question unanswered.
AnswerTo(flag) == Given(flag # Missing, YesOrNo(flag))

\* toAnswers: only the questions on the saved branch are answered.
ToAnswers(application) ==
    LET private == application.familyLawClassification = "private"
        public == application.familyLawClassification = "public"
        noAdvice == private /\ application.needsAdviceOnMaintenance = FALSE
        noInjunction == noAdvice /\ application.needsProtectiveInjunction = FALSE
        proceedings == public /\ application.careProceedingsStarted = TRUE
        address == Given(application.hasFixedAddress, application.address)
    IN
    [ecf |-> AnswerTo(application.ecfFlag),
     familyLawClassification |-> application.familyLawClassification,
     needsAdviceOnMaintenance |->
        Given(private, AnswerTo(application.needsAdviceOnMaintenance)),
     needsProtectiveInjunction |->
        Given(noAdvice, AnswerTo(application.needsProtectiveInjunction)),
     laspoEvidenceScope |->
        Given(noInjunction,
              IF application.laspoEvidenceScope = Missing THEN "none"
              ELSE application.laspoEvidenceScope),
     careProceedingsStarted |->
        Given(public, AnswerTo(application.careProceedingsStarted)),
     careProceedingsParentalResponsibility |->
        Given(proceedings, YesOrNo(application.careProceedingsParentalResponsibility)),
     legalAidBefore |-> application.priorLegalAid,
     legalAidLast6Months |->
        YesOrNo(/\ application.priorLegalAid = "yesSameMatter"
                /\ application.reasonForReapplication # Missing),
     reasonForYes |-> application.reasonForReapplication,
     client |-> application.client,
     hasNINumber |-> YesOrNo(application.niNumber # Missing),
     niNumber |-> application.niNumber,
     haveAHomeAddress |-> YesOrNo(application.hasFixedAddress),
     ukAddress |-> Given(address \in UkAddresses, address),
     osAddress |-> Given(address \in Overseas, address)]

---------------------------------------------------------------------------
(* From answers to an application *)

\* Answers.safeParse.
Parses(answers) ==
    /\ Missing \notin {answers.ecf, answers.familyLawClassification, answers.client,
                       answers.hasNINumber, answers.haveAHomeAddress, answers.legalAidBefore}
    /\ answers.haveAHomeAddress = "yes" =>
          answers.ukAddress # Missing \/ answers.osAddress # Missing

\* toRcwApi needs to know of recent legal aid on the same matter, and the reason.
Throws(answers) ==
    /\ answers.legalAidBefore = "yesSameMatter"
    /\ \/ answers.legalAidLast6Months = Missing
       \/ answers.legalAidLast6Months = "yes" /\ answers.reasonForYes = Missing

\* Variant: the number stays when the client turns out to have none.
NiNumberKept(answers) == answers.niNumber

NiNumberOf(answers) == Given(answers.hasNINumber = "yes", answers.niNumber)

\* fromAnswers and toDetailsRequest.
Details(answers) ==
    LET private == answers.familyLawClassification = "private"
        recent == /\ answers.legalAidBefore = "yesSameMatter"
                  /\ answers.legalAidLast6Months = "yes"
        advice == answers.needsAdviceOnMaintenance = "yes"
        injunction == answers.needsProtectiveInjunction = "yes"
        proceedings == answers.careProceedingsStarted = "yes"
        address == IF answers.ukAddress # Missing THEN answers.ukAddress
                   ELSE answers.osAddress
    IN
    [ecfFlag |-> answers.ecf = "yes",
     priorLegalAid |-> answers.legalAidBefore,
     familyLawClassification |-> IF private THEN "private" ELSE "public",
     needsAdviceOnMaintenance |-> Given(private, advice),
     needsProtectiveInjunction |-> Given(private /\ ~advice, injunction),
     laspoEvidenceScope |->
        Given(private /\ ~advice /\ ~injunction,
              IF answers.laspoEvidenceScope = Missing THEN "none"
              ELSE answers.laspoEvidenceScope),
     careProceedingsStarted |-> Given(~private, proceedings),
     careProceedingsParentalResponsibility |->
        Given(~private /\ proceedings,
              answers.careProceedingsParentalResponsibility = "yes"),
     reasonForReapplication |-> Given(recent, answers.reasonForYes),
     client |-> answers.client,
     niNumber |-> NiNumberOf(answers),
     hasFixedAddress |-> answers.haveAHomeAddress = "yes",
     address |-> Given(answers.haveAHomeAddress = "yes", address)]

\* UpdateApplicationDetailsRequestBody.safeParse: every branch is answered as
\* far as it goes and no further, and a country is a two-letter code.
FitsSchema(details) ==
    LET private == details.familyLawClassification = "private"
        public == details.familyLawClassification = "public"
    IN
    /\ private \/ public
    /\ private <=> details.needsAdviceOnMaintenance # Missing
    /\ details.needsProtectiveInjunction # Missing =>
          details.needsAdviceOnMaintenance = FALSE
    /\ details.laspoEvidenceScope # Missing => details.needsProtectiveInjunction = FALSE
    /\ public <=> details.careProceedingsStarted # Missing
    /\ details.careProceedingsStarted = TRUE <=>
          details.careProceedingsParentalResponsibility # Missing
    /\ details.priorLegalAid \in PriorLegalAid
    /\ details.address \notin UnlistedAddresses

=============================================================================
