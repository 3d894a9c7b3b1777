# LAA Record Controlled Work: a TLA+ model of the service

The repository is an Express application (TypeScript, in `src/src`) with which
legal-aid providers record controlled work. It keeps its state in three places
that many requests, tabs, users and pods share without locks:

* the **express session**, read when a request begins and written back whole when
  its response ends (`express-session` with `connect-redis`);
* **Redis keys** of its own: one auth-code-flow record per session, and one MSAL
  token cache per session, each with an absolute expiry;
* the **application** record, held by the RCW API and versioned with an ETag.

Almost every hazard of this code is a read of one of these before an `await` and a
write based on it afterwards. The models follow that grain: a step is one call to
Redis, to the session store or to the API, with what the handler does with the
answer; whatever runs between two awaits is one step.

Paths below are relative to the repository root (`src/...` in `PROJECT.json` is the
repository's root, so `auth.handlers.ts` is `src/src/auth/auth.handlers.ts` there).

## Inventory

### 1. Auth code flow store (`auth/authCodeFlow`)

State: at most one record per express session: `pending` or `ready`, a reservation
id, a deadline and, once ready, the auth state with the PKCE request. Operations:
`reserve`, `publish`, `authorizeRedirect`, `consume`, `abandon`; a process-local map
or Lua scripts on Redis. Correct when a flow is handed out once, only to a callback
of its own session with its own state, before its deadline, and never after a newer
sign-in of that session.

### 2. Sign-in and callback (`auth/auth.handlers.ts`)

`prepareSignInFlow` drives the store through reserve, Entra, publish, save session,
authorize, and abandons on failure; `authCodeCallback` consumes. Hard: two tabs,
duplicate and late callbacks, a lost answer of a script that ran, restarts. Correct
when racing sign-ins do not cancel one another and failures leave nothing behind.

### 3. Session lifecycle, `requireAuth`, token cache, sign-out

State: `account`, `authenticatedAt`, `lastActivityAt` in the session, the deadline of
the cache's key in Redis. `requireAuth` checks the two timeouts (30 minutes idle, 12
hours absolute), renews the session, moves the cache's deadline, refreshes an expired
token, and ends a session that has timed out. The MSAL plugin stores the cache under
the deadline it was given, or under the one the key has. Sign-out destroys the session
and deletes the cache. The callback takes a fresh session id and destroys the old one.
Hard: everything above overlaps, and session copies are written back late. Correct when
nobody is let in past a timeout, no tokens are kept past one, active users keep theirs,
and what has ended stays ended.

### 4. Journeys (`journeys/*`, on the form framework `@ministryofjustice/hmpps-forge`)

Each journey collects answers in `session.journeyDrafts` and hands them to the API.

* *edit client details*: the draft is loaded from the application with its ETag pinned,
  and the update carries it in `If-Match`. Its pages can be entered in any order, so
  answers of a branch that was left stay in the draft. Correct when the update records
  what check-answers showed, changes nothing else, and is not refused once check-answers
  calls the answers complete.
* *evidence*: seven pages with lists of checkboxes, each with its redirects and the
  clearing of a branch that is left; an update without a version, from a draft that is
  loaded once in a session and kept. Correct when it records what check-answers showed,
  and whoever goes where the pages lead is not stuck on an incomplete check-answers.
* *create application*: `POST` with no key of its own; the draft is cleared after a 201.
* *declaration*: drafted per case, submitted without a version, the draft is kept.
* *task list*: a chain of statuses computed from the application when it is shown;
  submission with a constant eTag, closing of an ineligible case with the ETag that was
  shown.
* *select office*: offices from the claims of the account, one of them in the session;
  losing the claim clears the office and every draft (`destroySessionOffice`).
* *your cases*, *view application*: read-only.

Correct, taken together, when a submitted case has all its sections, a declaration is of
the case it was signed for, answers are not lost, a draft becomes one case, and cases are
created for and exported from offices the user still has.

### 5. Eligibility API, export, DTO mappings, infrastructure

The eligibility API loads and stores the answers and result of the means calculator
(CCQ, in the browser), and derives the client's age range from the date of birth. The
export shows, from what was saved, the answers that belong to the route of the
assessment, its outcome and its totals; CCQ keeps answers of routes that were left, so
the export has to tell them apart. The DTOs are pure mappings; the Redis client, middleware, logging, views, metrics and the
generated API clients are infrastructure.

`PROJECT.json` lists the components with their status and the hazards with their lines.

## The modules

| Module | What it is |
|---|---|
| `AuthFlowStore` | the record operators of `flow.record.ts` and each store operation as the map it leaves and the answer it gives, for both backends |
| `SignIn` | `prepareSignInFlow` and the flow part of `authCodeCallback`, as steps over `AuthFlowStore`; properties and inductive invariant |
| `OneTimeFlow` | abstract specification: what the store promises, with no store in it |
| `SignInRefinement` | the proof that `SignIn` implements `OneTimeFlow` |
| `SignInProofs` | the proofs of `SignIn`'s safety and action properties |
| `AuthSession` | `requireAuth`, refresh, downstream tokens, the end of the callback, sign-out, session and token-cache expiry |
| `SessionPromise` | abstract specification: what a signed-in session promises its user, with no copies, requests or calls in it |
| `AuthSessionProofs` | the proofs about `AuthSession`, the refinement of `SessionPromise` included |
| `EditClientDetails` | the edit-client-details journey over last-writer-wins sessions and the API's version check |
| `EditClientDetailsProofs` | the proofs about `EditClientDetails` |
| `ApplicationDto` | `application.dto.ts`: an application as answers, answers as an application, and the three checks on the way |
| `EditAnswers` | the questions of the edit-client-details journey: submissions, what check-answers shows and demands, what an update records |
| `EditAnswersProofs` | the proofs about `EditAnswers` |
| `EvidenceDto` | `evidence.dto.ts`: every item that can be ticked, the record, and the mapping of each to the other |
| `EvidenceAnswers` | the evidence journey: submissions, redirects, `returnTo`, check-answers, updates, other users |
| `EvidenceAnswersProofs` | the proofs about `EvidenceAnswers` |
| `MeansExport` | the export's means section: which card shows which saved answer, the calculations, the totals |
| `MeansAssessment` | `/eligibility`: CCQ's load and save over days, edited dates of birth and answers changed later |
| `MeansAssessmentProofs` | the proofs about `MeansAssessment` |
| `CaseRecord` | a session from the choice of an office to submitted cases: offices, create draft, declarations, sections, task list, submission, closing, export |
| `CaseRecordProofs` | the proofs about `CaseRecord` |
| `MCSignIn`, `MCAuthSession`, `MCEditClientDetails`, `MCCaseRecord` | symmetry sets and the claims a token may make |
| `MCEditAnswers`, `MCEvidenceAnswers`, `MCMeansAssessment` | the recorded cases, ticks, journeys, dates and responses TLC starts from |

Each `...Answers` module EXTENDS its mapping (`ApplicationDto`, `EvidenceDto`) and
`MeansAssessment` EXTENDS `MeansExport`, whose operators it applies to what was saved.
`CaseRecord` composes what `EditClientDetails`, `EvidenceAnswers` and `MeansAssessment`
model one by one, with each section reduced to what the others and the task list see of
it.

Operators named "Variant" in a comment are not part of a specification: each is a
plausible slip in the definition below it, and `PROJECT.json` names the property that
TLC finds violated with it.

### From code to model

**`SignIn`.** `attempt[a].pc` is the `await` at which the sign-in request `a` stands:
`prepare` (reserved), `save` (published), `authorize` (session saved), `abandon` (in the
catch block); its results are `redirected`, `cleaned` and `failed`. Reservation ids and
auth states are random UUIDs, so each is named by the one request that makes it. A Redis
call is *replied*, *refused* (nothing ran) or *lost* (it ran, the caller sees an error):
`runRedis` maps the last two to the same error. The memory store cannot fail, but a
restart empties it. A callback may come under any session and with any state that was
ever handed out, any number of times; its record keeps the state it carried and the flow
it was handed, so that the properties can tell the two apart. `newest` is history: the
last reservation of each session.

**`AuthSession`.** `request[r]` is a server slot with the copy of the session it works
on; `pc` names the `await` it stands at, `expiresAt` the deadline its MSAL plugin was
given. `RequireAuth` is everything up to the first Redis call; `ExtendCache` is
`setMsalCacheExpiry`; `AcceptToken`, `StartRefresh`/`Refresh` and `Throws` are the token
and office checks; `AcquireDownstreamToken`, `ReadCacheExpiry`, `StoreCache` are a
handler's `acquireDownstreamAccessToken` through the plugin, which reads the key's own
deadline with `PEXPIRETIME` and stores the cache with it in a second call; `SaveSession`
is `express-session` at the end of the response, `DestroySession` and
`DeleteMsalCache` the end of a session, `RegenerateSession` to
`PersistAuthenticatedSession` the end of the callback. Office claims, the account's
contents and the tokens themselves are left out: they only decide between going on,
turning away and losing the account, and the model allows all three. `born`, `seen`,
`disturbed` and `phase` are history, for stating properties.

**`SessionPromise`.** The same life without requests, copies or calls: a session is
`fresh`, `open` or `over`, was signed in (`born`) and last used (`seen`) at some time, and
has tokens until some time. `AuthSession` implements it (`KeepsPromise`) with the deadline
of the cache's key as `tokens`, `disturbed` as `troubled` and its `phase` as `status`:
letting a request in is `Enter`, every store, extension or loss of the cache is a `Keep`,
an end that is complete with no other request of the session in flight is an `End` (of one
with others in flight the session is troubled, and the finding `AuthSignOut` shows that it
may not be over), and what happens between is a stutter or a `Fail`.
Of a troubled session (whose requests overlapped, or one of whose calls failed) the
limits are promised and the tokens are not.

**`EditClientDetails`.** A request reads the session (`Begin`), awaits `loadApplication`,
runs the journey's effects on its copy, awaits the update when it submits, and writes the
copy back. Details are the set of edits they take into account, so that "undone" is a
set inclusion. The API's check of `If-Match`, and other writes to the application, are
modelled from how the code uses them and marked external.

**`ApplicationDto`, `EditAnswers`.** These are about the contents that
`EditClientDetails` leaves out, and leave out what it is about: one user, one
application, no stale version. `draft` is the journey's entry in
`session.journeyDrafts`, `application` what the API holds; there is one action per page,
the effects of its submission (`clearFieldAnswers` and `saveDraftAnswers`) in one step.
The fields of one form are one value: the client's names and birth date, an address with
its country. `undefined`, `null` and `""` are `Missing`; a reason is trimmed and not
blank. `ToAnswers` and `Details` are `toAnswers` and `fromAnswers` with
`toDetailsRequest`; `Parses`, `Throws` and `FitsSchema` are the Zod rules of the answers,
`getRequiredReasonForReapplication` and the Zod schema of the request, with the branches
it distinguishes. `VisibleRows`, `Completed` and `Shown` are the `visibleWhen`,
`completeWhen` and formatters of check-answers. The API is taken to store the request's
fields as they are, but not `legalAidLast6Months`, which an application does not have.
Eleven pages can be entered directly; the UK address page is reached with
`returnTo=check-answers` whatever was answered, the overseas one only with a home
address. Whether the form library keeps the NI number of a client who has none is left
open. `answered` and `updates` are history.

**`EvidenceDto`, `EvidenceAnswers`.** `draft` is the journey's entry in
`session.journeyDrafts`, `evidence` what the API holds, `at` where the service's last
answer has led: a page with its `returnTo`. There is one action per page: the clearing,
the saving and the first redirect that matches, in one step. A ticked item is its name,
in the group it is saved under; a group nobody ticked anything of is saved as an empty
list. `Visible`, `Completed`, `CheckAnswersComplete` and `Shown` are the `visibleWhen`,
`completeWhen` and labels of check-answers. The journey checks nowhere that a page can be
reached; `trail` tells users who go where they are led, users who take any page that
applies, and users who submit a page of a branch that was left. `Straying` admits the
last kind, and the properties say of it what the code promises. `SessionEnds` and
`OtherUserUpdates` are what happens around the journey.

**`MeansExport`, `MeansAssessment`.** A field is whose answer it is and what it asks.
Each `...Rows` operator is a question card with the controls of
`answers.selections.ts`; an amount is only shown, so that one value stands for all, and
of the additional properties two are modelled. `Category`, `Calculations` and `Totals`
are `calculations.mapper.ts` and `totals` with CFE's categories reduced to the results of
the proceeding types, the total and the unlimited threshold. `Days` is a short sequence
of dates; the age range is computed as the code does it, by the day of the year that
`Date.UTC` makes of a birthday, 29 February included. CCQ is external: it completes a
journey, changes an answer and keeps the others, and saves with any response.

**`CaseRecord`.** `request[r]` is a request with its copy of the session, loaded by
`Begin` (which is `requireAuth` with the office claims of a token that may have been
refreshed) and stored by `Save`, over whatever was stored in between. An answer joins the
one create draft, a number; `CreateApplication` makes it a case, answered or with its
answer lost, and `Look` is every request that changes nothing or is refused.
`SubmitSignedDeclaration`, `UpdateMeans`, `UpdateEvidence`, `SubmitApplication` and
`CloseIneligibleCase` are updates of one record at the API, by anybody, in any order;
`page` is a task list the user has open, with the buttons it had when it was shown. That
the API refuses updates of a completed case, and closing with an ETag that is not
current, is external; the model does not count on the latter. `discarded`, `lost`,
`overlapped` and `signed` are history.

## Runs

| Run | Question | Bounds, and why they are enough |
|---|---|---|
| `SignInRedis` | one-time flows, supersession, losses, cleanup, refinement with every Redis fault; racing sign-ins do not all lose | 2 sign-ins and 2 callbacks in 2 sessions, lifetime 2, clock to 3: two reservations in one session or one each, a duplicate callback, expiry before and after every step; no symmetry, since it checks liveness |
| `SignInMemory` | the invariant and the losses for the process-local store, with its sweep and restarts (the refinement is proved for both stores) | 3 sign-ins, so that a third one sweeps while two race |
| `AuthSession` | timeouts, token lifetimes, and the refinement of `SessionPromise` | 2 requests at a time in one session, each slot reused; idle 2, absolute 5, clock to 7: two renewals before the absolute deadline and time left past it. A second session id multiplies the states beyond use; the proofs are for any number of them |
| `AuthSignOut` | is there a session after sign-out? (finding) | 2 requests in 1 session |
| `EditClientDetails` | lost updates and lost edits | 2 providers, 3 requests of every kind, version to 2 |
| `EditAnswers` | what an edit shows, sends and changes | 5 recorded cases (both branches, one from before the scoping questions, one with answers off its branch, one without its scope), one value or two of each answer; up to 4 different pages, each any number of times: enough to leave a branch and fill another (three questions deep) before the update |
| `EditMissingScope` | is a scope made up? (finding) | the same with 1 page |
| `EvidenceAnswers` | what an update of evidence shows, sends and changes; do the pages lead to a complete check-answers? | 4 records (none, full, exempt, and the one of a unit test), two selections of ticks; up to 5 of the 7 pages, one update before further answers, one update of another user: enough to answer a branch, return by a change link, and leave it |
| `EvidenceLeftBranch` | is anything sent of a "no"? (finding) | 2 pages, with straying |
| `MeansAssessment` | resuming, the age range, and what the export shows | 5 journeys, then any one answer changed to anything, which reaches every route; 2 dates of birth (29 February and 1 March), 2 days (28 February and 1 March of a year that is not a leap year: under 18 and 18, 59 and 60); 3 responses, two of them without a calculation |
| `ExportStaleIncome` | does a hidden answer decide what shows? (finding) | the same |
| `CaseRecord` | sections, declarations, drafts and offices under overlapping requests | 2 requests at a time, 4 in all, 2 cases, one draft, begun at first or not, one result (ineligible, so that a case with means can be submitted or closed), 2 offices of which none, one or both are claimed: a double submit, a declaration signed for one case and submitted for another, a request in flight over another's creation, a refresh that takes the office away |

Clocks are bounded by `MaxTime` and `Days`, versions by `MaxVersion`, requests by
`MaxRequests`, drafts by `MaxDrafts`; `Served` bounds the kinds of request in an instance;
`MaxPages`, `MaxUpdates`, `MaxOthers` and `MaxChanges` bound the pages answered, the
updates taken and the answers changed. Deadlock checking is off where the clock, the
requests, the cases or the session ids of an instance run out, which is no deadlock of
the server; it is on in the others.

**Fairness.** Only `SignInRedis` assumes any (`FairSpec`): weak fairness of each
sign-in's own steps (`ServerStep`). Node runs a handler on once its await is answered,
and every awaited call here answers or fails (Redis commands and Entra's request have
timeouts or fail with their connection). Users, callbacks, the clock, expiry and restarts
are under no obligation.

### What the runs show

* A flow is handed out at most once, only to a callback of its own session with its own
  state, only while it is the newest; it is lost only to a newer sign-in, such a callback,
  the failure of its own request, its deadline or a restart; racing sign-ins do not all lose. Its life goes from unused over reserved and
  published to consumed or dead, and never back.
* However requests overlap, nobody is let in past a timeout counted from the sign-in and
  from the last request that was let in, and no token cache is kept past either.
* While requests of a session do not overlap and no step of it fails (`disturbed`), an
  active user is not timed out and has tokens for as long as the session lasts. Both
  fail without that condition, by design of the session store: a slow request may write
  an older `lastActivityAt` over a newer one, and an extension that reaches Redis after
  the cache's old deadline finds nothing to extend.
* A session ended with no other request in flight stays ended, and so do its tokens.
* All this together is what `SessionPromise` says, and every interleaving of the handlers
  is one of its behaviours.
* An update of the client's details never undoes an edit its author has not seen, and
  edits that were saved stay in the draft until the API has taken them.
* An update records the values check-answers showed, row by row, and no answer of a
  branch that was left, however the user went about; opened again, the application shows
  the same; and nothing changes that was not asked since the draft was loaded.
* What check-answers calls complete, the mapping and the request's schema accept. The
  exception is an overseas country that is not in the list: it is kept as typed, and the
  two-letter rule of the request refuses it after check-answers has accepted it.

* An update of evidence records the values check-answers showed and nothing of the rows
  it did not show, and opens again as it was; while nobody else updates, it changes a
  list only where its page was submitted or its branch was left. Another user's update
  since the draft was loaded is overwritten: the update carries no version.
* Who goes where the pages of the evidence journey lead, and from check-answers by its
  change links, always finds check-answers complete.
* A saved means assessment is resumed by the next load, whatever its result; the age
  range is the calendar's; the export shows an outcome without totals only where income
  was not asked for, and nothing CCQ kept of a route that was left except by the incomes
  of the finding below.
* A submitted case has its means, its evidence and a signed declaration, although
  submission checks nothing and sends a constant eTag: no update can take a section away
  again. (An assessment with an empty result counts as done, by the code's own rule.)
  This is of users who press the buttons they see: the submit button of an unfinished
  task list is in the page, hidden by a class, and nothing behind it asks again.
* Declarations are submitted only of the case they were signed for.
* Answers to a new case are lost only where the user drops the case, the selected
  office is no longer claimed (`requireAuth` drops the drafts with it) or requests
  overlapped; a draft becomes two cases only where an answer of the API was lost or
  requests overlapped. Both do happen then: the `POST` has no key, and a request in flight
  during a creation writes the cleared draft back. The end of a session, and of its drafts
  with it, is not part of this model.
* Cases are created for, and exported from, offices of the claims the request was let in
  with. Changing the office keeps the draft, so that a draft begun under one office may
  be created under another; only the export asks whose case it is.

**Finding (`AuthSignOut`).** "Destroys the session and redirects to the root."
(`auth.handlers.ts:143`) does not hold of a session with another request in flight: that
request's copy is written back when its response ends, and the authenticated session is
in the store again after the sign-out has been answered. Its token cache stays deleted
unless that request stores it again, and both stay within the session's timeouts.

**Finding (`EditMissingScope`).** `toAnswers` opens a private-law application whose
evidence scope is missing with the answer "none" (`application.dto.ts:403`), so that
check-answers is complete and an update records "none", which nobody answered. The unit
test "doesn't default scoping question answers if data is missing"
(`application.dto.spec.ts:484`) stops one question short of it.

**Finding (`EvidenceLeftBranch`).** `toRcwApi` sends every list of the draft and does not
read the two answers before them (`evidence.dto.ts:245`). A page of a branch that was
left, submitted from an old tab or after going back, so has its lists recorded although
the answer is "no", and the application opens with "yes" afterwards. The unit test
"should handle no capital or expenditure evidence scenario" (`evidence.dto.spec.ts:82`)
uses a draft without lists.

**Finding (`ExportStaleIncome`).** `qualifiesForChildcare`
(`outgoings.questions.ts:87`) reads the saved incomes whatever the employment status
says, while their card shows only of a person in work. CCQ keeps the incomes of a person
who stops working, so an answer the export does not show decides whether it shows the
childcare payments. The UI test "does not render stale answers behind inactive controls"
(`export.spec.ts:480`) has a case without child dependants. `OnlyChildcareGoesByHidden`
proves that this is all such answers decide: every other row is the same without them.

## Proofs

TLAPS proves the following for every number of sessions, requests and sign-ins, every
lifetime and timeout, and both backends. Assumptions on the constants are the named
`ASSUME`s of the modules, all of them about model values and numbers; one is worth
a look: `Idle <= Absolute` (30 minutes and 12 hours), without which the tokens of a new
session, stored with the idle timeout alone, would outlive it.

* **`SignInProofs`**: `Invariance`, then `TypeCorrect`, `FlowConsumedAtMostOnce`,
  `SupersededSoundly`, `FailureIsClean`, `OnlyCurrentConsumed`, `FlowLossSound`. The
  properties are not inductive: that a record belongs to its session's newest
  reservation (`FlowOwnership`), that the newest sign-in finds the record it has got so
  far (`NewestHasItsFlow`), and that a consumed flow is in no record (`ConsumedIsGone`)
  have to be kept together. There is one lemma for what each action does to the records
  and one for how it keeps the invariant.
* **`SignInRefinement`**: `PromiseKept`, that every step of the handlers is a step or a
  stutter of `OneTimeFlow` under the refinement mapping of `SignIn` (a flow's life is read
  off the record, the callbacks and the request); and from it `FlowsNeverReturn`, that a
  flow's life goes one way. The latter is a fact about `OneTimeFlow`
  (`PromiseIsOneWay`) that the refinement carries over.
* **`AuthSessionProofs`**: `Invariance`, then `CacheBounded`, `EndIsFinal`,
  `TimeoutsEnforced`, `TokensLastOut`, `ActiveStaysIn` and `PromiseKept`: all the run
  `AuthSession` checks. The invariant has four parts. `LimitsInv` bounds every copy of a
  session (`CopyOf`) and every deadline a request still holds (`WithinLimits`) by the
  history of the session, and says of a request that has been alone that it still is
  (`AloneIsAlone`, `EndedIsOver`). `QuietSessionsKept` says of an undisturbed session what
  its copies are, not only what bounds them: between requests the stored one carries the
  last activity, and the copy and the deadline of the one request in flight are the
  session's own (`QuietRequest`); with `TokensOutliveSession` beside it, it says when the
  tokens reach as far as the session does. `CachesLive` is that no
  cache is kept after its key's expiry, `FailuresDisturb` that a failed call leaves its
  session disturbed. A step of a request in flight is put as an assignment (`Moves`) that
  pays what the invariant asks (`Pays`); `MovesKeepsInvariant` does the rest once for
  fifteen actions. The refinement needs the rest: an extension is a step of the
  promise only of a cache that has not expired (`CachesLive`), and an end that is not
  complete may take the tokens only of a session that is known to be disturbed
  (`FailuresDisturb`).
* **`EditClientDetailsProofs`**: `EditInvariance`, then `SavedEditsKept` and
  `NoLostUpdate`. The key is `DraftFits`: a draft pinned to the current version takes
  every current edit into account, wherever its copy is.
* **`EditAnswersProofs`**: `EditAnswersInvariance`, then `CompletenessIsEnough`,
  `UpdateIsWhatWasShown`, `UpdateReopensTheSame` and `UpdateChangesOnlyAnswered`: all the
  run `EditAnswers` checks, for any values, any recorded applications and any number of
  pages and updates. `IInv` adds to the types that a draft has one address at most and
  that every answer in it is the application's, cleared, or of a submitted page
  (`DraftFollowsPages`), which is what makes the last theorem inductive. One lemma says
  what a submission must leave behind (`SubmitKeepsInvariant`), and each page is shown to
  do so; the others are facts about the mappings for arbitrary answers
  (`CompleteAccepted`, `RecordedAsShown`, `ReopenedAsShown`). That `Missing` is none of
  the values, and UK addresses none of the overseas ones, is assumed.

* **`EvidenceAnswersProofs`**: `Invariance`, then `FollowedCompletes`, `SavedHolds`,
  `ReopensHolds` and `OnlyAnsweredHolds`: all the run `EvidenceAnswers` checks, for any
  selections, recorded evidence, pages, updates and other users. `IInv` keeps a branch
  that was left empty (`ClearedBehind`), the four lists of expenditure together
  (`GroupsTogether`, since `toAnswers` looks for all of them), what is answered when a
  user is led to a page (`PlaceFits`, the key to `FollowedCompletes`), and where each list
  of the draft comes from (`DraftFollowsPages`). Each page has a lemma that its
  submission keeps all of it (`...Keeps`). That recorded evidence is coherent at first is
  an assumption.
* **`MeansAssessmentProofs`**: `MeansInvariance`, then `AssessmentResumes`, `AgeByCalendar`,
  `NoTotalsOnlyUnasked`, `NothingStaleShows` and `OnlyChildcareGoesByHidden`. The age range is shown to be the calendar's for all dates:
  months follow one another by their lengths (`MonthsInOrder`), and a birthday exceeds
  its month by a day at most (`MonthOfBirth`). `NoTotalsOnlyUnasked` joins a fact about the
  calculations (`NoTotalsExcused`), one about the routes (`ExemptHasNoIncome`) and one
  about the cards (`IrrelevantHasNoRows`); it needs the invariant for the level of help,
  which the code's `isExempt` does not look at. The last two compare every card on two sets of answers,
  one of them without what no card shows: a card reads only answers that show (`Keeps`),
  so that its rows stay, one lemma per card, and the one card that does not is childcare.
* **`CaseRecordProofs`**: `CaseInvariance`, then `SubmittedCompletely`,
  `DeclarationsSigned`, `AnswersKept`, `DraftRecordedOnce` and `OfficesStayClaimed`: all
  the run `CaseRecord` checks, for any numbers of requests, cases, offices and drafts.
  The drafts are the hard part: of a request that has overlapped with no other, the
  session's draft is its own, dropped, or recorded (`AloneInv`), and a recorded draft is
  in no such request and only until the end of the request in the session
  (`RecordedInv`). Steps of requests are put as a new copy or a new case
  (`CopyStep`, `CaseStep`), so that each action is a short lemma.

Model-checked only: `RaceHasAWinner`, since liveness is beyond this prover. Every other
property of a passing run is the subject of a theorem.

## Not modelled, and why

The `status` of each component in `PROJECT.json` says what is missing. In short:

* the callback relay and `returnTo`: functions of strings (signatures, URLs) without a
  state of their own, of which a model would keep little more than the comparison;
* the contents of tokens, claims and the token cache (opaque to this code, or decided by
  Entra), except the claimed offices, which `CaseRecord` has;
* clocks that differ between pods, and the session store's own failures to *read* (the
  request ends at once);
* the lookup of the offices' names, the unique file number (kept in the draft and never
  sent) and the redirects between the pages of create-application and edit;
* of the export, the client and case details and all wording;
* generated API clients, views, logging, metrics, i18n, CSRF, rate limiting and
  configuration (no state of their own, or a library's).

## Plan

1. Proofs: an abstract life of a case (created, its sections, submitted or closed),
   refined by `CaseRecord`.
2. `AuthSession` with two clocks, for the rule that activity is never in the reader's
   future (`session.lifecycle.ts:33`).
3. The redirects of create-application and edit, over `EditAnswers`' submissions, in the
   way `EvidenceAnswers` has them.
