------------------------- MODULE EditClientDetails -------------------------
(***************************************************************************)
(* Providers editing the details of one application, each through a draft  *)
(* kept in the express session (src/src/journeys/edit-client-details and   *)
(* the effects it uses), against the RCW API and its version check.        *)
(*                                                                         *)
(* express-session reads a whole session when a request begins and writes  *)
(* it back when the response ends; requireAuth renews lastActivityAt, so   *)
(* every authenticated request writes, and the last writer wins.  Between  *)
(* the two, a request works on its own copy; only the API calls and the    *)
(* two accesses to the session store are seen by others, so these are the  *)
(* steps.  Edits are named by the request that posts them, and a set of    *)
(* details is the set of edits it takes into account: a later answer to    *)
(* the same question takes the earlier one into account.                   *)
(***************************************************************************)
EXTENDS Integers

CONSTANTS
    Users,      \* express sessions, one per signed-in provider
    Requests,
    NoUser,
    NoVersion,  \* no ETag on the response, no version beside the draft
    MaxVersion, \* bound on the application's version
    Served      \* bound on the kinds of request

ASSUME VersionAssumption == MaxVersion \in Nat /\ NoVersion \notin Nat
ASSUME UserAssumption == NoUser \notin Users
ASSUME ServedAssumption == Served \subseteq
    {"view", "answer", "submit", "dropout", "elsewhere", "officeCleared"}

VARIABLES
    api,        \* the application as the RCW API holds it
    stored,     \* stored[u]: u's session in the session store
    request,    \* request[r]: the request r and its copy of the session
    saved,      \* saved[u]: edits u saved and did not drop again (history)
    overlapped  \* users that have had two requests in flight (history)

vars == <<api, stored, request, saved, overlapped>>

Versions == 0 .. MaxVersion

\* journeyDrafts[draftKey] and journeyDraftVersions[draftKey] of a session.
Draft ==
    [status : {"none", "held"}, details : SUBSET Requests,
     version : Versions \cup {NoVersion}]

NoDraft == [status |-> "none", details |-> {}, version |-> NoVersion]

\* "view" is a page of the journey or a post that fails its validation;
\* "answer" posts a step, "submit" posts check-answers, "dropout" leaves by a
\* step that clears the draft.  "elsewhere" is a page outside the journey,
\* "officeCleared" one on which destroySessionOffice takes the drafts away.
JourneyKinds == {"view", "answer", "submit", "dropout"}
Kinds == JourneyKinds \cup {"elsewhere", "officeCleared"}

InFlightPcs == {"loading", "sending", "ending"}
Pcs == {"idle", "done"} \cup InFlightPcs

Request ==
    [pc : Pcs, user : Users \cup {NoUser}, kind : Kinds, session : Draft]

\* A request that is not being served.
NotServed(pc) == [pc |-> pc, user |-> NoUser, kind |-> "view", session |-> NoDraft]

Application ==
    [version : Versions, details : SUBSET Requests, state : {"DRAFT", "COMPLETED"}]

TypeOK ==
    /\ api \in Application
    /\ stored \in [Users -> Draft]
    /\ request \in [Requests -> Request]
    /\ saved \in [Users -> SUBSET Requests]
    /\ overlapped \in SUBSET Users

Init ==
    /\ api = [version |-> 0, details |-> {}, state |-> "DRAFT"]
    /\ stored = [u \in Users |-> NoDraft]
    /\ request = [r \in Requests |-> NotServed("idle")]
    /\ saved = [u \in Users |-> {}]
    /\ overlapped = {}

InFlight(r) == request[r].pc \in InFlightPcs

---------------------------------------------------------------------------
(* The effects, on a request's copy of the session *)

\* The first page of the journey copies the application into a draft and pins
\* the ETag it came with; a draft that exists is left alone.
LoadApplicationAsAnswers(session, etag) ==
    IF session.status = "held" THEN session
    ELSE [status |-> "held", details |-> api.details, version |-> etag]

\* Variant: the answers posted earlier are not kept.
SaveOnlyPostedAnswers(session, r) == [session EXCEPT !.details = {r}]

SaveDraftAnswers(session, r) == [session EXCEPT !.details = @ \cup {r}]

ClearAllDraftAnswers(session) == NoDraft

---------------------------------------------------------------------------
(* A request *)

\* The session is read and requireAuth passes.
Begin(r, u, kind) ==
    /\ request[r].pc = "idle"
    /\ request' = [request EXCEPT ![r] =
          [pc |-> IF kind \in JourneyKinds THEN "loading" ELSE "ending",
           user |-> u,
           kind |-> kind,
           session |-> IF kind = "officeCleared" THEN NoDraft ELSE stored[u]]]
    /\ overlapped' = IF \E q \in Requests : InFlight(q) /\ request[q].user = u
                     THEN overlapped \cup {u} ELSE overlapped
    /\ UNCHANGED <<api, stored, saved>>

\* loadApplication answers, with or without an ETag, and the effects run as far
\* as the next call: updateClientDetails refuses a draft without a version.
LoadApplication(r) ==
    /\ request[r].pc = "loading"
    /\ \E etag \in {api.version, NoVersion} :
        LET loaded == LoadApplicationAsAnswers(request[r].session, etag) IN
        request' = [request EXCEPT
            ![r].session = CASE request[r].kind = "answer" -> SaveDraftAnswers(loaded, r)
                             [] request[r].kind = "dropout" -> ClearAllDraftAnswers(loaded)
                             [] OTHER -> loaded,
            ![r].pc = IF request[r].kind = "submit" /\ loaded.version # NoVersion
                      THEN "sending" ELSE "ending"]
    /\ UNCHANGED <<api, stored, saved, overlapped>>

\* loadApplication throws, and no other effect runs.
LoadApplicationFails(r) ==
    /\ request[r].pc = "loading"
    /\ request' = [request EXCEPT ![r].pc = "ending"]
    /\ UNCHANGED <<api, stored, saved, overlapped>>

\* The API's side of the update: If-Match has to name the current version.
Accepts(version) ==
    /\ api.state = "DRAFT"
    /\ api.version = version
    /\ api.version < MaxVersion

\* Variant: the update names the version of the application just loaded.
UpdateWithLatestVersion(r) ==
    LET draft == request[r].session IN
    /\ request[r].pc = "sending"
    /\ Accepts(api.version)
    /\ api' = [api EXCEPT !.version = @ + 1, !.details = draft.details]
    /\ \E session \in {draft, ClearAllDraftAnswers(draft)} :
        request' = [request EXCEPT ![r].session = session, ![r].pc = "ending"]
    /\ UNCHANGED <<stored, saved, overlapped>>

\* The API takes the update; clearAllDraftAnswers follows if the 204 arrives,
\* and an error is thrown if it gets lost.
UpdateClientDetails(r) ==
    LET draft == request[r].session IN
    /\ request[r].pc = "sending"
    /\ Accepts(draft.version)
    /\ api' = [api EXCEPT !.version = @ + 1, !.details = draft.details]
    /\ \E session \in {draft, ClearAllDraftAnswers(draft)} :
        request' = [request EXCEPT ![r].session = session, ![r].pc = "ending"]
    /\ UNCHANGED <<stored, saved, overlapped>>

\* Variant: the draft is cleared whatever became of the update.
UpdateFailsAndClears(r) ==
    /\ request[r].pc = "sending"
    /\ request' = [request EXCEPT
          ![r].session = ClearAllDraftAnswers(@), ![r].pc = "ending"]
    /\ UNCHANGED <<api, stored, saved, overlapped>>

\* The update is not sent, gets lost or is refused (a stale version, a
\* completed application, an invalid body): ApiResponseError is thrown.
UpdateFails(r) ==
    /\ request[r].pc = "sending"
    /\ request' = [request EXCEPT ![r].pc = "ending"]
    /\ UNCHANGED <<api, stored, saved, overlapped>>

\* The response ends, error page or not, and the copy is written back.
SaveSession(r) ==
    LET u == request[r].user
        session == request[r].session
        leaves == request[r].kind \in {"dropout", "officeCleared"}
    IN
    /\ request[r].pc = "ending"
    /\ stored' = [stored EXCEPT ![u] = session]
    /\ saved' = [saved EXCEPT ![u] =
          IF leaves /\ session.status = "none" THEN {}
          ELSE @ \cup (session.details \cap {r})]
    /\ request' = [request EXCEPT ![r] = NotServed("done")]
    /\ UNCHANGED <<api, overlapped>>

\* The process dies, or the session store does not take the copy.
Dies(r) ==
    /\ InFlight(r)
    /\ request' = [request EXCEPT ![r] = NotServed("done")]
    /\ UNCHANGED <<api, stored, saved, overlapped>>

\* Evidence, means, declaration or state are written past this journey.
OtherWrite ==
    /\ api.state = "DRAFT"
    /\ api.version < MaxVersion
    /\ \E state \in {"DRAFT", "COMPLETED"} :
        api' = [api EXCEPT !.version = @ + 1, !.state = state]
    /\ UNCHANGED <<stored, request, saved, overlapped>>

Next ==
    \/ \E r \in Requests, u \in Users, kind \in Served : Begin(r, u, kind)
    \/ \E r \in Requests :
        \/ LoadApplication(r) \/ LoadApplicationFails(r)
        \/ UpdateClientDetails(r) \/ UpdateFails(r)
        \/ SaveSession(r) \/ Dies(r)
    \/ OtherWrite

Spec == Init /\ [][Next]_vars

---------------------------------------------------------------------------
(* Properties *)

\* Whoever submits, in whatever order sessions are read and written back, an
\* update never undoes an edit that its author has not seen: drafts that have
\* gone stale are refused.
NoEditUndone == [][api.details \subseteq api'.details]_vars

\* As long as a user's requests do not overlap, an edit that was saved is in
\* the user's draft until an update with it has been taken, through failed
\* updates, lost replies and crashes ("The draft answers and version remain in
\* the session if the update fails").
KeptUntilAccepted ==
    \A u \in Users \ overlapped :
        saved[u] \subseteq stored[u].details \cup api.details

---------------------------------------------------------------------------
(* Why they hold: the inductive invariant *)

\* A draft's version is one the application has had; if it is the current one,
\* the draft takes every current edit into account.
DraftFits(draft) ==
    /\ draft.status = "none" => draft = NoDraft
    /\ draft.version \in Nat => draft.version <= api.version
    /\ draft.version = api.version => api.details \subseteq draft.details

DraftsFit ==
    /\ \A u \in Users : DraftFits(stored[u])
    /\ \A r \in Requests : DraftFits(request[r].session)

RequestsKnown ==
    \A r \in Requests : InFlight(r) => request[r].user \in Users

\* A request that is alone takes its user's saved edits along, unless it has
\* just dropped them.
AloneKeeps ==
    \A r \in Requests :
        LET u == request[r].user IN
        InFlight(r) /\ u \notin overlapped =>
            /\ \A q \in Requests : InFlight(q) /\ request[q].user = u => q = r
            /\ \/ saved[u] \subseteq request[r].session.details \cup api.details
               \/ /\ request[r].kind \in {"dropout", "officeCleared"}
                  /\ request[r].session.status = "none"
                  /\ request[r].pc = "ending"

IInv ==
    /\ TypeOK
    /\ DraftsFit
    /\ RequestsKnown
    /\ AloneKeeps
    /\ KeptUntilAccepted

=============================================================================
