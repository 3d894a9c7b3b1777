---------------------- MODULE EditClientDetailsProofs ----------------------
(***************************************************************************)
(* Proofs about EditClientDetails, for any providers, requests and number  *)
(* of versions: the version check keeps every edit, and a provider who     *)
(* does one thing at a time loses none.                                    *)
(***************************************************************************)
EXTENDS EditClientDetails, TLAPS

---------------------------------------------------------------------------
(* The effect of each action *)

\* Request r goes on to pc p with the copy d; no other request changes.
Moves(r, p, d) ==
    /\ request' \in [Requests -> Request]
    /\ request'[r].pc = p
    /\ request'[r].session = d
    /\ request'[r].user = request[r].user
    /\ request'[r].kind = request[r].kind
    /\ \A q \in Requests : q # r => request'[q] = request[q]

LEMMA MoveOn ==
    ASSUME TypeOK, NEW r \in Requests, NEW p \in Pcs,
           request' = [request EXCEPT ![r].pc = p]
    PROVE  Moves(r, p, request[r].session)
<1>1. [request EXCEPT ![r].pc = p] \in [Requests -> Request]
  BY DEF TypeOK, Request
<1> QED
  BY <1>1 DEF TypeOK, Request, Moves

LEMMA MoveOnWith ==
    ASSUME TypeOK, NEW r \in Requests, NEW p \in Pcs, NEW d \in Draft,
           request' = [request EXCEPT ![r].session = d, ![r].pc = p]
    PROVE  Moves(r, p, d)
<1> DEFINE moved == [request[r] EXCEPT !.session = d, !.pc = p]
<1>1. request[r] \in Request /\ request \in [Requests -> Request]
  BY DEF TypeOK
<1>2. /\ moved \in Request /\ moved.pc = p /\ moved.session = d
      /\ moved.user = request[r].user /\ moved.kind = request[r].kind
  BY <1>1 DEF Request
<1>3. request' = [request EXCEPT ![r] = moved]
  BY <1>1
<1> HIDE DEF moved
<1> QED
  BY <1>1, <1>2, <1>3 DEF Moves

LEMMA NoDraftType == NoDraft \in Draft /\ \A p \in Pcs : NotServed(p) \in Request
  BY DEF NoDraft, Draft, NotServed, Request, Kinds, JourneyKinds

\* What a page of the journey leaves in the copy: a draft that fits, and has
\* whatever the copy had.
LEMMA Loaded ==
    ASSUME TypeOK, NEW d \in Draft, DraftFits(d), NEW r \in Requests,
           NEW etag \in {api.version, NoVersion}
    PROVE  LET loaded == LoadApplicationAsAnswers(d, etag)
               answered == SaveDraftAnswers(loaded, r)
           IN /\ loaded \in Draft /\ answered \in Draft
              /\ DraftFits(loaded) /\ DraftFits(answered)
              /\ d.details \subseteq loaded.details
              /\ d.details \subseteq answered.details
<1> DEFINE loaded == LoadApplicationAsAnswers(d, etag)
           answered == SaveDraftAnswers(loaded, r)
<1>1. /\ loaded \in Draft /\ DraftFits(loaded) /\ d.details \subseteq loaded.details
      /\ loaded.status = "held"
  BY VersionAssumption
     DEF LoadApplicationAsAnswers, TypeOK, Application, Draft, DraftFits, Versions, NoDraft
<1>2. /\ answered \in Draft
      /\ answered.status = "held" /\ answered.version = loaded.version
      /\ answered.details = loaded.details \cup {r}
  BY <1>1 DEF SaveDraftAnswers, Draft
<1>3. DraftFits(answered)
  BY <1>1, <1>2 DEF DraftFits
<1> HIDE DEF loaded, answered
<1> QED
  BY <1>1, <1>2, <1>3 DEF loaded, answered

---------------------------------------------------------------------------
(* A step that only moves request r on, with a copy d that fits *)

LEMMA CopyStepKeeps ==
    ASSUME IInv, NEW r \in Requests, NEW p \in Pcs, NEW d \in Draft,
           InFlight(r), Moves(r, p, d), DraftFits(d),
           UNCHANGED <<api, stored, saved, overlapped>>,
           \/ request[r].session.details \subseteq d.details /\ request[r].pc # "ending"
           \/ request[r].kind = "dropout" /\ d = NoDraft /\ p = "ending"
    PROVE  IInv'
<1> USE DEF IInv, Moves
<1>1. TypeOK'
  BY DEF TypeOK
<1>2. \A e : DraftFits(e)' <=> DraftFits(e)
  BY DEF DraftFits
<1>3. DraftsFit'
  BY DEF DraftsFit, DraftFits
<1>4. RequestsKnown'
  BY DEF RequestsKnown, InFlight
<1>5. KeptUntilAccepted'
  BY DEF KeptUntilAccepted
<1>6. \A q \in Requests : /\ InFlight(q)' => InFlight(q)
                          /\ request'[q].user = request[q].user
  BY DEF InFlight
<1>7. AloneKeeps'
  <2> SUFFICES ASSUME NEW q \in Requests, InFlight(q)', request'[q].user \notin overlapped
               PROVE  /\ \A s \in Requests :
                            InFlight(s)' /\ request'[s].user = request'[q].user => s = q
                      /\ \/ saved[request'[q].user] \subseteq
                                request'[q].session.details \cup api.details
                         \/ /\ request'[q].kind \in {"dropout", "officeCleared"}
                            /\ request'[q].session.status = "none"
                            /\ request'[q].pc = "ending"
    BY DEF AloneKeeps
  <2>1. \A s \in Requests :
            InFlight(s)' /\ request'[s].user = request'[q].user => s = q
    BY <1>6 DEF AloneKeeps
  <2>2. CASE q # r
    BY <2>1, <2>2, <1>6 DEF AloneKeeps
  <2>3. CASE q = r
    BY <2>1, <2>3 DEF AloneKeeps, NoDraft
  <2> QED
    BY <2>1, <2>2, <2>3
<1> QED
  BY <1>1, <1>3, <1>4, <1>5, <1>7

LEMMA CopyFits ==
    ASSUME IInv, NEW r \in Requests
    PROVE  request[r].session \in Draft /\ DraftFits(request[r].session)
  BY DEF IInv, DraftsFit, TypeOK, Request

LEMMA LoadApplicationKeeps ==
    ASSUME IInv, NEW r \in Requests, LoadApplication(r)
    PROVE  IInv'
<1> DEFINE c == request[r].session
<1>1. request[r].pc = "loading" /\ UNCHANGED <<api, stored, saved, overlapped>>
  BY DEF LoadApplication
<1>2. c \in Draft /\ DraftFits(c)
  BY CopyFits
<1>3. PICK etag \in {api.version, NoVersion} :
        LET loaded == LoadApplicationAsAnswers(c, etag) IN
        request' = [request EXCEPT
            ![r].session = CASE request[r].kind = "answer" -> SaveDraftAnswers(loaded, r)
                             [] request[r].kind = "dropout" -> ClearAllDraftAnswers(loaded)
                             [] OTHER -> loaded,
            ![r].pc = IF request[r].kind = "submit" /\ loaded.version # NoVersion
                      THEN "sending" ELSE "ending"]
  BY DEF LoadApplication
<1> DEFINE loaded == LoadApplicationAsAnswers(c, etag)
           answered == SaveDraftAnswers(loaded, r)
           d == CASE request[r].kind = "answer" -> answered
                  [] request[r].kind = "dropout" -> NoDraft
                  [] OTHER -> loaded
           p == IF request[r].kind = "submit" /\ loaded.version # NoVersion
                THEN "sending" ELSE "ending"
<1>4. /\ loaded \in Draft /\ answered \in Draft
      /\ DraftFits(loaded) /\ DraftFits(answered)
      /\ c.details \subseteq loaded.details
      /\ c.details \subseteq answered.details
  BY <1>2, Loaded DEF IInv
<1>5. NoDraft \in Draft /\ DraftFits(NoDraft)
  BY NoDraftType, VersionAssumption DEF DraftFits, NoDraft, IInv, TypeOK, Application, Versions
<1> HIDE DEF loaded, answered
<1>6. /\ d \in Draft /\ DraftFits(d) /\ p \in Pcs
      /\ \/ c.details \subseteq d.details
         \/ request[r].kind = "dropout" /\ d = NoDraft /\ p = "ending"
  BY <1>4, <1>5 DEF Pcs, InFlightPcs
<1>7. request' = [request EXCEPT ![r].session = d, ![r].pc = p]
  BY <1>3 DEF ClearAllDraftAnswers, loaded, answered
<1> HIDE DEF d, p
<1>8. Moves(r, p, d)
  BY <1>6, <1>7, MoveOnWith DEF IInv
<1>9. InFlight(r)
  BY <1>1 DEF InFlight, InFlightPcs
<1> QED
  BY <1>1, <1>6, <1>8, <1>9, CopyStepKeeps

LEMMA FailureKeeps ==
    ASSUME IInv, NEW r \in Requests, LoadApplicationFails(r) \/ UpdateFails(r)
    PROVE  IInv'
<1>1. /\ request[r].pc \in {"loading", "sending"}
      /\ UNCHANGED <<api, stored, saved, overlapped>>
      /\ request' = [request EXCEPT ![r].pc = "ending"]
  BY DEF LoadApplicationFails, UpdateFails
<1>2. "ending" \in Pcs /\ InFlight(r)
  BY <1>1 DEF Pcs, InFlightPcs, InFlight
<1>3. Moves(r, "ending", request[r].session)
  BY <1>1, <1>2, MoveOn DEF IInv
<1> QED
  BY <1>1, <1>2, <1>3, CopyFits, CopyStepKeeps

---------------------------------------------------------------------------
(* The steps that others see *)

LEMMA BeginKeeps ==
    ASSUME IInv, NEW r \in Requests, NEW u \in Users, NEW kind \in Served,
           Begin(r, u, kind)
    PROVE  IInv'
<1> USE DEF IInv
<1> DEFINE d == IF kind = "officeCleared" THEN NoDraft ELSE stored[u]
           p == IF kind \in JourneyKinds THEN "loading" ELSE "ending"
           begun == [pc |-> p, user |-> u, kind |-> kind, session |-> d]
<1>1. /\ request[r].pc = "idle" /\ request' = [request EXCEPT ![r] = begun]
      /\ overlapped' = IF \E q \in Requests : InFlight(q) /\ request[q].user = u
                       THEN overlapped \cup {u} ELSE overlapped
      /\ UNCHANGED <<api, stored, saved>>
  BY DEF Begin
<1>2. d \in Draft /\ DraftFits(d)
  BY NoDraftType, VersionAssumption
     DEF TypeOK, DraftsFit, DraftFits, NoDraft, Application, Versions
<1>3. kind \in Kinds /\ p \in Pcs
  BY ServedAssumption DEF Kinds, JourneyKinds, Pcs, InFlightPcs
<1>4. begun \in Request
  BY <1>2, <1>3 DEF Request
<1>5. /\ request' \in [Requests -> Request] /\ request'[r] = begun
      /\ \A q \in Requests : q # r => request'[q] = request[q]
  BY <1>1, <1>4 DEF TypeOK
<1>6. overlapped' \in SUBSET Users /\ overlapped \subseteq overlapped'
  BY <1>1 DEF TypeOK
<1>7. TypeOK'
  BY <1>1, <1>5, <1>6 DEF TypeOK
<1>8. DraftsFit'
  BY <1>1, <1>2, <1>5 DEF DraftsFit, DraftFits
<1>9. RequestsKnown'
  BY <1>1, <1>5 DEF RequestsKnown, InFlight
<1>10. KeptUntilAccepted'
  BY <1>1, <1>6 DEF KeptUntilAccepted
<1>11. AloneKeeps'
  <2> SUFFICES ASSUME NEW q \in Requests, InFlight(q)', request'[q].user \notin overlapped'
               PROVE  /\ \A s \in Requests :
                            InFlight(s)' /\ request'[s].user = request'[q].user => s = q
                      /\ \/ saved[request'[q].user] \subseteq
                                request'[q].session.details \cup api.details
                         \/ /\ request'[q].kind \in {"dropout", "officeCleared"}
                            /\ request'[q].session.status = "none"
                            /\ request'[q].pc = "ending"
    BY <1>1 DEF AloneKeeps
  <2>1. CASE q = r
    <3>1. \A s \in Requests : InFlight(s) => request[s].user # u
      BY <1>1, <1>5, <2>1
    <3>2. \A s \in Requests : InFlight(s)' /\ request'[s].user = u => s = r
      BY <1>5, <3>1 DEF InFlight
    <3>3. CASE kind = "officeCleared"
      BY <1>5, <2>1, <3>2, <3>3 DEF NoDraft, JourneyKinds
    <3>4. CASE kind # "officeCleared"
      BY <1>5, <1>6, <2>1, <3>2, <3>4 DEF KeptUntilAccepted
    <3> QED
      BY <3>3, <3>4
  <2>2. CASE q # r
    <3>1. request'[q] = request[q] /\ InFlight(q) /\ request[q].user \notin overlapped
      BY <1>5, <1>6, <2>2 DEF InFlight
    <3>2. request[q].user # u
      BY <1>1, <3>1
    <3>3. \A s \in Requests :
            InFlight(s)' /\ request'[s].user = request[q].user => s # r /\ InFlight(s)
      BY <1>5, <3>2 DEF InFlight
    <3> QED
      BY <1>5, <3>1, <3>3 DEF AloneKeeps
  <2> QED
    BY <2>1, <2>2
<1> QED
  BY <1>7, <1>8, <1>9, <1>10, <1>11

\* A request that is no longer served does not count.
LEMMA ServedStepKeeps ==
    ASSUME IInv, NEW r \in Requests, InFlight(r),
           request' = [request EXCEPT ![r] = NotServed("done")],
           UNCHANGED <<api, overlapped>>,
           stored' \in [Users -> Draft], saved' \in [Users -> SUBSET Requests],
           \A u \in Users : u # request[r].user =>
              stored'[u] = stored[u] /\ saved'[u] = saved[u],
           DraftFits(stored'[request[r].user]),
           request[r].user \notin overlapped =>
              saved'[request[r].user] \subseteq
                 stored'[request[r].user].details \cup api.details
    PROVE  IInv'
<1> USE DEF IInv
<1>1. NotServed("done") \in Request
  BY NoDraftType DEF Pcs
<1>2. /\ request' \in [Requests -> Request] /\ request'[r] = NotServed("done")
      /\ \A q \in Requests : q # r => request'[q] = request[q]
  BY <1>1 DEF TypeOK
<1>3. ~InFlight(r)' /\ \A q \in Requests : InFlight(q)' => q # r /\ InFlight(q)
  BY <1>2 DEF InFlight, InFlightPcs, NotServed
<1>4. TypeOK'
  BY <1>2 DEF TypeOK
<1>5. DraftFits(NoDraft)
  BY VersionAssumption DEF DraftFits, NoDraft, TypeOK, Application, Versions
<1>6. DraftsFit'
  BY <1>2, <1>5 DEF DraftsFit, DraftFits, NotServed
<1>7. RequestsKnown'
  BY <1>2, <1>3 DEF RequestsKnown
<1>8. KeptUntilAccepted'
  BY DEF KeptUntilAccepted
<1>9. AloneKeeps'
  <2> SUFFICES ASSUME NEW q \in Requests, InFlight(q)', request'[q].user \notin overlapped
               PROVE  /\ \A s \in Requests :
                            InFlight(s)' /\ request'[s].user = request'[q].user => s = q
                      /\ \/ saved'[request'[q].user] \subseteq
                                request'[q].session.details \cup api.details
                         \/ /\ request'[q].kind \in {"dropout", "officeCleared"}
                            /\ request'[q].session.status = "none"
                            /\ request'[q].pc = "ending"
    BY DEF AloneKeeps
  <2>1. q # r /\ InFlight(q) /\ request'[q] = request[q] /\ request[q].user \in Users
    BY <1>2, <1>3 DEF RequestsKnown
  <2>2. request[q].user # request[r].user
    BY <2>1 DEF AloneKeeps
  <2>3. saved'[request[q].user] = saved[request[q].user]
    BY <2>1, <2>2
  <2>4. \A s \in Requests : InFlight(s)' => InFlight(s) /\ request'[s] = request[s]
    BY <1>2, <1>3
  <2> QED
    BY <2>1, <2>3, <2>4 DEF AloneKeeps
<1> QED
  BY <1>4, <1>6, <1>7, <1>8, <1>9

LEMMA SaveSessionKeeps ==
    ASSUME IInv, NEW r \in Requests, SaveSession(r)
    PROVE  IInv'
<1> USE DEF IInv
<1> DEFINE u == request[r].user
           d == request[r].session
           leaves == request[r].kind \in {"dropout", "officeCleared"}
           kept == IF leaves /\ d.status = "none" THEN {}
                   ELSE saved[u] \cup (d.details \cap {r})
<1>1. /\ request[r].pc = "ending"
      /\ stored' = [stored EXCEPT ![u] = d]
      /\ saved' = [saved EXCEPT ![u] = kept]
      /\ request' = [request EXCEPT ![r] = NotServed("done")]
      /\ UNCHANGED <<api, overlapped>>
  BY DEF SaveSession
<1>2. InFlight(r) /\ u \in Users
  BY <1>1 DEF InFlight, InFlightPcs, RequestsKnown
<1>3. d \in Draft /\ DraftFits(d)
  BY CopyFits
<1>4. kept \in SUBSET Requests
  BY <1>2 DEF TypeOK
<1>5. u \notin overlapped => kept \subseteq d.details \cup api.details
  BY <1>2 DEF AloneKeeps
<1> HIDE DEF kept
<1>6. /\ stored' \in [Users -> Draft] /\ saved' \in [Users -> SUBSET Requests]
      /\ stored'[u] = d /\ saved'[u] = kept
      /\ \A w \in Users : w # u => stored'[w] = stored[w] /\ saved'[w] = saved[w]
  BY <1>1, <1>2, <1>3, <1>4 DEF TypeOK
<1> QED
  BY <1>1, <1>2, <1>3, <1>5, <1>6, ServedStepKeeps

LEMMA DiesKeeps ==
    ASSUME IInv, NEW r \in Requests, Dies(r)
    PROVE  IInv'
<1> USE DEF IInv
<1>1. /\ InFlight(r) /\ request' = [request EXCEPT ![r] = NotServed("done")]
      /\ UNCHANGED <<api, stored, saved, overlapped>>
  BY DEF Dies
<1>2. request[r].user \in Users
  BY <1>1 DEF RequestsKnown
<1>3. DraftFits(stored[request[r].user])
  BY <1>2 DEF DraftsFit
<1>4. request[r].user \notin overlapped =>
         saved[request[r].user] \subseteq stored[request[r].user].details \cup api.details
  BY <1>2 DEF KeptUntilAccepted
<1>5. stored' \in [Users -> Draft] /\ saved' \in [Users -> SUBSET Requests]
  BY <1>1 DEF TypeOK
<1> QED
  BY <1>1, <1>3, <1>4, <1>5, ServedStepKeeps

\* Drafts fit whatever the next version is, as none of them carries it.
LEMMA FitsNextVersion ==
    ASSUME TypeOK, api'.version = api.version + 1, NEW d \in Draft, DraftFits(d)
    PROVE  DraftFits(d)'
<1>1. api.version \in Nat
  BY VersionAssumption DEF TypeOK, Application, Versions
<1>2. d.version \in Nat \/ d.version = NoVersion
  BY VersionAssumption DEF Draft, Versions
<1> QED
  BY <1>1, <1>2, VersionAssumption DEF DraftFits

LEMMA ApiMoves ==
    ASSUME TypeOK, api.version < MaxVersion, NEW D \in SUBSET Requests,
           NEW state \in {"DRAFT", "COMPLETED"},
           \/ api' = [api EXCEPT !.version = @ + 1, !.details = D] /\ state = api.state
           \/ api' = [api EXCEPT !.version = @ + 1, !.state = state] /\ D = api.details
    PROVE  /\ api' \in Application /\ api'.version = api.version + 1
           /\ api'.details = D
<1>1. api \in Application /\ api.version \in Nat
  BY VersionAssumption DEF TypeOK, Application, Versions
<1>2. api.version + 1 \in Versions
  BY <1>1, VersionAssumption DEF Versions
<1> QED
  BY <1>1, <1>2 DEF Application

LEMMA OtherWriteKeeps ==
    ASSUME IInv, OtherWrite
    PROVE  IInv'
<1> USE DEF IInv
<1>1. PICK state \in {"DRAFT", "COMPLETED"} :
        api' = [api EXCEPT !.version = @ + 1, !.state = state]
  BY DEF OtherWrite
<1>2. api.version < MaxVersion /\ UNCHANGED <<stored, request, saved, overlapped>>
  BY DEF OtherWrite
<1>3. /\ api' \in Application /\ api'.version = api.version + 1
      /\ api'.details = api.details
  BY <1>1, <1>2, ApiMoves DEF TypeOK, Application
<1>4. TypeOK'
  BY <1>2, <1>3 DEF TypeOK
<1>5. DraftsFit'
  <2>1. \A u \in Users : stored[u] \in Draft
    BY DEF TypeOK
  <2>2. \A u \in Users : DraftFits(stored[u])'
    BY <1>2, <1>3, <2>1, FitsNextVersion DEF DraftsFit, DraftFits
  <2>3. \A r \in Requests : DraftFits(request[r].session)'
    BY <1>2, <1>3, CopyFits, FitsNextVersion DEF DraftFits
  <2> QED
    BY <2>2, <2>3 DEF DraftsFit
<1>6. RequestsKnown' /\ KeptUntilAccepted' /\ AloneKeeps'
  BY <1>2, <1>3 DEF RequestsKnown, KeptUntilAccepted, AloneKeeps, InFlight
<1> QED
  BY <1>4, <1>5, <1>6

\* What the API has taken is the draft of a request that was up to date.
LEMMA UpdateEffect ==
    ASSUME IInv, NEW r \in Requests, UpdateClientDetails(r)
    PROVE  LET draft == request[r].session IN
           /\ request[r].pc = "sending"
           /\ api' \in Application /\ api'.version = api.version + 1
           /\ api'.details = draft.details
           /\ api.details \subseteq api'.details
           /\ \E d \in {draft, NoDraft} : Moves(r, "ending", d)
           /\ UNCHANGED <<stored, saved, overlapped>>
<1> DEFINE draft == request[r].session
<1>1. /\ request[r].pc = "sending" /\ Accepts(draft.version)
      /\ api' = [api EXCEPT !.version = @ + 1, !.details = draft.details]
      /\ UNCHANGED <<stored, saved, overlapped>>
  BY DEF UpdateClientDetails
<1>2. draft \in Draft /\ DraftFits(draft)
  BY CopyFits
<1>3. api.details \subseteq draft.details
  BY <1>1, <1>2 DEF Accepts, DraftFits
<1>4. /\ api' \in Application /\ api'.version = api.version + 1
      /\ api'.details = draft.details
  BY <1>1, <1>2, ApiMoves DEF Accepts, IInv, TypeOK, Application, Draft
<1>5. "ending" \in Pcs /\ NoDraft \in Draft
  BY NoDraftType DEF Pcs, InFlightPcs
<1>6. PICK d \in {draft, NoDraft} :
        request' = [request EXCEPT ![r].session = d, ![r].pc = "ending"]
  BY DEF UpdateClientDetails, ClearAllDraftAnswers
<1>7. Moves(r, "ending", d)
  BY <1>2, <1>5, <1>6, MoveOnWith DEF IInv
<1> QED
  BY <1>1, <1>3, <1>4, <1>7

LEMMA UpdateClientDetailsKeeps ==
    ASSUME IInv, NEW r \in Requests, UpdateClientDetails(r)
    PROVE  IInv'
<1> USE DEF IInv
<1> DEFINE draft == request[r].session
<1>1. /\ request[r].pc = "sending"
      /\ api' \in Application /\ api'.version = api.version + 1
      /\ api'.details = draft.details
      /\ api.details \subseteq api'.details
      /\ UNCHANGED <<stored, saved, overlapped>>
  BY UpdateEffect
<1>2. PICK d \in {draft, NoDraft} : Moves(r, "ending", d)
  BY UpdateEffect
<1>3. /\ request' \in [Requests -> Request]
      /\ request'[r].session = d /\ request'[r].pc = "ending"
      /\ request'[r].user = request[r].user /\ request'[r].kind = request[r].kind
      /\ \A q \in Requests : q # r => request'[q] = request[q]
  BY <1>2 DEF Moves
<1>4. TypeOK'
  BY <1>1, <1>3 DEF TypeOK
<1>5. DraftsFit'
  <2>1. \A u \in Users : DraftFits(stored[u])'
    BY <1>1, FitsNextVersion DEF DraftsFit, DraftFits, TypeOK
  <2>2. \A q \in Requests : q # r => DraftFits(request[q].session)'
    BY <1>1, <1>3, CopyFits, FitsNextVersion DEF DraftFits
  <2>3. DraftFits(d)'
    <3>1. CASE d = draft
      BY <1>1, <3>1, CopyFits, FitsNextVersion DEF DraftFits
    <3>2. CASE d = NoDraft
      BY <1>1, <3>2, VersionAssumption DEF DraftFits, NoDraft, Application, Versions
    <3> QED
      BY <3>1, <3>2
  <2> QED
    BY <1>3, <2>1, <2>2, <2>3 DEF DraftsFit, DraftFits
<1>6. InFlight(r) /\ \A q \in Requests : /\ InFlight(q)' <=> InFlight(q)
                                         /\ request'[q].user = request[q].user
  BY <1>1, <1>3 DEF InFlight, InFlightPcs
<1>7. RequestsKnown'
  BY <1>6 DEF RequestsKnown
<1>8. KeptUntilAccepted'
  BY <1>1 DEF KeptUntilAccepted
<1>9. AloneKeeps'
  <2> SUFFICES ASSUME NEW q \in Requests, InFlight(q), request[q].user \notin overlapped
               PROVE  /\ \A s \in Requests :
                            InFlight(s) /\ request[s].user = request[q].user => s = q
                      /\ \/ saved[request[q].user] \subseteq
                                request'[q].session.details \cup api'.details
                         \/ /\ request'[q].kind \in {"dropout", "officeCleared"}
                            /\ request'[q].session.status = "none"
                            /\ request'[q].pc = "ending"
    BY <1>1, <1>6 DEF AloneKeeps
  <2>1. CASE q = r
    BY <1>1, <1>3, <2>1 DEF AloneKeeps
  <2>2. CASE q # r
    BY <1>1, <1>3, <2>2 DEF AloneKeeps
  <2> QED
    BY <2>1, <2>2
<1> QED
  BY <1>4, <1>5, <1>7, <1>8, <1>9

---------------------------------------------------------------------------
(* The theorems *)

LEMMA InitIInv == Init => IInv
<1> SUFFICES ASSUME Init PROVE IInv
  OBVIOUS
<1> USE DEF Init
<1>1. NotServed("idle") \in Request
  BY NoDraftType DEF Pcs
<1>2. TypeOK
  BY <1>1, NoDraftType, VersionAssumption DEF TypeOK, Application, Versions
<1>3. DraftFits(NoDraft)
  BY VersionAssumption DEF DraftFits, NoDraft
<1>4. DraftsFit
  BY <1>3 DEF DraftsFit, NotServed
<1>5. RequestsKnown /\ AloneKeeps /\ KeptUntilAccepted
  BY DEF RequestsKnown, AloneKeeps, KeptUntilAccepted, InFlight, InFlightPcs, NotServed
<1> QED
  BY <1>2, <1>4, <1>5 DEF IInv

LEMMA NextKeeps == IInv /\ [Next]_vars => IInv'
<1> SUFFICES ASSUME IInv, [Next]_vars PROVE IInv'
  OBVIOUS
<1>1. CASE UNCHANGED vars
  BY <1>1 DEF vars, IInv, TypeOK, DraftsFit, DraftFits, RequestsKnown, AloneKeeps,
     KeptUntilAccepted, InFlight
<1>2. CASE Next
  BY <1>2, BeginKeeps, LoadApplicationKeeps, FailureKeeps, UpdateClientDetailsKeeps,
     SaveSessionKeeps, DiesKeeps, OtherWriteKeeps DEF Next
<1> QED
  BY <1>1, <1>2

\* The inductive invariant holds in every reachable state.
THEOREM EditInvariance == Spec => []IInv
<1> QED
  BY InitIInv, NextKeeps, PTL DEF Spec

\* An edit that a provider working one request at a time has saved stays in the
\* draft until an update with it has been accepted.
THEOREM SavedEditsKept == Spec => []KeptUntilAccepted
<1>1. IInv => KeptUntilAccepted
  BY DEF IInv
<1> QED
  BY <1>1, EditInvariance, PTL

\* No accepted update undoes an edit that its author has not seen.
THEOREM NoLostUpdate == Spec => NoEditUndone
<1>1. IInv /\ [Next]_vars => [api.details \subseteq api'.details]_vars
  <2> SUFFICES ASSUME IInv, Next PROVE api.details \subseteq api'.details
    OBVIOUS
  <2>1. ASSUME OtherWrite PROVE api.details \subseteq api'.details
    BY <2>1 DEF OtherWrite, IInv, TypeOK, Application
  <2> QED
    BY <2>1, UpdateEffect DEF Next, Begin, LoadApplication, LoadApplicationFails,
       UpdateFails, SaveSession, Dies
<1> QED
  BY <1>1, EditInvariance, PTL DEF Spec, NoEditUndone

=============================================================================
