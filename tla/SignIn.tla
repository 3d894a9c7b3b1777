------------------------------- MODULE SignIn -------------------------------
(***************************************************************************)
(* Sign-in requests and IdP callbacks racing on the auth-code-flow store:  *)
(* prepareSignInFlow and the flow part of authCodeCallback in              *)
(* src/src/auth/auth.handlers.ts.                                          *)
(*                                                                         *)
(* Each store call is awaited, so a handler's step is one call together    *)
(* with what the handler does with its answer.  initiateAuthCodeFlow       *)
(* shares no state with anybody: its success is part of Publish, its       *)
(* failure is EntraFails.  session.authFlowPending is written so that the  *)
(* session is stored and its cookie set; nothing reads it, so only whether *)
(* the save succeeds is kept.  A request may come under any session id,    *)
(* whatever the browser did with its cookie in between.                    *)
(***************************************************************************)
EXTENDS AuthFlowStore

CONSTANTS
    Callbacks,  \* requests to /auth/code/callback, duplicates included
    NoSession,
    MaxTime     \* bound on the clock

ASSUME SessionAssumption == NoSession \notin Sessions
ASSUME MaxTimeAssumption == MaxTime \in Nat

VARIABLES
    attempt,    \* attempt[a]: the sign-in request a
    callback,   \* callback[c]: the callback request c
    newest      \* newest[s]: the last attempt to reserve session s (history)

vars == <<flows, now, attempt, callback, newest>>

\* Where a sign-in awaits an answer.  It ends as "redirected", as "cleaned"
\* (failed, and the store ran its abandon) or as "failed" (failed otherwise).
InFlightPcs == {"prepare", "save", "authorize", "abandon"}

Pcs == {"idle", "failed", "cleaned", "redirected"} \cup InFlightPcs

Causes == {"none", "store", "entra", "save", "superseded", "restart"}

Attempt ==
    [pc : Pcs, session : Sessions \cup {NoSession}, expiresAt : Nat, cause : Causes]

Callback ==
    [outcome : {"idle", "rejected", "storeFailed", "idpFailed", "completing"},
     session : Sessions \cup {NoSession},
     state : Attempts \cup {NoAttempt},     \* the auth state it carries
     flow : Attempts \cup {NoAttempt}]      \* the flow it is handed

TypeOK ==
    /\ flows \in [Sessions -> AuthFlowRecord]
    /\ now \in Nat
    /\ attempt \in [Attempts -> Attempt]
    /\ callback \in [Callbacks -> Callback]
    /\ newest \in [Sessions -> Attempts \cup {NoAttempt}]

Init ==
    /\ flows = [s \in Sessions |-> NoFlow]
    /\ now = 0
    /\ attempt = [a \in Attempts |->
                    [pc |-> "idle", session |-> NoSession, expiresAt |-> 0,
                     cause |-> "none"]]
    /\ callback = [c \in Callbacks |->
                    [outcome |-> "idle", session |-> NoSession, state |-> NoAttempt,
                     flow |-> NoAttempt]]
    /\ newest = [s \in Sessions |-> NoAttempt]

InFlight(a) == attempt[a].pc \in InFlightPcs

---------------------------------------------------------------------------
(* signIn: prepareSignInFlow *)

\* The try block of prepareSignInFlow is left for its catch block.
Throw(a, why) ==
    attempt' = [attempt EXCEPT ![a].pc = "abandon", ![a].cause = why]

\* What prepareSignInFlow does with the Either<Error, boolean> of a store
\* call: an error is thrown, false is "Auth flow was superseded".
Answered(a, outcome, granted, nextPc) ==
    \/ /\ outcome # "replied"
       /\ Throw(a, "store")
    \/ /\ outcome = "replied"
       /\ ~granted
       /\ Throw(a, "superseded")
    \/ /\ outcome = "replied"
       /\ granted
       /\ attempt' = [attempt EXCEPT ![a].pc = nextPc]

\* flowStore.reserve; its error is thrown outside the try, so nothing is
\* abandoned, although a lost reply means that the reservation exists.
Reserve(a, s) ==
    /\ attempt[a].pc = "idle"
    /\ \E outcome \in StoreOutcomes :
        /\ IF outcome = "refused"
           THEN UNCHANGED <<flows, newest>>
           ELSE /\ flows' = AfterReserve(s, a)
                /\ newest' = [newest EXCEPT ![s] = a]
        /\ attempt' = [attempt EXCEPT ![a] =
             [pc |-> IF outcome = "replied" THEN "prepare" ELSE "failed",
              session |-> s,
              expiresAt |-> now + Lifetime,
              cause |-> IF outcome = "replied" THEN "none" ELSE "store"]]
    /\ UNCHANGED <<now, callback>>

\* initiateAuthCodeFlow answers with an error.
EntraFails(a) ==
    /\ attempt[a].pc = "prepare"
    /\ Throw(a, "entra")
    /\ UNCHANGED <<flows, now, callback, newest>>

\* initiateAuthCodeFlow succeeds and flowStore.publish runs.
Publish(a) ==
    LET s == attempt[a].session IN
    /\ attempt[a].pc = "prepare"
    /\ \E outcome \in StoreOutcomes :
        /\ flows' = IF outcome = "refused" THEN flows ELSE AfterPublish(s, a)
        /\ Answered(a, outcome, PublishGranted(s, a), "save")
    /\ UNCHANGED <<now, callback, newest>>

SaveSession(a) ==
    /\ attempt[a].pc = "save"
    /\ \/ attempt' = [attempt EXCEPT ![a].pc = "authorize"]
       \/ Throw(a, "save")
    /\ UNCHANGED <<flows, now, callback, newest>>

\* flowStore.authorizeRedirect; only then is the IdP's URL, and with it the
\* auth state, handed to the browser.
AuthorizeRedirect(a) ==
    LET s == attempt[a].session IN
    /\ attempt[a].pc = "authorize"
    /\ \E outcome \in StoreOutcomes :
        /\ flows' = IF outcome = "refused" THEN flows ELSE AfterAuthorize(s, a)
        /\ Answered(a, outcome, AuthorizeGranted(s, a), "redirected")
    /\ UNCHANGED <<now, callback, newest>>

\* Variant: the flow is left behind when preparation fails.
ForgetToAbandon(a) ==
    /\ attempt[a].pc = "abandon"
    /\ attempt' = [attempt EXCEPT ![a].pc = "cleaned"]
    /\ UNCHANGED <<flows, now, callback, newest>>

\* The catch block: flowStore.abandon, whose own error is not looked at, and
\* the rethrow that ends the request.
Abandon(a) ==
    /\ attempt[a].pc = "abandon"
    /\ \E outcome \in StoreOutcomes :
        /\ flows' = IF outcome = "refused" THEN flows
                    ELSE AfterAbandon(attempt[a].session, a)
        /\ attempt' = [attempt EXCEPT ![a].pc =
              IF outcome = "refused" THEN "failed" ELSE "cleaned"]
    /\ UNCHANGED <<now, callback, newest>>

---------------------------------------------------------------------------
(* authCodeCallback, as far as it concerns the flow *)

Ends(c, s, state, outcome, flow) ==
    callback' = [callback EXCEPT ![c] =
        [outcome |-> outcome, session |-> s, state |-> state, flow |-> flow]]

\* The browser brings back the state of some redirect, under session s, with
\* a code or with an error; it may come late, twice, or after the cookie has
\* changed.  The flow is consumed before the handler looks at which it is.
AuthCodeCallback(c, s, state) ==
    /\ callback[c].outcome = "idle"
    /\ attempt[state].pc = "redirected"
    /\ \E outcome \in StoreOutcomes :
        /\ flows' = IF outcome = "refused" THEN flows ELSE AfterConsume(s, state)
        /\ \/ /\ outcome # "replied"
              /\ Ends(c, s, state, "storeFailed", NoAttempt)
           \/ /\ outcome = "replied"
              /\ ~ConsumeGranted(s, state)
              /\ Ends(c, s, state, "rejected", NoAttempt)
           \/ /\ outcome = "replied"
              /\ ConsumeGranted(s, state)
              /\ \E result \in {"completing", "idpFailed"} :
                    Ends(c, s, state, result, flows[s].authState)
    /\ UNCHANGED <<now, attempt, newest>>

---------------------------------------------------------------------------
(* The surroundings *)

\* A process dies.  In-memory flows and every request go with it; with Redis
\* the flows stay and the requests of the other processes go on.
Restart ==
    \E A \in SUBSET {a \in Attempts : InFlight(a)} :
        /\ Backend = "memory" => A = {a \in Attempts : InFlight(a)}
        /\ Backend = "redis" => A # {}
        /\ flows' = IF Backend = "memory" THEN [s \in Sessions |-> NoFlow] ELSE flows
        /\ attempt' = [a \in Attempts |->
              IF a \in A THEN [attempt[a] EXCEPT !.pc = "failed", !.cause = "restart"]
              ELSE attempt[a]]
        /\ UNCHANGED <<now, callback, newest>>

Expire ==
    /\ \E s \in Sessions : ExpireKey(s)
    /\ UNCHANGED <<now, attempt, callback, newest>>

Tick ==
    /\ now < MaxTime
    /\ now' = now + 1
    /\ UNCHANGED <<flows, attempt, callback, newest>>

\* What the server does on its own once a sign-in has begun.
ServerStep(a) ==
    EntraFails(a) \/ Publish(a) \/ SaveSession(a) \/ AuthorizeRedirect(a) \/ Abandon(a)

Next ==
    \/ \E a \in Attempts, s \in Sessions : Reserve(a, s)
    \/ \E a \in Attempts : ServerStep(a)
    \/ \E c \in Callbacks, s \in Sessions, a \in Attempts : AuthCodeCallback(c, s, a)
    \/ Restart
    \/ Expire
    \/ Tick

Spec == Init /\ [][Next]_vars

\* Node runs every handler on until it has answered; users, the clock and
\* failures are under no obligation.
FairSpec == Spec /\ \A a \in Attempts : WF_vars(ServerStep(a))

---------------------------------------------------------------------------
(* Properties *)

\* However often, late or duplicated the IdP's answers arrive, no two
\* callbacks are ever handed the same flow (consume deletes what it returns).
ConsumedAtMostOnce ==
    \A c, d \in Callbacks :
        c # d /\ callback[c].flow # NoAttempt => callback[c].flow # callback[d].flow

\* A callback is only handed the flow of the state it carries, which is that of
\* the newest reservation of its own session, before that reservation's own
\* deadline, and only after its redirect was authorised: an older tab cannot
\* complete after a newer one has started, nor with the newer one's flow, and
\* publishing does not stretch the lifetime.
ConsumesCurrent ==
    \A c \in Callbacks :
        callback'[c].flow # callback[c].flow =>
            LET a == callback'[c].flow
                s == callback'[c].session
            IN /\ a = callback'[c].state
               /\ a = newest[s]
               /\ attempt[a].session = s
               /\ attempt[a].pc = "redirected"
               /\ now < attempt[a].expiresAt

ConsumesOnlyCurrentFlow == [][ConsumesCurrent]_vars

\* A live flow is lost only to a newer reservation of the same session, to a
\* callback of that session that carries its state, to its own request giving
\* up, to its deadline or to a restart of the process that held it: neither the
\* cleanup nor a late callback of one sign-in takes another's flow away.
LossJustified ==
    \A s \in Sessions :
        LET a == flows[s].reservationId IN
        flows[s].status # "absent" /\ flows'[s].reservationId # a =>
            \/ newest'[s] # newest[s]
            \/ \E c \in Callbacks : AuthCodeCallback(c, s, a)
            \/ Abandon(a)
            \/ flows[s].expiresAt <= now
            \/ Backend = "memory" /\ Restart

FlowLossJustified == [][LossJustified]_vars

\* A sign-in is told "Auth flow was superseded" only if a newer reservation
\* exists in its session or its lifetime is over: racing sign-ins cannot
\* cancel one another out.
SupersededOnlyByNewer ==
    \A a \in Attempts :
        attempt[a].cause = "superseded" =>
            newest[attempt[a].session] # a \/ attempt[a].expiresAt <= now

\* A sign-in that failed, and whose cleanup reached the store, leaves no flow
\* of its own behind for a callback to find.
FailedLeavesNoFlow ==
    \A a \in Attempts :
        attempt[a].pc = "cleaned" =>
            \A s \in Sessions : flows[s].reservationId # a

\* If sign-ins race in a session, they do not all lose the race: in the end
\* one of them is redirected, or one failed for a reason that is not the race.
RaceHasAWinner ==
    \A s \in Sessions :
        (\E a \in Attempts : attempt[a].session = s)
        ~> (\E a \in Attempts :
                /\ attempt[a].session = s
                /\ \/ attempt[a].pc = "redirected"
                   \/ /\ attempt[a].pc \in {"failed", "cleaned"}
                      /\ \/ attempt[a].cause # "superseded"
                         \/ attempt[a].expiresAt <= now)

---------------------------------------------------------------------------
(* Why the properties hold: the inductive invariant *)

\* A record belongs to the newest reservation of its session, carries that
\* sign-in's own deadline and, once ready, that sign-in's own state.
FlowOwnership ==
    \A s \in Sessions :
        LET a == flows[s].reservationId IN
        \/ flows[s] = NoFlow
        \/ /\ a \in Attempts
           /\ newest[s] = a
           /\ attempt[a].session = s
           /\ attempt[a].pc \notin {"idle", "cleaned"}
           /\ flows[s].expiresAt = attempt[a].expiresAt
           /\ \/ flows[s].status = "pending" /\ flows[s].authState = NoAttempt
              \/ flows[s].status = "ready" /\ flows[s].authState = a

\* While a sign-in is the newest of its session and in time, the record it
\* has got so far is there.
NewestHasItsFlow ==
    \A s \in Sessions, a \in Attempts :
        attempt[a].session = s /\ newest[s] = a /\ now < attempt[a].expiresAt =>
            /\ attempt[a].pc = "prepare" => IsPendingReservation(flows[s], a)
            /\ attempt[a].pc \in {"save", "authorize"} => IsReadyReservation(flows[s], a)

\* Only an idle sign-in has no session, and a session's newest reservation
\* was made in that session.
SessionsKnown ==
    /\ \A a \in Attempts : attempt[a].pc # "idle" => attempt[a].session \in Sessions
    /\ \A a \in Attempts : attempt[a].pc = "idle" => attempt[a].cause = "none"
    /\ \A s \in Sessions :
            newest[s] # NoAttempt =>
                attempt[newest[s]].session = s /\ attempt[newest[s]].pc # "idle"

\* A flow that a callback was handed is no longer in the store.
ConsumedIsGone ==
    \A c \in Callbacks :
        LET a == callback[c].flow IN
        a # NoAttempt =>
            /\ callback[c].outcome # "idle"
            /\ attempt[a].pc = "redirected"
            /\ \A s \in Sessions : flows[s].reservationId # a

IInv ==
    /\ TypeOK
    /\ FlowOwnership
    /\ NewestHasItsFlow
    /\ SessionsKnown
    /\ ConsumedIsGone
    /\ ConsumedAtMostOnce
    /\ SupersededOnlyByNewer

---------------------------------------------------------------------------
(* The store's promise, and how this module keeps it *)

Owned(a) == \E s \in Sessions : flows[s].reservationId = a

LifeOf(a) ==
    IF Owned(a)
    THEN IF flows[attempt[a].session].status = "ready" THEN "published" ELSE "reserved"
    ELSE IF \E c \in Callbacks : callback[c].flow = a THEN "consumed"
    ELSE IF attempt[a].pc = "idle" THEN "unused" ELSE "dead"

Promise == INSTANCE OneTimeFlow WITH
    life <- [a \in Attempts |-> LifeOf(a)],
    home <- [a \in Attempts |-> IF Owned(a) THEN attempt[a].session ELSE NoSession],
    deadline <- [a \in Attempts |-> IF Owned(a) THEN attempt[a].expiresAt ELSE 0]

\* Both stores, with their lost replies, lazy expiry and restarts, keep the
\* one-time promise of OneTimeFlow to the handlers that use them.
KeepsPromise == Promise!Spec

=============================================================================
