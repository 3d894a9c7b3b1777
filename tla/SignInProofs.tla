---------------------------- MODULE SignInProofs ----------------------------
(***************************************************************************)
(* Proofs about SignIn, for any sets of attempts, callbacks and sessions,  *)
(* any lifetime and either backend.  IInv is inductive; the safety         *)
(* properties follow from it.                                              *)
(***************************************************************************)
EXTENDS SignIn, TLAPS

---------------------------------------------------------------------------
(* What a step does to the records and to the sign-ins *)

\* Sign-in a goes on to pc p with cause w; no other sign-in changes.
Moves(a, p, w) ==
    /\ attempt' \in [Attempts -> Attempt]
    /\ attempt'[a].pc = p
    /\ attempt'[a].cause = w
    /\ attempt'[a].session = attempt[a].session
    /\ attempt'[a].expiresAt = attempt[a].expiresAt
    /\ \A b \in Attempts : b # a => attempt'[b] = attempt[b]

\* No session's record changes, but that of s may.
OnlyAt(s, g) ==
    /\ g \in [Sessions -> AuthFlowRecord]
    /\ \A t \in Sessions : t # s => g[t] = flows[t]

ReserveOutcome(a, s) ==
    /\ attempt[a].pc = "idle"
    /\ UNCHANGED <<now, callback>>
    /\ attempt' \in [Attempts -> Attempt]
    /\ \A b \in Attempts : b # a => attempt'[b] = attempt[b]
    /\ attempt'[a].session = s
    /\ attempt'[a].expiresAt = now + Lifetime
    /\ \/ /\ UNCHANGED <<flows, newest>>
          /\ attempt'[a].pc = "failed" /\ attempt'[a].cause = "store"
       \/ /\ flows' = AfterReserve(s, a)
          /\ newest' = [newest EXCEPT ![s] = a]
          /\ \/ attempt'[a].pc = "failed" /\ attempt'[a].cause = "store"
             \/ attempt'[a].pc = "prepare" /\ attempt'[a].cause = "none"

PublishOutcome(a) ==
    LET s == attempt[a].session IN
    /\ attempt[a].pc = "prepare"
    /\ UNCHANGED <<now, callback, newest>>
    /\ \/ Moves(a, "abandon", "store") /\ flows' \in {flows, AfterPublish(s, a)}
       \/ /\ Moves(a, "abandon", "superseded")
          /\ ~PublishGranted(s, a) /\ flows' = AfterPublish(s, a)
       \/ /\ Moves(a, "save", attempt[a].cause)
          /\ PublishGranted(s, a) /\ flows' = AfterPublish(s, a)

AuthorizeOutcome(a) ==
    LET s == attempt[a].session IN
    /\ attempt[a].pc = "authorize"
    /\ UNCHANGED <<now, callback, newest>>
    /\ \/ Moves(a, "abandon", "store") /\ flows' \in {flows, AfterAuthorize(s, a)}
       \/ /\ Moves(a, "abandon", "superseded")
          /\ ~AuthorizeGranted(s, a) /\ flows' = AfterAuthorize(s, a)
       \/ /\ Moves(a, "redirected", attempt[a].cause)
          /\ AuthorizeGranted(s, a) /\ flows' = AfterAuthorize(s, a)

AbandonOutcome(a) ==
    /\ attempt[a].pc = "abandon"
    /\ UNCHANGED <<now, callback, newest>>
    /\ \/ Moves(a, "failed", attempt[a].cause) /\ flows' = flows
       \/ /\ Moves(a, "cleaned", attempt[a].cause)
          /\ flows' = AfterAbandon(attempt[a].session, a)

CallbackOutcome(c, s, a) ==
    /\ attempt[a].pc = "redirected"
    /\ UNCHANGED <<now, attempt, newest>>
    /\ callback' \in [Callbacks -> Callback]
    /\ \A d \in Callbacks : d # c => callback'[d] = callback[d]
    /\ callback'[c].session = s /\ callback'[c].state = a
    /\ callback[c].outcome = "idle" /\ callback'[c].outcome # "idle"
    /\ \/ callback'[c].flow = NoAttempt /\ flows' \in {flows, AfterConsume(s, a)}
       \/ /\ callback'[c].flow = a
          /\ ConsumeGranted(s, a) /\ flows' = AfterConsume(s, a)

RestartOutcome ==
    /\ UNCHANGED <<now, callback, newest>>
    /\ attempt' \in [Attempts -> Attempt]
    /\ \A a \in Attempts :
         \/ attempt'[a] = attempt[a]
         \/ /\ InFlight(a)
            /\ attempt'[a].pc = "failed"
            /\ attempt'[a].cause = "restart"
            /\ attempt'[a].session = attempt[a].session
            /\ attempt'[a].expiresAt = attempt[a].expiresAt
    /\ \/ flows' = flows
       \/ /\ flows' = [s \in Sessions |-> NoFlow]
          /\ \A a \in Attempts : InFlight(a) => attempt'[a].pc = "failed"

ReservedRecords(s, a) ==
    /\ AfterReserve(s, a) \in [Sessions -> AuthFlowRecord]
    /\ AfterReserve(s, a)[s] = CreatePendingAuthFlowRecord(a)
    /\ \A t \in Sessions :
         t # s => \/ AfterReserve(s, a)[t] = flows[t]
                  \/ /\ AfterReserve(s, a)[t] = NoFlow
                     /\ flows[t].expiresAt <= now

LEMMA NoFlowType == NoFlow \in AuthFlowRecord
  BY DEF NoFlow, AuthFlowRecord

LEMMA MoveOn ==
    ASSUME TypeOK, NEW a \in Attempts, NEW p \in Pcs,
           attempt' = [attempt EXCEPT ![a].pc = p]
    PROVE  Moves(a, p, attempt[a].cause)
<1>1. [attempt EXCEPT ![a].pc = p] \in [Attempts -> Attempt]
  BY DEF TypeOK, Attempt
<1> QED
  BY <1>1 DEF TypeOK, Attempt, Moves

LEMMA MoveAndBlame ==
    ASSUME TypeOK, NEW a \in Attempts, NEW p \in Pcs, NEW w \in Causes,
           attempt' = [attempt EXCEPT ![a].pc = p, ![a].cause = w]
    PROVE  Moves(a, p, w)
<1>1. [attempt EXCEPT ![a].pc = p, ![a].cause = w] \in [Attempts -> Attempt]
  BY DEF TypeOK, Attempt
<1> QED
  BY <1>1 DEF TypeOK, Attempt, Moves

LEMMA ThrowEffect ==
    ASSUME TypeOK, NEW a \in Attempts, NEW w \in Causes, Throw(a, w)
    PROVE  Moves(a, "abandon", w)
  BY MoveAndBlame DEF Throw, Pcs, InFlightPcs

LEMMA AnsweredEffect ==
    ASSUME TypeOK, NEW a \in Attempts, NEW outcome, NEW granted, NEW p \in Pcs,
           Answered(a, outcome, granted, p)
    PROVE  \/ Moves(a, "abandon", "store") /\ outcome # "replied"
           \/ Moves(a, "abandon", "superseded") /\ outcome = "replied" /\ ~granted
           \/ Moves(a, p, attempt[a].cause) /\ outcome = "replied" /\ granted
  BY ThrowEffect, MoveOn DEF Answered, Causes

\* A reservation replaces the session's record; the memory store also drops
\* records that have expired.
LEMMA ReserveRecords ==
    ASSUME TypeOK, NEW s \in Sessions, NEW a \in Attempts
    PROVE  ReservedRecords(s, a)
<1>1. CreatePendingAuthFlowRecord(a) \in AuthFlowRecord
  BY LifetimeAssumption DEF TypeOK, CreatePendingAuthFlowRecord, AuthFlowRecord
<1>2. /\ Swept \in [Sessions -> AuthFlowRecord]
      /\ \A t \in Sessions : \/ Swept[t] = flows[t]
                             \/ Swept[t] = NoFlow /\ flows[t].expiresAt <= now
  BY NoFlowType DEF TypeOK, Swept, IsAuthFlowExpired
<1> QED
  BY <1>1, <1>2 DEF AfterReserve, ReservedRecords

LEMMA PublishRecords ==
    ASSUME TypeOK, NEW s \in Sessions, NEW a \in Attempts
    PROVE  /\ OnlyAt(s, AfterPublish(s, a))
           /\ PublishGranted(s, a) =>
                AfterPublish(s, a)[s] = PublishAuthFlow(flows[s], a)
           /\ ~PublishGranted(s, a) => AfterPublish(s, a)[s] \in {flows[s], NoFlow}
<1>1. PublishAuthFlow(flows[s], a) \in AuthFlowRecord
  BY DEF TypeOK, PublishAuthFlow, AuthFlowRecord
<1> QED
  BY <1>1, NoFlowType DEF TypeOK, AfterPublish, PublishGranted, OnlyAt

LEMMA AuthorizeRecords ==
    ASSUME TypeOK, NEW s \in Sessions, NEW a \in Attempts
    PROVE  /\ OnlyAt(s, AfterAuthorize(s, a))
           /\ AfterAuthorize(s, a)[s] \in {flows[s], NoFlow}
           /\ AuthorizeGranted(s, a) => AfterAuthorize(s, a) = flows
  BY NoFlowType DEF TypeOK, AfterAuthorize, AuthorizeGranted, OnlyAt

LEMMA ConsumeRecords ==
    ASSUME TypeOK, NEW s \in Sessions, NEW a \in Attempts
    PROVE  /\ OnlyAt(s, AfterConsume(s, a))
           /\ AfterConsume(s, a)[s] =
                IF MatchesReadyAuthFlow(flows[s], a) THEN NoFlow ELSE flows[s]
  BY NoFlowType DEF TypeOK, AfterConsume, OnlyAt

LEMMA AbandonRecords ==
    ASSUME TypeOK, NEW s \in Sessions, NEW a \in Attempts
    PROVE  /\ OnlyAt(s, AfterAbandon(s, a))
           /\ AfterAbandon(s, a)[s] =
                IF IsCurrentReservation(flows[s], a) THEN NoFlow ELSE flows[s]
  BY NoFlowType DEF TypeOK, AfterAbandon, OnlyAt

---------------------------------------------------------------------------
(* The effect of each action of a sign-in, in these terms *)

LEMMA ReserveEffect ==
    ASSUME TypeOK, NEW a \in Attempts, NEW s \in Sessions, Reserve(a, s)
    PROVE  ReserveOutcome(a, s)
<1> DEFINE R(o) == [pc |-> IF o = "replied" THEN "prepare" ELSE "failed",
                    session |-> s,
                    expiresAt |-> now + Lifetime,
                    cause |-> IF o = "replied" THEN "none" ELSE "store"]
<1>1. PICK o \in StoreOutcomes :
        /\ IF o = "refused" THEN UNCHANGED <<flows, newest>>
           ELSE flows' = AfterReserve(s, a) /\ newest' = [newest EXCEPT ![s] = a]
        /\ attempt' = [attempt EXCEPT ![a] = R(o)]
  BY DEF Reserve
<1>2. R(o) \in Attempt
  BY LifetimeAssumption DEF TypeOK, Attempt, Pcs, InFlightPcs, Causes
<1>3. attempt' \in [Attempts -> Attempt] /\ attempt'[a] = R(o)
      /\ \A b \in Attempts : b # a => attempt'[b] = attempt[b]
  BY <1>1, <1>2 DEF TypeOK
<1>4. attempt[a].pc = "idle" /\ UNCHANGED <<now, callback>>
  BY DEF Reserve
<1> QED
  BY <1>1, <1>3, <1>4 DEF ReserveOutcome

LEMMA PublishEffect ==
    ASSUME TypeOK, NEW a \in Attempts, attempt[a].session \in Sessions, Publish(a)
    PROVE  PublishOutcome(a)
<1> DEFINE s == attempt[a].session
<1>1. PICK o \in StoreOutcomes :
        /\ flows' = IF o = "refused" THEN flows ELSE AfterPublish(s, a)
        /\ Answered(a, o, PublishGranted(s, a), "save")
  BY DEF Publish
<1>2. "save" \in Pcs
  BY DEF Pcs, InFlightPcs
<1>3. attempt[a].pc = "prepare" /\ UNCHANGED <<now, callback, newest>>
  BY DEF Publish
<1> QED
  BY <1>1, <1>2, <1>3, AnsweredEffect DEF PublishOutcome

LEMMA AuthorizeEffect ==
    ASSUME TypeOK, NEW a \in Attempts, attempt[a].session \in Sessions,
           AuthorizeRedirect(a)
    PROVE  AuthorizeOutcome(a)
<1> DEFINE s == attempt[a].session
<1>1. PICK o \in StoreOutcomes :
        /\ flows' = IF o = "refused" THEN flows ELSE AfterAuthorize(s, a)
        /\ Answered(a, o, AuthorizeGranted(s, a), "redirected")
  BY DEF AuthorizeRedirect
<1>2. "redirected" \in Pcs
  BY DEF Pcs, InFlightPcs
<1>3. attempt[a].pc = "authorize" /\ UNCHANGED <<now, callback, newest>>
  BY DEF AuthorizeRedirect
<1> QED
  BY <1>1, <1>2, <1>3, AnsweredEffect DEF AuthorizeOutcome

LEMMA AbandonEffect ==
    ASSUME TypeOK, NEW a \in Attempts, Abandon(a)
    PROVE  AbandonOutcome(a)
<1>1. PICK o \in StoreOutcomes :
        /\ flows' = IF o = "refused" THEN flows ELSE AfterAbandon(attempt[a].session, a)
        /\ attempt' = [attempt EXCEPT ![a].pc = IF o = "refused" THEN "failed" ELSE "cleaned"]
  BY DEF Abandon
<1>2. attempt[a].pc = "abandon" /\ UNCHANGED <<now, callback, newest>>
  BY DEF Abandon
<1>3. "failed" \in Pcs /\ "cleaned" \in Pcs
  BY DEF Pcs
<1>4. CASE o = "refused"
  BY <1>1, <1>2, <1>3, <1>4, MoveOn DEF AbandonOutcome
<1>5. CASE o # "refused"
  BY <1>1, <1>2, <1>3, <1>5, MoveOn DEF AbandonOutcome
<1> QED
  BY <1>4, <1>5

LEMMA CallbackEffect ==
    ASSUME TypeOK, NEW c \in Callbacks, NEW s \in Sessions, NEW a \in Attempts,
           AuthCodeCallback(c, s, a)
    PROVE  CallbackOutcome(c, s, a)
<1>1. /\ attempt[a].pc = "redirected" /\ UNCHANGED <<now, attempt, newest>>
      /\ callback[c].outcome = "idle"
  BY DEF AuthCodeCallback
<1>2. PICK o \in {"rejected", "storeFailed", "idpFailed", "completing"},
           f \in {NoAttempt, a} :
        /\ callback' = [callback EXCEPT ![c] = [outcome |-> o, session |-> s, state |-> a, flow |-> f]]
        /\ f = NoAttempt => flows' \in {flows, AfterConsume(s, a)}
        /\ f = a => ConsumeGranted(s, a) /\ flows' = AfterConsume(s, a)
  BY AttemptAssumption DEF AuthCodeCallback, Ends, ConsumeGranted, MatchesReadyAuthFlow
<1>3. [outcome |-> o, session |-> s, state |-> a, flow |-> f] \in Callback
  BY DEF Callback
<1> QED
  BY <1>1, <1>2, <1>3 DEF TypeOK, CallbackOutcome

LEMMA RestartEffect ==
    ASSUME TypeOK, Restart
    PROVE  RestartOutcome
<1>1. PICK A \in SUBSET {a \in Attempts : InFlight(a)} :
        /\ Backend = "memory" => A = {a \in Attempts : InFlight(a)}
        /\ flows' = IF Backend = "memory" THEN [s \in Sessions |-> NoFlow] ELSE flows
        /\ attempt' = [a \in Attempts |->
              IF a \in A THEN [attempt[a] EXCEPT !.pc = "failed", !.cause = "restart"]
              ELSE attempt[a]]
  BY DEF Restart
<1>2. \A a \in Attempts :
        LET r == [attempt[a] EXCEPT !.pc = "failed", !.cause = "restart"] IN
        /\ r \in Attempt /\ r.pc = "failed" /\ r.cause = "restart"
        /\ r.session = attempt[a].session /\ r.expiresAt = attempt[a].expiresAt
  BY DEF TypeOK, Attempt, Pcs, Causes
<1>3. UNCHANGED <<now, callback, newest>>
  BY DEF Restart
<1> QED
  BY <1>1, <1>2, <1>3 DEF TypeOK, RestartOutcome

---------------------------------------------------------------------------
(* Every action preserves IInv *)

LEMMA ReserveKeeps ==
    ASSUME IInv, NEW a \in Attempts, NEW s \in Sessions, Reserve(a, s)
    PROVE  IInv'
<1> USE DEF IInv
<1>1. ReserveOutcome(a, s)
  BY ReserveEffect
<1>2. ReservedRecords(s, a)
  BY ReserveRecords
<1> USE <1>1, <1>2 DEF ReserveOutcome, ReservedRecords
<1>3. TypeOK'
  BY DEF TypeOK
<1>4. \A t \in Sessions : flows[t].reservationId # a
  BY AttemptAssumption DEF FlowOwnership, NoFlow
<1>5. FlowOwnership'
  <2>1. CASE UNCHANGED <<flows, newest>>
    BY <2>1, <1>4 DEF FlowOwnership
  <2>2. CASE flows' = AfterReserve(s, a) /\ newest' = [newest EXCEPT ![s] = a]
    <3>1. flows'[s] = CreatePendingAuthFlowRecord(a) /\ newest'[s] = a
      BY <2>2 DEF TypeOK
    <3>2. \A t \in Sessions :
            t # s => newest'[t] = newest[t] /\ flows'[t] \in {flows[t], NoFlow}
      BY <2>2 DEF TypeOK
    <3>3. attempt'[a].pc \in {"failed", "prepare"}
      OBVIOUS
    <3> QED
      BY <3>1, <3>2, <3>3, <1>4 DEF FlowOwnership, CreatePendingAuthFlowRecord
  <2> QED
    BY <2>1, <2>2
<1>6. NewestHasItsFlow'
  <2> SUFFICES ASSUME NEW t \in Sessions, NEW b \in Attempts,
                      attempt'[b].session = t, newest'[t] = b,
                      now < attempt'[b].expiresAt
               PROVE  /\ attempt'[b].pc = "prepare" =>
                            IsPendingReservation(flows'[t], b)
                      /\ attempt'[b].pc \in {"save", "authorize"} =>
                            IsReadyReservation(flows'[t], b)
    BY DEF NewestHasItsFlow, IsPendingReservation, IsReadyReservation
  <2>1. CASE b = a
    BY <2>1 DEF TypeOK, IsPendingReservation, CreatePendingAuthFlowRecord
  <2>2. CASE b # a
    <3>1. attempt'[b] = attempt[b] /\ newest[t] = b /\ (flows' # flows => t # s)
      BY <2>2 DEF TypeOK
    <3>2. flows'[t] = flows[t] \/ flows[t].expiresAt <= now
      BY <3>1
    <3>3. CASE flows'[t] = flows[t]
      BY <3>1, <3>3 DEF NewestHasItsFlow
    <3>4. CASE flows[t].expiresAt <= now
      <4>1. now \in Nat /\ attempt[b].expiresAt \in Nat
        BY DEF TypeOK, Attempt
      <4>2. flows[t].reservationId # b
        BY <3>1, <3>4, <4>1, AttemptAssumption DEF FlowOwnership, NoFlow
      <4> QED
        BY <3>1, <4>2 DEF NewestHasItsFlow, IsPendingReservation, IsReadyReservation
    <3> QED
      BY <3>2, <3>3, <3>4
  <2> QED
    BY <2>1, <2>2
<1>7. SessionsKnown'
  <2>1. \A b \in Attempts : attempt'[b].pc # "idle" => attempt'[b].session \in Sessions
    BY DEF SessionsKnown
  <2>2. \A b \in Attempts : attempt'[b].pc = "idle" => attempt'[b].cause = "none"
    BY DEF SessionsKnown
  <2>3. \A t \in Sessions :
          newest'[t] # NoAttempt =>
              attempt'[newest'[t]].session = t /\ attempt'[newest'[t]].pc # "idle"
    BY DEF SessionsKnown, TypeOK
  <2> QED
    BY <2>1, <2>2, <2>3 DEF SessionsKnown
<1>8. ConsumedIsGone'
  <2> SUFFICES ASSUME NEW c \in Callbacks, NEW b, b = callback[c].flow, b # NoAttempt
               PROVE  /\ callback[c].outcome # "idle"
                      /\ attempt'[b].pc = "redirected"
                      /\ \A t \in Sessions : flows'[t].reservationId # b
    BY DEF ConsumedIsGone
  <2>1. /\ callback[c].outcome # "idle" /\ b \in Attempts
        /\ attempt[b].pc = "redirected"
        /\ \A t \in Sessions : flows[t].reservationId # b
    BY DEF ConsumedIsGone, TypeOK, Callback
  <2>2. b # a
    BY <2>1
  <2>3. attempt'[b] = attempt[b]
    BY <2>1, <2>2
  <2>4. ASSUME NEW t \in Sessions
        PROVE  flows'[t].reservationId # b
    <3>1. flows'[t] \in {flows[t], NoFlow, CreatePendingAuthFlowRecord(a)}
      OBVIOUS
    <3> QED
      BY <2>1, <2>2, <3>1 DEF NoFlow, CreatePendingAuthFlowRecord
  <2> QED
    BY <2>1, <2>3, <2>4
<1>9. ConsumedAtMostOnce'
  BY DEF ConsumedAtMostOnce
<1>10. SupersededOnlyByNewer'
  <2> SUFFICES ASSUME NEW b \in Attempts, attempt'[b].cause = "superseded"
               PROVE  newest'[attempt'[b].session] # b \/ attempt'[b].expiresAt <= now
    BY DEF SupersededOnlyByNewer
  <2>1. b # a /\ attempt'[b] = attempt[b] /\ attempt[b].session \in Sessions
    BY DEF SessionsKnown
  <2> QED
    BY <2>1 DEF SupersededOnlyByNewer, TypeOK
<1> QED
  BY <1>3, <1>5, <1>6, <1>7, <1>8, <1>9, <1>10

\* A step of one sign-in that changes no record but its own keeps IInv.
LEMMA OwnStepKeeps ==
    ASSUME IInv, NEW a \in Attempts, InFlight(a),
           NEW p \in Pcs, NEW w \in Causes, Moves(a, p, w), p \notin {"idle", "prepare"},
           UNCHANGED <<now, callback, newest>>,
           NEW s \in Sessions, s = attempt[a].session,
           OnlyAt(s, flows'),
           \/ flows'[s] = flows[s]
           \/ /\ flows[s].reservationId = a
              /\ \/ flows'[s] = NoFlow
                 \/ flows'[s] = PublishAuthFlow(flows[s], a),
           p = "cleaned" => flows'[s].reservationId # a,
           newest[s] = a /\ now < attempt[a].expiresAt =>
              /\ w = "superseded" => attempt[a].cause = "superseded"
              /\ p \in {"save", "authorize"} => IsReadyReservation(flows'[s], a)
    PROVE  IInv'
<1> USE DEF IInv, Moves, OnlyAt
<1>1. TypeOK'
  BY DEF TypeOK
<1>2. attempt[a].pc \notin {"idle", "redirected"}
  BY DEF InFlight, InFlightPcs
<1>3. \A b \in Attempts : /\ attempt'[b].session = attempt[b].session
                          /\ attempt'[b].expiresAt = attempt[b].expiresAt
                          /\ b # a => attempt'[b] = attempt[b]
  OBVIOUS
<1>4. FlowOwnership'
  <2> SUFFICES ASSUME NEW t \in Sessions, flows'[t] # NoFlow
               PROVE  LET b == flows'[t].reservationId IN
                      /\ b \in Attempts
                      /\ newest[t] = b
                      /\ attempt'[b].session = t
                      /\ attempt'[b].pc \notin {"idle", "cleaned"}
                      /\ flows'[t].expiresAt = attempt'[b].expiresAt
                      /\ \/ flows'[t].status = "pending" /\ flows'[t].authState = NoAttempt
                         \/ flows'[t].status = "ready" /\ flows'[t].authState = b
    BY DEF FlowOwnership
  <2>1. CASE flows'[t] = flows[t]
    <3>1. flows[t].reservationId = a => t = s
      BY <2>1 DEF FlowOwnership
    <3> QED
      BY <2>1, <3>1, <1>3 DEF FlowOwnership
  <2>2. CASE flows'[t] # flows[t]
    <3>1. t = s /\ flows[s].reservationId = a /\ flows'[s] = PublishAuthFlow(flows[s], a)
      BY <2>2
    <3>2. flows[s] # NoFlow
      BY <3>1, AttemptAssumption DEF NoFlow
    <3>3. /\ flows'[s].status = "ready" /\ flows'[s].authState = a
          /\ flows'[s].reservationId = a /\ flows'[s].expiresAt = flows[s].expiresAt
      BY <3>1 DEF PublishAuthFlow, TypeOK, AuthFlowRecord
    <3> QED
      BY <3>1, <3>2, <3>3, <1>3 DEF FlowOwnership
  <2> QED
    BY <2>1, <2>2
<1>5. NewestHasItsFlow'
  <2> SUFFICES ASSUME NEW t \in Sessions, NEW b \in Attempts,
                      attempt'[b].session = t, newest[t] = b,
                      now < attempt'[b].expiresAt
               PROVE  /\ attempt'[b].pc = "prepare" =>
                            IsPendingReservation(flows'[t], b)
                      /\ attempt'[b].pc \in {"save", "authorize"} =>
                            IsReadyReservation(flows'[t], b)
    BY DEF NewestHasItsFlow, IsPendingReservation, IsReadyReservation
  <2>1. CASE b = a
    BY <2>1
  <2>2. CASE b # a
    <3>1. flows'[t] = flows[t]
      BY <2>2, AttemptAssumption DEF FlowOwnership, NoFlow
    <3> QED
      BY <2>2, <3>1 DEF NewestHasItsFlow
  <2> QED
    BY <2>1, <2>2
<1>6. SessionsKnown'
  BY <1>2, <1>3 DEF SessionsKnown, TypeOK
<1>7. ConsumedIsGone'
  <2> SUFFICES ASSUME NEW c \in Callbacks, callback[c].flow # NoAttempt
               PROVE  LET b == callback[c].flow IN
                      /\ callback[c].outcome # "idle"
                      /\ attempt'[b].pc = "redirected"
                      /\ \A t \in Sessions : flows'[t].reservationId # b
    BY DEF ConsumedIsGone
  <2> DEFINE b == callback[c].flow
  <2>1. b \in Attempts /\ attempt[b].pc = "redirected" /\ callback[c].outcome # "idle"
        /\ \A t \in Sessions : flows[t].reservationId # b
    BY DEF ConsumedIsGone, TypeOK, Callback
  <2>2. b # a
    BY <2>1, <1>2
  <2>3. NoFlow.reservationId # b
    BY <2>1, AttemptAssumption DEF NoFlow
  <2>4. PublishAuthFlow(flows[s], a).reservationId = flows[s].reservationId
    BY DEF PublishAuthFlow, TypeOK, AuthFlowRecord
  <2>5. \A t \in Sessions : flows'[t].reservationId # b
    BY <2>1, <2>3, <2>4
  <2> QED
    BY <2>1, <2>2, <2>5
<1>8. ConsumedAtMostOnce'
  BY DEF ConsumedAtMostOnce
<1>9. SupersededOnlyByNewer'
  <2> SUFFICES ASSUME NEW b \in Attempts, attempt'[b].cause = "superseded"
               PROVE  newest[attempt[b].session] # b \/ attempt[b].expiresAt <= now
    BY <1>3 DEF SupersededOnlyByNewer
  <2>1. now \in Nat /\ attempt[b].expiresAt \in Nat
    BY DEF TypeOK, Attempt
  <2>2. CASE attempt[b].cause = "superseded"
    BY <2>2 DEF SupersededOnlyByNewer
  <2>3. CASE attempt[b].cause # "superseded"
    <3>1. b = a /\ w = "superseded"
      BY <2>3
    <3> QED
      BY <2>1, <2>3, <3>1
  <2> QED
    BY <2>2, <2>3
<1> QED
  BY <1>1, <1>4, <1>5, <1>6, <1>7, <1>8, <1>9

LEMMA InFlightSession ==
    ASSUME IInv, NEW a \in Attempts, InFlight(a)
    PROVE  attempt[a].session \in Sessions
  BY DEF IInv, SessionsKnown, InFlight, InFlightPcs

LEMMA EntraFailsKeeps ==
    ASSUME IInv, NEW a \in Attempts, EntraFails(a)
    PROVE  IInv'
<1>1. attempt[a].pc = "prepare" /\ UNCHANGED <<flows, now, callback, newest>>
  BY DEF EntraFails
<1>2. "abandon" \in Pcs /\ "entra" \in Causes /\ InFlight(a)
  BY <1>1 DEF Pcs, InFlightPcs, Causes, InFlight
<1>3. Moves(a, "abandon", "entra")
  BY <1>2, ThrowEffect DEF EntraFails, IInv
<1>4. attempt[a].session \in Sessions
  BY <1>2, InFlightSession
<1>5. OnlyAt(attempt[a].session, flows')
  BY <1>1 DEF OnlyAt, IInv, TypeOK
<1> QED
  BY <1>1, <1>2, <1>3, <1>4, <1>5, OwnStepKeeps

LEMMA SaveSessionKeeps ==
    ASSUME IInv, NEW a \in Attempts, SaveSession(a)
    PROVE  IInv'
<1>1. attempt[a].pc = "save" /\ UNCHANGED <<flows, now, callback, newest>>
  BY DEF SaveSession
<1>2. /\ "abandon" \in Pcs /\ "authorize" \in Pcs /\ "save" \in Causes
      /\ attempt[a].cause \in Causes /\ InFlight(a)
  BY <1>1 DEF Pcs, InFlightPcs, Causes, InFlight, IInv, TypeOK, Attempt
<1>3. \/ Moves(a, "abandon", "save")
      \/ Moves(a, "authorize", attempt[a].cause)
  BY <1>2, ThrowEffect, MoveOn DEF SaveSession, IInv
<1>4. attempt[a].session \in Sessions
  BY <1>2, InFlightSession
<1>5. OnlyAt(attempt[a].session, flows')
  BY <1>1 DEF OnlyAt, IInv, TypeOK
<1>6. newest[attempt[a].session] = a /\ now < attempt[a].expiresAt =>
        IsReadyReservation(flows'[attempt[a].session], a)
  BY <1>1, <1>4 DEF IInv, NewestHasItsFlow
<1>7. CASE Moves(a, "abandon", "save")
  BY <1>1, <1>2, <1>4, <1>5, <1>7, OwnStepKeeps
<1>8. CASE Moves(a, "authorize", attempt[a].cause)
  BY <1>1, <1>2, <1>4, <1>5, <1>6, <1>8, OwnStepKeeps
<1> QED
  BY <1>3, <1>7, <1>8

LEMMA PublishKeeps ==
    ASSUME IInv, NEW a \in Attempts, Publish(a)
    PROVE  IInv'
<1> DEFINE s == attempt[a].session
<1>1. attempt[a].pc = "prepare" /\ InFlight(a) /\ s \in Sessions
  BY InFlightSession DEF Publish, InFlight, InFlightPcs
<1>2. PublishOutcome(a)
  BY <1>1, PublishEffect DEF IInv
<1>3. /\ "abandon" \in Pcs /\ "save" \in Pcs /\ "store" \in Causes
      /\ "superseded" \in Causes /\ attempt[a].cause \in Causes
  BY DEF Pcs, InFlightPcs, Causes, IInv, TypeOK, Attempt
<1>4. /\ OnlyAt(s, AfterPublish(s, a)) /\ OnlyAt(s, flows)
      /\ PublishGranted(s, a) =>
            AfterPublish(s, a)[s] = PublishAuthFlow(flows[s], a)
      /\ ~PublishGranted(s, a) => AfterPublish(s, a)[s] \in {flows[s], NoFlow}
  BY <1>1, PublishRecords DEF IInv, OnlyAt, TypeOK
<1>5. AfterPublish(s, a)[s] # flows[s] => flows[s].reservationId = a
  BY DEF AfterPublish, IsPendingReservation
<1>6. newest[s] = a /\ now < attempt[a].expiresAt => PublishGranted(s, a)
  <2> SUFFICES ASSUME newest[s] = a, now < attempt[a].expiresAt
               PROVE  PublishGranted(s, a)
    OBVIOUS
  <2>1. IsPendingReservation(flows[s], a)
    BY <1>1 DEF IInv, NewestHasItsFlow
  <2>2. flows[s].expiresAt = attempt[a].expiresAt
    BY <1>1, <2>1 DEF IInv, FlowOwnership, IsPendingReservation, NoFlow
  <2>3. now \in Nat /\ attempt[a].expiresAt \in Nat
    BY DEF IInv, TypeOK, Attempt
  <2> QED
    BY <2>1, <2>2, <2>3 DEF PublishGranted, IsAuthFlowExpired
<1>7. PublishGranted(s, a) => IsReadyReservation(AfterPublish(s, a)[s], a)
  BY <1>1, <1>4
     DEF PublishGranted, IsPendingReservation, IsReadyReservation, PublishAuthFlow,
         IInv, TypeOK, AuthFlowRecord
<1>8. UNCHANGED <<now, callback, newest>>
  BY <1>2 DEF PublishOutcome
<1>9. CASE Moves(a, "abandon", "store") /\ flows' \in {flows, AfterPublish(s, a)}
  BY <1>1, <1>3, <1>4, <1>5, <1>8, <1>9, OwnStepKeeps
<1>10. CASE /\ Moves(a, "abandon", "superseded") /\ ~PublishGranted(s, a)
            /\ flows' = AfterPublish(s, a)
  BY <1>1, <1>3, <1>4, <1>5, <1>6, <1>8, <1>10, OwnStepKeeps
<1>11. CASE /\ Moves(a, "save", attempt[a].cause) /\ PublishGranted(s, a)
            /\ flows' = AfterPublish(s, a)
  <2>1. flows[s].reservationId = a
    BY <1>11 DEF PublishGranted, IsPendingReservation
  <2> QED
    BY <1>1, <1>3, <1>4, <1>7, <1>8, <1>11, <2>1, OwnStepKeeps
<1> QED
  BY <1>2, <1>9, <1>10, <1>11 DEF PublishOutcome

LEMMA AuthorizeRedirectKeeps ==
    ASSUME IInv, NEW a \in Attempts, AuthorizeRedirect(a)
    PROVE  IInv'
<1> DEFINE s == attempt[a].session
<1>1. attempt[a].pc = "authorize" /\ InFlight(a) /\ s \in Sessions
  BY InFlightSession DEF AuthorizeRedirect, InFlight, InFlightPcs
<1>2. AuthorizeOutcome(a)
  BY <1>1, AuthorizeEffect DEF IInv
<1>3. /\ "abandon" \in Pcs /\ "redirected" \in Pcs /\ "store" \in Causes
      /\ "superseded" \in Causes /\ attempt[a].cause \in Causes
  BY DEF Pcs, InFlightPcs, Causes, IInv, TypeOK, Attempt
<1>4. /\ OnlyAt(s, AfterAuthorize(s, a)) /\ OnlyAt(s, flows)
      /\ AfterAuthorize(s, a)[s] \in {flows[s], NoFlow}
  BY <1>1, AuthorizeRecords DEF IInv, OnlyAt, TypeOK
<1>5. AfterAuthorize(s, a)[s] # flows[s] => flows[s].reservationId = a
  BY DEF AfterAuthorize, IsReadyReservation
<1>6. newest[s] = a /\ now < attempt[a].expiresAt => AuthorizeGranted(s, a)
  <2> SUFFICES ASSUME newest[s] = a, now < attempt[a].expiresAt
               PROVE  AuthorizeGranted(s, a)
    OBVIOUS
  <2>1. IsReadyReservation(flows[s], a)
    BY <1>1 DEF IInv, NewestHasItsFlow
  <2>2. flows[s].expiresAt = attempt[a].expiresAt
    BY <1>1, <2>1 DEF IInv, FlowOwnership, IsReadyReservation, NoFlow
  <2>3. now \in Nat /\ attempt[a].expiresAt \in Nat
    BY DEF IInv, TypeOK, Attempt
  <2> QED
    BY <2>1, <2>2, <2>3 DEF AuthorizeGranted, IsAuthFlowExpired
<1>7. UNCHANGED <<now, callback, newest>>
  BY <1>2 DEF AuthorizeOutcome
<1>8. CASE Moves(a, "abandon", "store") /\ flows' \in {flows, AfterAuthorize(s, a)}
  BY <1>1, <1>3, <1>4, <1>5, <1>7, <1>8, OwnStepKeeps
<1>9. CASE /\ Moves(a, "abandon", "superseded") /\ ~AuthorizeGranted(s, a)
           /\ flows' = AfterAuthorize(s, a)
  BY <1>1, <1>3, <1>4, <1>5, <1>6, <1>7, <1>9, OwnStepKeeps
<1>10. CASE /\ Moves(a, "redirected", attempt[a].cause) /\ AuthorizeGranted(s, a)
            /\ flows' = AfterAuthorize(s, a)
  <2>1. attempt[a].cause = "superseded" \/ attempt[a].cause # "superseded"
    OBVIOUS
  <2> QED
    BY <1>1, <1>3, <1>4, <1>5, <1>7, <1>10, OwnStepKeeps
<1> QED
  BY <1>2, <1>8, <1>9, <1>10 DEF AuthorizeOutcome

LEMMA AbandonKeeps ==
    ASSUME IInv, NEW a \in Attempts, Abandon(a)
    PROVE  IInv'
<1> DEFINE s == attempt[a].session
<1>1. attempt[a].pc = "abandon" /\ InFlight(a) /\ s \in Sessions
  BY InFlightSession DEF Abandon, InFlight, InFlightPcs
<1>2. AbandonOutcome(a)
  BY AbandonEffect DEF IInv
<1>3. "failed" \in Pcs /\ "cleaned" \in Pcs /\ attempt[a].cause \in Causes
  BY DEF Pcs, IInv, TypeOK, Attempt
<1>4. /\ OnlyAt(s, AfterAbandon(s, a)) /\ OnlyAt(s, flows)
      /\ AfterAbandon(s, a)[s] \in {flows[s], NoFlow}
      /\ AfterAbandon(s, a)[s] # flows[s] => flows[s].reservationId = a
  BY <1>1, AbandonRecords DEF IInv, OnlyAt, TypeOK, IsCurrentReservation
<1>5. AfterAbandon(s, a)[s].reservationId # a
  <2>1. NoFlow.reservationId # a
    BY AttemptAssumption DEF NoFlow
  <2>2. flows[s].status = "absent" => flows[s] = NoFlow
    BY <1>1 DEF IInv, FlowOwnership
  <2> QED
    BY <1>1, <2>1, <2>2, AbandonRecords DEF IInv, IsCurrentReservation
<1>6. UNCHANGED <<now, callback, newest>>
  BY <1>2 DEF AbandonOutcome
<1>7. CASE Moves(a, "failed", attempt[a].cause) /\ flows' = flows
  BY <1>1, <1>3, <1>4, <1>6, <1>7, OwnStepKeeps
<1>8. CASE Moves(a, "cleaned", attempt[a].cause) /\ flows' = AfterAbandon(s, a)
  BY <1>1, <1>3, <1>4, <1>5, <1>6, <1>8, OwnStepKeeps
<1> QED
  BY <1>2, <1>7, <1>8 DEF AbandonOutcome

LEMMA CallbackKeeps ==
    ASSUME IInv, NEW c \in Callbacks, NEW s \in Sessions, NEW a \in Attempts,
           AuthCodeCallback(c, s, a)
    PROVE  IInv'
<1> USE DEF IInv
<1>1. CallbackOutcome(c, s, a)
  BY CallbackEffect
<1> USE <1>1 DEF CallbackOutcome
<1>2. /\ OnlyAt(s, AfterConsume(s, a))
      /\ AfterConsume(s, a)[s] =
           IF MatchesReadyAuthFlow(flows[s], a) THEN NoFlow ELSE flows[s]
  BY ConsumeRecords
<1>3. MatchesReadyAuthFlow(flows[s], a) => flows[s].reservationId = a
  BY AttemptAssumption DEF MatchesReadyAuthFlow, FlowOwnership, NoFlow
<1>4. /\ flows' \in [Sessions -> AuthFlowRecord]
      /\ \A t \in Sessions :
            \/ flows'[t] = flows[t]
            \/ flows'[t] = NoFlow /\ t = s /\ flows[t].reservationId = a
  BY <1>2, <1>3 DEF OnlyAt, TypeOK
<1>5. TypeOK'
  BY <1>4 DEF TypeOK
<1>6. FlowOwnership'
  BY <1>4 DEF FlowOwnership
<1>7. NewestHasItsFlow'
  <2> SUFFICES ASSUME NEW t \in Sessions, NEW b \in Attempts,
                      attempt[b].session = t, newest[t] = b,
                      now < attempt[b].expiresAt,
                      attempt[b].pc \in {"prepare", "save", "authorize"}
               PROVE  flows'[t] = flows[t]
    BY DEF NewestHasItsFlow
  <2>1. b # a
    OBVIOUS
  <2> QED
    BY <2>1, <1>4, AttemptAssumption DEF FlowOwnership, NoFlow
<1>8. SessionsKnown'
  BY DEF SessionsKnown
<1>9. \A d \in Callbacks :
         /\ callback'[d].flow = callback[d].flow \/ d = c
         /\ callback'[c].flow # NoAttempt =>
                flows[s].reservationId = a /\ callback'[c].flow = a
  BY <1>3 DEF ConsumeGranted
<1>10. NoFlow.reservationId = NoAttempt
  BY DEF NoFlow
<1>11. ConsumedIsGone'
  <2> SUFFICES ASSUME NEW d \in Callbacks, callback'[d].flow # NoAttempt
               PROVE  LET b == callback'[d].flow IN
                      /\ callback'[d].outcome # "idle"
                      /\ attempt[b].pc = "redirected"
                      /\ \A t \in Sessions : flows'[t].reservationId # b
    BY DEF ConsumedIsGone
  <2>1. CASE d = c
    <3>1. callback'[d].flow = a /\ flows' = AfterConsume(s, a) /\ ConsumeGranted(s, a)
      BY <2>1
    <3>2. flows'[s] = NoFlow
      BY <3>1, <1>2 DEF ConsumeGranted
    <3>3. \A t \in Sessions : t # s => flows'[t] = flows[t] /\ flows[t].reservationId # a
      BY <1>3, <1>4, <3>1, AttemptAssumption DEF FlowOwnership, NoFlow, ConsumeGranted
    <3> QED
      BY <2>1, <3>1, <3>2, <3>3, <1>10, AttemptAssumption
  <2>2. CASE d # c
    BY <2>2, <1>4, <1>10 DEF ConsumedIsGone
  <2> QED
    BY <2>1, <2>2
<1>12. ConsumedAtMostOnce'
  BY <1>9 DEF ConsumedAtMostOnce, ConsumedIsGone
<1>13. SupersededOnlyByNewer'
  BY DEF SupersededOnlyByNewer
<1> QED
  BY <1>5, <1>6, <1>7, <1>8, <1>11, <1>12, <1>13

LEMMA RestartKeeps ==
    ASSUME IInv, Restart
    PROVE  IInv'
<1> USE DEF IInv
<1>1. RestartOutcome
  BY RestartEffect
<1> USE <1>1 DEF RestartOutcome
<1>2. /\ flows' \in [Sessions -> AuthFlowRecord]
      /\ \A s \in Sessions : flows'[s] \in {flows[s], NoFlow}
  BY NoFlowType DEF TypeOK
<1>3. TypeOK'
  BY <1>2 DEF TypeOK
<1>4. \A a \in Attempts : /\ attempt'[a].session = attempt[a].session
                          /\ attempt'[a].expiresAt = attempt[a].expiresAt
                          /\ \/ attempt'[a] = attempt[a]
                             \/ /\ InFlight(a) /\ attempt'[a].pc = "failed"
                                /\ attempt'[a].cause = "restart"
  OBVIOUS
<1>5. FlowOwnership'
  <2> SUFFICES ASSUME NEW s \in Sessions, flows'[s] # NoFlow
               PROVE  LET a == flows[s].reservationId IN
                      attempt'[a].pc \notin {"idle", "cleaned"} /\ flows'[s] = flows[s]
    BY <1>4 DEF FlowOwnership
  <2> QED
    BY <1>2, <1>4 DEF FlowOwnership
<1>6. NewestHasItsFlow'
  <2>1. CASE flows' = flows
    BY <1>4, <2>1 DEF NewestHasItsFlow
  <2>2. CASE \A a \in Attempts : InFlight(a) => attempt'[a].pc = "failed"
    BY <1>4, <2>2 DEF NewestHasItsFlow, InFlight, InFlightPcs
  <2> QED
    BY <2>1, <2>2
<1>7. SessionsKnown'
  BY <1>4 DEF SessionsKnown, InFlight, InFlightPcs, TypeOK
<1>8. ConsumedIsGone'
  <2>1. NoFlow.reservationId = NoAttempt
    BY DEF NoFlow
  <2>2. \A c \in Callbacks : callback[c].flow \in Attempts \cup {NoAttempt}
    BY DEF TypeOK, Callback
  <2> QED
    BY <1>2, <1>4, <2>1, <2>2 DEF ConsumedIsGone, InFlight, InFlightPcs
<1>9. ConsumedAtMostOnce'
  BY DEF ConsumedAtMostOnce
<1>10. SupersededOnlyByNewer'
  BY <1>4 DEF SupersededOnlyByNewer
<1> QED
  BY <1>3, <1>5, <1>6, <1>7, <1>8, <1>9, <1>10

\* Losing a record that has expired keeps IInv.
LEMMA ExpireKeeps ==
    ASSUME IInv, Expire
    PROVE  IInv'
<1> USE DEF IInv
<1>1. PICK s \in Sessions : IsAuthFlowExpired(flows[s]) /\ flows' = [flows EXCEPT ![s] = NoFlow]
  BY DEF Expire, ExpireKey
<1>2. UNCHANGED <<now, attempt, callback, newest>>
  BY DEF Expire
<1> USE <1>1, <1>2
<1>3. TypeOK'
  BY NoFlowType DEF TypeOK
<1>4. \A t \in Sessions : \/ flows'[t] = flows[t]
                          \/ flows'[t] = NoFlow /\ flows[t].expiresAt <= now
  BY DEF TypeOK, IsAuthFlowExpired
<1>5. FlowOwnership'
  BY <1>4 DEF FlowOwnership
<1>6. NewestHasItsFlow'
  <2> SUFFICES ASSUME NEW t \in Sessions, NEW b \in Attempts,
                      attempt[b].session = t, newest[t] = b,
                      now < attempt[b].expiresAt,
                      attempt[b].pc \in {"prepare", "save", "authorize"}
               PROVE  flows'[t] = flows[t]
    BY DEF NewestHasItsFlow
  <2>1. now \in Nat /\ attempt[b].expiresAt \in Nat
    BY DEF TypeOK, Attempt
  <2>2. flows[t].reservationId = b
    BY DEF NewestHasItsFlow, IsPendingReservation, IsReadyReservation
  <2>3. flows[t].expiresAt = attempt[b].expiresAt
    BY <2>2, AttemptAssumption DEF FlowOwnership, NoFlow
  <2> QED
    BY <1>4, <2>1, <2>3
<1>7. SessionsKnown'
  BY DEF SessionsKnown
<1>8. ConsumedIsGone'
  BY <1>4 DEF ConsumedIsGone, NoFlow
<1>9. ConsumedAtMostOnce'
  BY DEF ConsumedAtMostOnce
<1>10. SupersededOnlyByNewer'
  BY DEF SupersededOnlyByNewer
<1> QED
  BY <1>3, <1>5, <1>6, <1>7, <1>8, <1>9, <1>10

LEMMA TickKeeps ==
    ASSUME IInv, Tick
    PROVE  IInv'
<1> USE DEF IInv
<1>1. now' = now + 1 /\ UNCHANGED <<flows, attempt, callback, newest>> /\ now \in Nat
  BY DEF Tick, TypeOK
<1> USE <1>1
<1>2. TypeOK'
  BY DEF TypeOK
<1>3. \A a \in Attempts : attempt[a].expiresAt \in Nat
  BY DEF TypeOK, Attempt
<1>4. FlowOwnership' /\ SessionsKnown' /\ ConsumedIsGone' /\ ConsumedAtMostOnce'
  BY DEF FlowOwnership, SessionsKnown, ConsumedIsGone, ConsumedAtMostOnce
<1>5. NewestHasItsFlow'
  BY <1>3 DEF NewestHasItsFlow, IsPendingReservation, IsReadyReservation
<1>6. SupersededOnlyByNewer'
  BY <1>3 DEF SupersededOnlyByNewer
<1> QED
  BY <1>2, <1>4, <1>5, <1>6

---------------------------------------------------------------------------
(* The theorems *)

LEMMA InitIInv == Init => IInv
<1> SUFFICES ASSUME Init PROVE IInv
  OBVIOUS
<1> USE DEF Init
<1>1. TypeOK
  BY DEF TypeOK, NoFlow, AuthFlowRecord, Attempt, Callback, Pcs, Causes
<1>2. FlowOwnership
  BY DEF FlowOwnership
<1>3. NewestHasItsFlow /\ SessionsKnown
  BY DEF NewestHasItsFlow, SessionsKnown
<1>4. ConsumedIsGone /\ ConsumedAtMostOnce /\ SupersededOnlyByNewer
  BY DEF ConsumedIsGone, ConsumedAtMostOnce, SupersededOnlyByNewer
<1> QED
  BY <1>1, <1>2, <1>3, <1>4 DEF IInv

LEMMA NextKeeps == IInv /\ [Next]_vars => IInv'
<1> SUFFICES ASSUME IInv, [Next]_vars PROVE IInv'
  OBVIOUS
<1>1. CASE UNCHANGED vars
  <2> USE <1>1 DEF vars, IInv
  <2>1. TypeOK' /\ SessionsKnown' /\ ConsumedIsGone'
    BY DEF TypeOK, SessionsKnown, ConsumedIsGone
  <2>2. FlowOwnership' /\ ConsumedAtMostOnce' /\ SupersededOnlyByNewer'
    BY DEF FlowOwnership, ConsumedAtMostOnce, SupersededOnlyByNewer
  <2>3. NewestHasItsFlow'
    BY DEF NewestHasItsFlow, IsPendingReservation, IsReadyReservation
  <2> QED
    BY <2>1, <2>2, <2>3
<1>2. CASE Next
  BY <1>2, ReserveKeeps, EntraFailsKeeps, PublishKeeps, SaveSessionKeeps,
     AuthorizeRedirectKeeps, AbandonKeeps, CallbackKeeps, RestartKeeps, ExpireKeeps,
     TickKeeps DEF Next, ServerStep
<1> QED
  BY <1>1, <1>2

\* The inductive invariant holds in every reachable state.
THEOREM Invariance == Spec => []IInv
<1>1. Init => IInv
  BY InitIInv
<1>2. IInv /\ [Next]_vars => IInv'
  BY NextKeeps
<1> QED
  BY <1>1, <1>2, PTL DEF Spec

\* Every reachable state has the types of TypeOK.
THEOREM TypeCorrect == Spec => []TypeOK
<1>1. IInv => TypeOK
  BY DEF IInv
<1> QED
  BY <1>1, Invariance, PTL

\* No flow is ever handed to two callbacks, however answers are duplicated.
THEOREM FlowConsumedAtMostOnce == Spec => []ConsumedAtMostOnce
<1>1. IInv => ConsumedAtMostOnce
  BY DEF IInv
<1> QED
  BY <1>1, Invariance, PTL

\* A sign-in is told that it was superseded only when it was, or is too late.
THEOREM SupersededSoundly == Spec => []SupersededOnlyByNewer
<1>1. IInv => SupersededOnlyByNewer
  BY DEF IInv
<1> QED
  BY <1>1, Invariance, PTL

\* A sign-in that failed and was cleaned up has no flow in the store.
THEOREM FailureIsClean == Spec => []FailedLeavesNoFlow
<1>1. IInv => FailedLeavesNoFlow
  BY AttemptAssumption DEF IInv, FlowOwnership, FailedLeavesNoFlow, NoFlow
<1> QED
  BY <1>1, Invariance, PTL

\* A callback is handed only the flow of its own state, the newest and timely one
\* of its session.
THEOREM OnlyCurrentConsumed == Spec => ConsumesOnlyCurrentFlow
<1>1. ASSUME IInv, NEW c \in Callbacks, NEW s \in Sessions, NEW a \in Attempts,
             AuthCodeCallback(c, s, a)
      PROVE  ConsumesCurrent
  <2>1. CallbackOutcome(c, s, a)
    BY <1>1, CallbackEffect DEF IInv
  <2>2. SUFFICES ASSUME NEW d \in Callbacks, callback'[d].flow # callback[d].flow
                 PROVE  /\ callback'[d].flow = callback'[d].state
                        /\ callback'[d].flow = newest[callback'[d].session]
                        /\ attempt[callback'[d].flow].session = callback'[d].session
                        /\ attempt[callback'[d].flow].pc = "redirected"
                        /\ now < attempt[callback'[d].flow].expiresAt
    BY DEF ConsumesCurrent
  <2>3. d = c /\ callback'[d].flow # NoAttempt
    BY <1>1, <2>1, <2>2 DEF CallbackOutcome, IInv, ConsumedIsGone
  <2>4. /\ callback'[d].flow = a /\ callback'[d].session = s /\ callback'[d].state = a
        /\ ConsumeGranted(s, a) /\ attempt[a].pc = "redirected"
    BY <2>1, <2>3 DEF CallbackOutcome
  <2>5. /\ flows[s].reservationId = a /\ newest[s] = a /\ attempt[a].session = s
        /\ flows[s].expiresAt = attempt[a].expiresAt
    BY <1>1, <2>4, AttemptAssumption
       DEF ConsumeGranted, MatchesReadyAuthFlow, IInv, FlowOwnership, NoFlow
  <2>6. now \in Nat /\ attempt[a].expiresAt \in Nat
    BY <1>1 DEF IInv, TypeOK, Attempt
  <2> QED
    BY <2>4, <2>5, <2>6 DEF ConsumeGranted, IsAuthFlowExpired
<1>2. ASSUME UNCHANGED callback PROVE ConsumesCurrent
  BY <1>2 DEF ConsumesCurrent
<1>3. IInv /\ [Next]_vars => [ConsumesCurrent]_vars
  <2> SUFFICES ASSUME IInv, Next PROVE ConsumesCurrent
    OBVIOUS
  <2> QED
    BY <1>1, <1>2 DEF Next, ServerStep, Reserve, EntraFails, Publish, SaveSession,
       AuthorizeRedirect, Abandon, Restart, Expire, Tick
<1> QED
  BY <1>3, Invariance, PTL DEF Spec, ConsumesOnlyCurrentFlow

---------------------------------------------------------------------------
(* How flows are lost *)

\* A step that changes the record of s alone, and loses it only because it has
\* expired or because its own sign-in gives up.
LEMMA OwnLoss ==
    ASSUME NEW s \in Sessions, OnlyAt(s, flows'),
           flows'[s].reservationId # flows[s].reservationId =>
              \/ Abandon(flows[s].reservationId)
              \/ flows[s].expiresAt <= now
    PROVE  LossJustified
  BY DEF OnlyAt, LossJustified

LEMMA NoLoss == ASSUME UNCHANGED flows PROVE LossJustified
  BY DEF LossJustified

LEMMA ReserveLoses ==
    ASSUME IInv, NEW a \in Attempts, NEW s \in Sessions, Reserve(a, s)
    PROVE  LossJustified
<1>1. ReserveOutcome(a, s) /\ ReservedRecords(s, a)
  BY ReserveEffect, ReserveRecords DEF IInv
<1>2. CASE UNCHANGED flows
  BY <1>2, NoLoss
<1>3. CASE flows' = AfterReserve(s, a) /\ newest' = [newest EXCEPT ![s] = a]
  <2>1. newest'[s] = a /\ newest[s] # a
    BY <1>1, <1>3, AttemptAssumption DEF ReserveOutcome, IInv, TypeOK, SessionsKnown
  <2>2. \A t \in Sessions :
           t # s => flows'[t] = flows[t] \/ flows[t].expiresAt <= now
    BY <1>1, <1>3 DEF ReservedRecords
  <2> QED
    BY <2>1, <2>2 DEF LossJustified
<1> QED
  BY <1>1, <1>2, <1>3 DEF ReserveOutcome

LEMMA PublishLoses ==
    ASSUME IInv, NEW a \in Attempts, Publish(a)
    PROVE  LossJustified
<1> DEFINE s == attempt[a].session
<1>1. s \in Sessions
  BY InFlightSession DEF Publish, InFlight, InFlightPcs
<1>2. flows' = flows \/ flows' = AfterPublish(s, a)
  BY DEF Publish
<1>3. OnlyAt(s, AfterPublish(s, a))
  BY <1>1, PublishRecords DEF IInv
<1>4. AfterPublish(s, a)[s].reservationId # flows[s].reservationId =>
        flows[s].expiresAt <= now
  BY <1>1 DEF AfterPublish, PublishAuthFlow, IsAuthFlowExpired, IInv, TypeOK, AuthFlowRecord
<1> QED
  BY <1>1, <1>2, <1>3, <1>4, NoLoss, OwnLoss

LEMMA AuthorizeLoses ==
    ASSUME IInv, NEW a \in Attempts, AuthorizeRedirect(a)
    PROVE  LossJustified
<1> DEFINE s == attempt[a].session
<1>1. s \in Sessions
  BY InFlightSession DEF AuthorizeRedirect, InFlight, InFlightPcs
<1>2. flows' = flows \/ flows' = AfterAuthorize(s, a)
  BY DEF AuthorizeRedirect
<1>3. OnlyAt(s, AfterAuthorize(s, a))
  BY <1>1, AuthorizeRecords DEF IInv
<1>4. AfterAuthorize(s, a)[s].reservationId # flows[s].reservationId =>
        flows[s].expiresAt <= now
  BY <1>1 DEF AfterAuthorize, IsAuthFlowExpired
<1> QED
  BY <1>1, <1>2, <1>3, <1>4, NoLoss, OwnLoss

LEMMA AbandonLoses ==
    ASSUME IInv, NEW a \in Attempts, Abandon(a)
    PROVE  LossJustified
<1> DEFINE s == attempt[a].session
<1>1. s \in Sessions
  BY InFlightSession DEF Abandon, InFlight, InFlightPcs
<1>2. flows' = flows \/ flows' = AfterAbandon(s, a)
  BY DEF Abandon
<1>3. /\ OnlyAt(s, AfterAbandon(s, a))
      /\ AfterAbandon(s, a)[s] # flows[s] => flows[s].reservationId = a
  BY <1>1, AbandonRecords DEF IInv, IsCurrentReservation
<1> QED
  BY <1>1, <1>2, <1>3, NoLoss, OwnLoss

LEMMA CallbackLoses ==
    ASSUME IInv, NEW c \in Callbacks, NEW s \in Sessions, NEW a \in Attempts,
           AuthCodeCallback(c, s, a)
    PROVE  LossJustified
<1>1. CallbackOutcome(c, s, a)
  BY CallbackEffect DEF IInv
<1>2. flows' = flows \/ flows' = AfterConsume(s, a)
  BY <1>1 DEF CallbackOutcome
<1>3. /\ OnlyAt(s, AfterConsume(s, a))
      /\ AfterConsume(s, a)[s] =
           IF MatchesReadyAuthFlow(flows[s], a) THEN NoFlow ELSE flows[s]
  BY ConsumeRecords DEF IInv
<1>4. MatchesReadyAuthFlow(flows[s], a) => flows[s].reservationId = a
  BY AttemptAssumption DEF MatchesReadyAuthFlow, IInv, FlowOwnership, NoFlow
<1> QED
  BY <1>2, <1>3, <1>4, NoLoss DEF LossJustified, OnlyAt

LEMMA RestartLoses ==
    ASSUME Restart
    PROVE  LossJustified
<1>1. flows' = flows \/ (Backend = "memory" /\ flows' = [s \in Sessions |-> NoFlow])
  BY DEF Restart
<1> QED
  BY <1>1, NoLoss DEF LossJustified

LEMMA ExpireLoses ==
    ASSUME IInv, Expire
    PROVE  LossJustified
<1>1. PICK s \in Sessions :
        IsAuthFlowExpired(flows[s]) /\ flows' = [flows EXCEPT ![s] = NoFlow]
  BY DEF Expire, ExpireKey
<1>2. OnlyAt(s, flows')
  BY <1>1, NoFlowType DEF IInv, TypeOK, OnlyAt
<1> QED
  BY <1>1, <1>2, OwnLoss DEF IsAuthFlowExpired

\* No sign-in's live flow is ever taken away by another's cleanup: it goes only
\* to a newer reservation, a callback with its own state, its own failure, its
\* deadline or a restart.
THEOREM FlowLossSound == Spec => FlowLossJustified
<1>1. ASSUME IInv, Next PROVE LossJustified
  <2>1. CASE UNCHANGED flows
    BY <2>1, NoLoss
  <2> QED
    BY <1>1, <2>1, ReserveLoses, PublishLoses, AuthorizeLoses, AbandonLoses,
       CallbackLoses, RestartLoses, ExpireLoses
       DEF Next, ServerStep, EntraFails, SaveSession, Tick
<1>2. IInv /\ [Next]_vars => [LossJustified]_vars
  BY <1>1
<1> QED
  BY <1>2, Invariance, PTL DEF Spec, FlowLossJustified

=============================================================================
