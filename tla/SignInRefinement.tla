-------------------------- MODULE SignInRefinement --------------------------
(***************************************************************************)
(* SignIn implements OneTimeFlow: every step of the handlers and the store *)
(* is a step of the promise, or changes nothing in it.                     *)
(***************************************************************************)
EXTENDS SignInProofs

---------------------------------------------------------------------------
(* The life of a flow, read off the store *)

\* The only record that can be a's is the one of a's session.
LEMMA OwnedAtHome ==
    ASSUME IInv, NEW a \in Attempts, NEW s \in Sessions, flows[s].reservationId = a
    PROVE  /\ attempt[a].session = s
           /\ attempt[a].pc # "idle"
           /\ flows[s].expiresAt = attempt[a].expiresAt
           /\ flows[s].status \in {"pending", "ready"}
           /\ \A c \in Callbacks : callback[c].flow # a
           /\ LifeOf(a) = IF flows[s].status = "ready" THEN "published" ELSE "reserved"
<1>1. /\ attempt[a].session = s /\ attempt[a].pc # "idle"
      /\ flows[s].expiresAt = attempt[a].expiresAt
      /\ flows[s].status \in {"pending", "ready"}
  BY AttemptAssumption DEF IInv, FlowOwnership, NoFlow
<1>2. \A c \in Callbacks : callback[c].flow # a
  BY AttemptAssumption DEF IInv, ConsumedIsGone
<1>3. Owned(a)
  BY DEF Owned
<1> QED
  BY <1>1, <1>2, <1>3 DEF LifeOf

LEMMA NotOwned ==
    ASSUME NEW a \in Attempts, ~Owned(a)
    PROVE  LifeOf(a) = IF \E c \in Callbacks : callback[c].flow = a THEN "consumed"
                       ELSE IF attempt[a].pc = "idle" THEN "unused" ELSE "dead"
  BY DEF LifeOf

\* A step of which the promise sees at most that flows end: no record is added
\* or changed, no flow handed over, and no sign-in that has begun is renamed.
OnlyEnds ==
    /\ UNCHANGED now
    /\ \A s \in Sessions : flows'[s] \in {flows[s], NoFlow}
    /\ \A c \in Callbacks : callback'[c].flow = callback[c].flow
    /\ \A a \in Attempts : attempt[a].pc # "idle" =>
          /\ attempt'[a].pc # "idle"
          /\ attempt'[a].session = attempt[a].session
          /\ attempt'[a].expiresAt = attempt[a].expiresAt

LEMMA LifeOfNext ==
    ASSUME NEW a \in Attempts
    PROVE  LifeOf(a)' =
             IF \E s \in Sessions : flows'[s].reservationId = a
             THEN IF flows'[attempt'[a].session].status = "ready"
                  THEN "published" ELSE "reserved"
             ELSE IF \E c \in Callbacks : callback'[c].flow = a THEN "consumed"
             ELSE IF attempt'[a].pc = "idle" THEN "unused" ELSE "dead"
  BY DEF LifeOf, Owned

\* In such a step a live flow stays as it is or dies, and so does an unused one.
LEMMA LifeEnds ==
    ASSUME IInv, OnlyEnds, NEW a \in Attempts
    PROVE  /\ \/ LifeOf(a)' = LifeOf(a)
              \/ /\ LifeOf(a)' = "dead" /\ ~Owned(a)'
                 /\ LifeOf(a) \in {"unused", "reserved", "published"}
           /\ Owned(a)' => Owned(a)
           /\ LifeOf(a)' = LifeOf(a) => (Owned(a)' <=> Owned(a))
           /\ Owned(a)' => /\ attempt'[a].session = attempt[a].session
                           /\ attempt'[a].expiresAt = attempt[a].expiresAt
<1>1. NoFlow.reservationId # a
  BY AttemptAssumption DEF NoFlow
<1>2. CASE \E s \in Sessions : flows'[s].reservationId = a
  <2>1. PICK s \in Sessions : flows'[s].reservationId = a
    BY <1>2
  <2>2. flows'[s] = flows[s] /\ flows[s].reservationId = a
    BY <1>1, <2>1 DEF OnlyEnds
  <2>3. /\ attempt[a].session = s /\ attempt[a].pc # "idle"
        /\ LifeOf(a) = IF flows[s].status = "ready" THEN "published" ELSE "reserved"
    BY <2>2, OwnedAtHome
  <2>4. LifeOf(a)' = LifeOf(a)
    BY <1>2, <2>2, <2>3, LifeOfNext DEF OnlyEnds
  <2>5. Owned(a) /\ Owned(a)'
    BY <2>1, <2>2 DEF Owned
  <2> QED
    BY <2>3, <2>4, <2>5 DEF OnlyEnds
<1>3. CASE ~\E s \in Sessions : flows'[s].reservationId = a
  <2>1. ~Owned(a)'
    BY <1>3 DEF Owned
  <2>2. LifeOf(a)' = IF \E c \in Callbacks : callback[c].flow = a THEN "consumed"
                     ELSE IF attempt'[a].pc = "idle" THEN "unused" ELSE "dead"
    BY <1>3, LifeOfNext DEF OnlyEnds
  <2>3. CASE \E s \in Sessions : flows[s].reservationId = a
    <3>1. PICK s \in Sessions : flows[s].reservationId = a
      BY <2>3
    <3>2. /\ attempt[a].pc # "idle" /\ \A c \in Callbacks : callback[c].flow # a
          /\ LifeOf(a) \in {"published", "reserved"}
      BY <3>1, OwnedAtHome
    <3>3. LifeOf(a)' = "dead"
      BY <2>2, <3>2 DEF OnlyEnds
    <3> QED
      BY <2>1, <3>2, <3>3
  <2>4. CASE ~\E s \in Sessions : flows[s].reservationId = a
    <3>1. ~Owned(a)
      BY <2>4 DEF Owned
    <3>2. LifeOf(a) = IF \E c \in Callbacks : callback[c].flow = a THEN "consumed"
                      ELSE IF attempt[a].pc = "idle" THEN "unused" ELSE "dead"
      BY <3>1, NotOwned
    <3> QED
      BY <2>1, <2>2, <3>1, <3>2 DEF OnlyEnds
  <2> QED
    BY <2>3, <2>4
<1> QED
  BY <1>2, <1>3

LEMMA EndsRefine ==
    ASSUME IInv, OnlyEnds
    PROVE  Promise!End
<1> DEFINE D == {a \in Attempts : LifeOf(a)' # LifeOf(a)}
<1>1. D \in SUBSET {a \in Attempts :
         [b \in Attempts |-> LifeOf(b)][a] \in {"unused", "reserved", "published"}}
  BY LifeEnds
<1>2. [a \in Attempts |-> LifeOf(a)]' =
        [a \in Attempts |-> IF a \in D THEN "dead" ELSE [b \in Attempts |-> LifeOf(b)][a]]
  BY LifeEnds
<1>3. [a \in Attempts |-> IF Owned(a) THEN attempt[a].session ELSE NoSession]' =
        [a \in Attempts |-> IF a \in D THEN NoSession
           ELSE [b \in Attempts |-> IF Owned(b) THEN attempt[b].session ELSE NoSession][a]]
  BY LifeEnds
<1>4. [a \in Attempts |-> IF Owned(a) THEN attempt[a].expiresAt ELSE 0]' =
        [a \in Attempts |-> IF a \in D THEN 0
           ELSE [b \in Attempts |-> IF Owned(b) THEN attempt[b].expiresAt ELSE 0][a]]
  BY LifeEnds
<1>5. UNCHANGED now
  BY DEF OnlyEnds
<1> HIDE DEF D
<1> QED
  BY <1>1, <1>2, <1>3, <1>4, <1>5 DEF Promise!End, Promise!Ended

---------------------------------------------------------------------------
(* Steps of the handlers that the promise has a name for *)

LEMMA ReserveRefines ==
    ASSUME IInv, NEW a \in Attempts, NEW s \in Sessions, Reserve(a, s)
    PROVE  Promise!Reserve(a, s) \/ Promise!End
<1>1. ReserveOutcome(a, s) /\ ReservedRecords(s, a)
  BY ReserveEffect, ReserveRecords DEF IInv
<1>2. CASE UNCHANGED flows
  <2>1. OnlyEnds
    BY <1>1, <1>2 DEF ReserveOutcome, OnlyEnds
  <2> QED
    BY <2>1, EndsRefine
<1>3. CASE flows' = AfterReserve(s, a)
  <2> DEFINE D == {b \in Attempts \ {a} : LifeOf(b)' # LifeOf(b)}
  <2>1. /\ flows'[s].reservationId = a /\ flows'[s].status = "pending"
        /\ attempt'[a].session = s /\ attempt'[a].expiresAt = now + Lifetime
        /\ UNCHANGED <<now, callback>>
    BY <1>1, <1>3 DEF ReserveOutcome, ReservedRecords, CreatePendingAuthFlowRecord
  <2>2. \A t \in Sessions : t # s => flows'[t] \in {flows[t], NoFlow}
    BY <1>1, <1>3 DEF ReservedRecords
  <2>3. \A b \in Attempts : b # a => attempt'[b] = attempt[b]
    BY <1>1 DEF ReserveOutcome
  <2>4. LifeOf(a) = "unused"
    <3>1. attempt[a].pc = "idle"
      BY <1>1 DEF ReserveOutcome
    <3>2. ~Owned(a)
      BY <3>1, OwnedAtHome DEF Owned
    <3>3. \A c \in Callbacks : callback[c].flow # a
      BY <3>1, AttemptAssumption DEF IInv, ConsumedIsGone
    <3> QED
      BY <3>1, <3>2, <3>3, NotOwned
  <2>5. LifeOf(a)' = "reserved" /\ Owned(a)'
    BY <2>1, LifeOfNext DEF Owned
  <2>6. ASSUME NEW b \in Attempts, b # a
        PROVE  \/ /\ LifeOf(b)' = LifeOf(b) /\ (Owned(b)' <=> Owned(b))
                  /\ \A t \in Sessions : flows[t].reservationId = b => t # s
               \/ /\ LifeOf(b)' = "dead" /\ ~Owned(b)' /\ Owned(b)
                  /\ LifeOf(b) \in {"reserved", "published"}
    <3>1. NoFlow.reservationId # b
      BY AttemptAssumption DEF NoFlow
    <3>2. CASE Owned(b)
      <4>1. PICK t \in Sessions : flows[t].reservationId = b
        BY <3>2 DEF Owned
      <4>2. /\ attempt[b].session = t /\ attempt[b].pc # "idle"
            /\ LifeOf(b) = IF flows[t].status = "ready" THEN "published" ELSE "reserved"
            /\ \A c \in Callbacks : callback[c].flow # b
        BY <4>1, OwnedAtHome
      <4>3. \A r \in Sessions : flows[r].reservationId = b => r = t
        BY <4>2, OwnedAtHome
      <4>4. CASE flows'[t].reservationId = b
        <5>1. t # s /\ flows'[t] = flows[t]
          BY <2>1, <2>2, <2>6, <3>1, <4>4
        <5>2. LifeOf(b)' = LifeOf(b) /\ Owned(b)'
          BY <2>3, <2>6, <4>2, <4>4, <5>1, LifeOfNext DEF Owned
        <5> QED
          BY <3>2, <4>3, <5>1, <5>2
      <4>5. CASE flows'[t].reservationId # b
        <5>1. \A r \in Sessions : flows'[r].reservationId # b
          BY <2>1, <2>2, <2>6, <3>1, <4>3, <4>5
        <5>2. LifeOf(b)' = "dead" /\ ~Owned(b)'
          BY <2>1, <2>3, <2>6, <4>2, <5>1, LifeOfNext DEF Owned
        <5> QED
          BY <3>2, <4>2, <5>2
      <4> QED
        BY <4>4, <4>5
    <3>3. CASE ~Owned(b)
      <4>1. \A r \in Sessions : flows'[r].reservationId # b /\ flows[r].reservationId # b
        BY <2>1, <2>2, <2>6, <3>1, <3>3 DEF Owned
      <4>2. LifeOf(b)' = LifeOf(b) /\ ~Owned(b)'
        BY <2>1, <2>3, <2>6, <3>3, <4>1, LifeOfNext, NotOwned DEF Owned
      <4> QED
        BY <3>3, <4>1, <4>2
    <3> QED
      BY <3>2, <3>3
  <2>7. D \in SUBSET Promise!Live
    BY <2>6 DEF Promise!Live
  <2>8. \A b \in Promise!Live :
          [d \in Attempts |-> IF Owned(d) THEN attempt[d].session ELSE NoSession][b] = s
            => b \in D
    <3> SUFFICES ASSUME NEW b \in Attempts,
                        LifeOf(b) \in {"reserved", "published"},
                        Owned(b) => attempt[b].session = s
                 PROVE  b # a /\ LifeOf(b)' # LifeOf(b)
      BY DEF Promise!Live
    <3>1. b # a
      BY <2>4
    <3>2. Owned(b)
      BY NotOwned
    <3>3. flows[s].reservationId = b
      BY <3>2, OwnedAtHome DEF Owned
    <3> QED
      BY <2>6, <3>1, <3>3
  <2>9. [b \in Attempts |-> LifeOf(b)]' =
          [b \in Attempts |-> IF b = a THEN "reserved" ELSE IF b \in D THEN "dead"
             ELSE [d \in Attempts |-> LifeOf(d)][b]]
    BY <2>5, <2>6
  <2>10. [b \in Attempts |-> IF Owned(b) THEN attempt[b].session ELSE NoSession]' =
          [b \in Attempts |-> IF b = a THEN s ELSE IF b \in D THEN NoSession
             ELSE [d \in Attempts |->
                     IF Owned(d) THEN attempt[d].session ELSE NoSession][b]]
    BY <2>1, <2>3, <2>5, <2>6
  <2>11. [b \in Attempts |-> IF Owned(b) THEN attempt[b].expiresAt ELSE 0]' =
          [b \in Attempts |-> IF b = a THEN now + Lifetime ELSE IF b \in D THEN 0
             ELSE [d \in Attempts |->
                     IF Owned(d) THEN attempt[d].expiresAt ELSE 0][b]]
    BY <2>1, <2>3, <2>5, <2>6
  <2> HIDE DEF D
  <2> QED
    BY <2>1, <2>4, <2>7, <2>8, <2>9, <2>10, <2>11 DEF Promise!Reserve
<1> QED
  BY <1>1, <1>2, <1>3 DEF ReserveOutcome

LEMMA PublishRefines ==
    ASSUME IInv, NEW a \in Attempts, Publish(a)
    PROVE  Promise!Publish(a) \/ Promise!End
<1> DEFINE s == attempt[a].session
<1>1. attempt[a].pc = "prepare" /\ s \in Sessions
  BY InFlightSession DEF Publish, InFlight, InFlightPcs
<1>2. PublishOutcome(a)
  BY <1>1, PublishEffect DEF IInv
<1>3. /\ OnlyAt(s, AfterPublish(s, a))
      /\ PublishGranted(s, a) => AfterPublish(s, a)[s] = PublishAuthFlow(flows[s], a)
      /\ ~PublishGranted(s, a) => AfterPublish(s, a)[s] \in {flows[s], NoFlow}
  BY <1>1, PublishRecords DEF IInv
<1>4. /\ UNCHANGED <<now, callback>>
      /\ \A b \in Attempts : /\ attempt'[b].session = attempt[b].session
                             /\ attempt'[b].expiresAt = attempt[b].expiresAt
                             /\ attempt'[b].pc = "idle" <=> attempt[b].pc = "idle"
  BY <1>2 DEF PublishOutcome, Moves
<1>5. CASE flows' = flows \/ ~PublishGranted(s, a)
  <2>1. OnlyEnds
    BY <1>2, <1>3, <1>4, <1>5 DEF PublishOutcome, OnlyEnds, OnlyAt
  <2> QED
    BY <2>1, EndsRefine
<1>6. CASE flows' = AfterPublish(s, a) /\ PublishGranted(s, a)
  <2>1. /\ flows[s].reservationId = a /\ flows[s].status = "pending"
        /\ ~(flows[s].expiresAt <= now)
    BY <1>6 DEF PublishGranted, IsPendingReservation, IsAuthFlowExpired
  <2>2. /\ flows'[s].reservationId = a /\ flows'[s].status = "ready"
        /\ \A t \in Sessions : t # s => flows'[t] = flows[t]
    BY <1>1, <1>3, <1>6, <2>1 DEF PublishAuthFlow, OnlyAt, IInv, TypeOK, AuthFlowRecord
  <2>3. LifeOf(a) = "reserved" /\ flows[s].expiresAt = attempt[a].expiresAt
    BY <1>1, <2>1, OwnedAtHome
  <2>4. LifeOf(a)' = "published" /\ Owned(a) /\ Owned(a)'
    BY <1>1, <1>4, <2>1, <2>2, LifeOfNext DEF Owned
  <2>5. ASSUME NEW b \in Attempts, b # a
        PROVE  LifeOf(b)' = LifeOf(b) /\ (Owned(b)' <=> Owned(b))
    <3>1. \A t \in Sessions : flows'[t].reservationId = b <=> flows[t].reservationId = b
      BY <2>1, <2>2, <2>5
    <3>2. CASE Owned(b)
      <4>1. PICK t \in Sessions : flows[t].reservationId = b
        BY <3>2 DEF Owned
      <4>2. /\ t # s /\ attempt[b].session = t
            /\ LifeOf(b) = IF flows[t].status = "ready" THEN "published" ELSE "reserved"
        BY <2>1, <2>5, <4>1, OwnedAtHome
      <4> QED
        BY <1>4, <2>2, <3>1, <4>1, <4>2, LifeOfNext DEF Owned
    <3>3. CASE ~Owned(b)
      BY <1>4, <3>1, <3>3, LifeOfNext, NotOwned DEF Owned
    <3> QED
      BY <3>2, <3>3
  <2>6. [b \in Attempts |-> LifeOf(b)]' =
          [[b \in Attempts |-> LifeOf(b)] EXCEPT ![a] = "published"]
    BY <2>4, <2>5
  <2>7. /\ UNCHANGED [b \in Attempts |-> IF Owned(b) THEN attempt[b].session ELSE NoSession]
        /\ UNCHANGED [b \in Attempts |-> IF Owned(b) THEN attempt[b].expiresAt ELSE 0]
    BY <1>4, <2>4, <2>5
  <2>8. now < [b \in Attempts |-> IF Owned(b) THEN attempt[b].expiresAt ELSE 0][a]
    BY <2>1, <2>3, <2>4 DEF IInv, TypeOK, Attempt
  <2> QED
    BY <1>4, <2>3, <2>6, <2>7, <2>8 DEF Promise!Publish
<1> QED
  BY <1>2, <1>5, <1>6 DEF PublishOutcome

LEMMA CallbackRefines ==
    ASSUME IInv, NEW c \in Callbacks, NEW s \in Sessions, NEW a \in Attempts,
           AuthCodeCallback(c, s, a)
    PROVE  Promise!Consume(a) \/ Promise!End
<1>1. CallbackOutcome(c, s, a)
  BY CallbackEffect DEF IInv
<1>2. /\ OnlyAt(s, AfterConsume(s, a))
      /\ AfterConsume(s, a)[s] =
           IF MatchesReadyAuthFlow(flows[s], a) THEN NoFlow ELSE flows[s]
  BY ConsumeRecords DEF IInv
<1>3. UNCHANGED <<now, attempt>>
  BY <1>1 DEF CallbackOutcome
<1>4. callback[c].flow = NoAttempt
  BY <1>1 DEF CallbackOutcome, IInv, ConsumedIsGone
<1>5. CASE callback'[c].flow = NoAttempt
  <2>1. \A t \in Sessions : flows'[t] \in {flows[t], NoFlow}
    BY <1>1, <1>2, <1>5, AttemptAssumption DEF CallbackOutcome, OnlyAt
  <2>2. OnlyEnds
    BY <1>1, <1>3, <1>4, <1>5, <2>1 DEF CallbackOutcome, OnlyEnds
  <2> QED
    BY <2>2, EndsRefine
<1>6. CASE callback'[c].flow = a /\ ConsumeGranted(s, a) /\ flows' = AfterConsume(s, a)
  <2>1. /\ flows[s].reservationId = a /\ flows[s].status = "ready"
        /\ ~(flows[s].expiresAt <= now)
    BY <1>6, AttemptAssumption
       DEF ConsumeGranted, MatchesReadyAuthFlow, IsAuthFlowExpired, IInv, FlowOwnership, NoFlow
  <2>2. /\ LifeOf(a) = "published" /\ attempt[a].session = s
        /\ flows[s].expiresAt = attempt[a].expiresAt
    BY <2>1, OwnedAtHome
  <2>3. flows'[s] = NoFlow /\ \A t \in Sessions : t # s => flows'[t] = flows[t]
    BY <1>2, <1>6 DEF ConsumeGranted, OnlyAt
  <2>4. \A b \in Attempts : NoFlow.reservationId # b
    BY AttemptAssumption DEF NoFlow
  <2>5. \A t \in Sessions : flows'[t].reservationId # a
    <3>1. \A t \in Sessions : flows[t].reservationId = a => t = s
      BY <2>2, OwnedAtHome
    <3> QED
      BY <2>3, <2>4, <3>1
  <2>6. LifeOf(a)' = "consumed" /\ ~Owned(a)' /\ Owned(a)
    BY <1>6, <2>1, <2>5, LifeOfNext DEF Owned
  <2>7. ASSUME NEW b \in Attempts, b # a
        PROVE  LifeOf(b)' = LifeOf(b) /\ (Owned(b)' <=> Owned(b))
    <3>1. /\ \A t \in Sessions : flows'[t].reservationId = b <=> flows[t].reservationId = b
          /\ \A d \in Callbacks : callback'[d].flow = b <=> callback[d].flow = b
      BY <1>1, <1>4, <1>6, <2>1, <2>3, <2>4, <2>7, AttemptAssumption DEF CallbackOutcome
    <3>2. CASE Owned(b)
      <4>1. PICK t \in Sessions : flows[t].reservationId = b
        BY <3>2 DEF Owned
      <4>2. /\ t # s /\ attempt[b].session = t
            /\ LifeOf(b) = IF flows[t].status = "ready" THEN "published" ELSE "reserved"
        BY <2>1, <2>7, <4>1, OwnedAtHome
      <4> QED
        BY <1>3, <2>3, <3>1, <4>1, <4>2, LifeOfNext DEF Owned
    <3>3. CASE ~Owned(b)
      BY <1>3, <3>1, <3>3, LifeOfNext, NotOwned DEF Owned
    <3> QED
      BY <3>2, <3>3
  <2>8. [b \in Attempts |-> LifeOf(b)]' =
          [[b \in Attempts |-> LifeOf(b)] EXCEPT ![a] = "consumed"]
    BY <2>6, <2>7
  <2>9. [b \in Attempts |-> IF Owned(b) THEN attempt[b].session ELSE NoSession]' =
          [b \in Attempts |-> IF b \in {a} THEN NoSession ELSE
             [d \in Attempts |->
                IF Owned(d) THEN attempt[d].session ELSE NoSession][b]]
    BY <1>3, <2>6, <2>7
  <2>10. [b \in Attempts |-> IF Owned(b) THEN attempt[b].expiresAt ELSE 0]' =
          [b \in Attempts |-> IF b \in {a} THEN 0 ELSE
             [d \in Attempts |->
                IF Owned(d) THEN attempt[d].expiresAt ELSE 0][b]]
    BY <1>3, <2>6, <2>7
  <2>11. now < [b \in Attempts |-> IF Owned(b) THEN attempt[b].expiresAt ELSE 0][a]
    BY <2>1, <2>2, <2>6 DEF IInv, TypeOK, Attempt
  <2> QED
    BY <1>3, <2>2, <2>8, <2>9, <2>10, <2>11 DEF Promise!Consume, Promise!Ended
<1> QED
  BY <1>1, <1>5, <1>6 DEF CallbackOutcome

LEMMA TickRefines ==
    ASSUME Tick
    PROVE  Promise!Tick
<1>1. UNCHANGED <<flows, attempt, callback>> /\ now' = now + 1
  BY DEF Tick
<1>2. \A a \in Attempts : LifeOf(a)' = LifeOf(a) /\ (Owned(a)' <=> Owned(a))
  BY <1>1 DEF LifeOf, Owned
<1> QED
  BY <1>1, <1>2 DEF Promise!Tick

\* The rest only ever ends flows.
LEMMA OtherStepsEnd ==
    ASSUME IInv,
           \/ Restart
           \/ Expire
           \/ \E a \in Attempts : \/ EntraFails(a)
                                  \/ SaveSession(a)
                                  \/ AuthorizeRedirect(a)
                                  \/ Abandon(a)
    PROVE  Promise!End
<1>1. CASE Restart
  <2>1. RestartOutcome
    BY <1>1, RestartEffect DEF IInv
  <2>2. OnlyEnds
    BY <2>1 DEF RestartOutcome, OnlyEnds, InFlight, InFlightPcs
  <2> QED
    BY <2>2, EndsRefine
<1>2. CASE Expire
  <2>1. OnlyEnds
    BY <1>2 DEF Expire, ExpireKey, OnlyEnds, IInv, TypeOK
  <2> QED
    BY <2>1, EndsRefine
<1>3. ASSUME NEW a \in Attempts, EntraFails(a) \/ SaveSession(a)
      PROVE  Promise!End
  <2>1. /\ UNCHANGED <<flows, now, callback>>
        /\ \/ \E w \in Causes : Throw(a, w)
           \/ attempt' = [attempt EXCEPT ![a].pc = "authorize"]
    BY <1>3 DEF EntraFails, SaveSession, Causes
  <2>2. \E p \in Pcs, w \in Causes : Moves(a, p, w) /\ p # "idle"
    BY <2>1, MoveOn, ThrowEffect DEF IInv, TypeOK, Attempt, Pcs, InFlightPcs
  <2>3. OnlyEnds
    BY <2>1, <2>2 DEF OnlyEnds, Moves
  <2> QED
    BY <2>3, EndsRefine
<1>4. ASSUME NEW a \in Attempts, AuthorizeRedirect(a)
      PROVE  Promise!End
  <2>1. attempt[a].session \in Sessions
    BY <1>4, InFlightSession DEF AuthorizeRedirect, InFlight, InFlightPcs
  <2>2. AuthorizeOutcome(a)
    BY <1>4, <2>1, AuthorizeEffect DEF IInv
  <2>3. flows' = flows \/ flows' = AfterAuthorize(attempt[a].session, a)
    BY <2>2 DEF AuthorizeOutcome
  <2>4. \A s \in Sessions : flows'[s] \in {flows[s], NoFlow}
    BY <2>1, <2>3, AuthorizeRecords DEF IInv, OnlyAt
  <2>5. UNCHANGED <<now, callback>>
        /\ \E p \in Pcs, w \in Causes : Moves(a, p, w) /\ p # "idle"
    BY <2>2 DEF AuthorizeOutcome, IInv, TypeOK, Attempt, Pcs, InFlightPcs, Causes
  <2>6. OnlyEnds
    BY <2>4, <2>5 DEF OnlyEnds, Moves
  <2> QED
    BY <2>6, EndsRefine
<1>5. ASSUME NEW a \in Attempts, Abandon(a)
      PROVE  Promise!End
  <2>1. attempt[a].session \in Sessions
    BY <1>5, InFlightSession DEF Abandon, InFlight, InFlightPcs
  <2>2. AbandonOutcome(a)
    BY <1>5, AbandonEffect DEF IInv
  <2>3. flows' = flows \/ flows' = AfterAbandon(attempt[a].session, a)
    BY <2>2 DEF AbandonOutcome
  <2>4. \A s \in Sessions : flows'[s] \in {flows[s], NoFlow}
    BY <2>1, <2>3, AbandonRecords DEF IInv, OnlyAt
  <2>5. UNCHANGED <<now, callback>>
        /\ \E p \in Pcs, w \in Causes : Moves(a, p, w) /\ p # "idle"
    BY <2>2 DEF AbandonOutcome, IInv, TypeOK, Attempt, Pcs, InFlightPcs, Causes
  <2>6. OnlyEnds
    BY <2>4, <2>5 DEF OnlyEnds, Moves
  <2> QED
    BY <2>6, EndsRefine
<1> QED
  BY <1>1, <1>2, <1>3, <1>4, <1>5

---------------------------------------------------------------------------

LEMMA InitRefines == Init => Promise!Init
<1> SUFFICES ASSUME Init PROVE Promise!Init
  OBVIOUS
<1>1. \A a \in Attempts : ~Owned(a)
  BY AttemptAssumption DEF Init, Owned, NoFlow
<1>2. \A a \in Attempts : LifeOf(a) = "unused"
  BY <1>1, NotOwned, AttemptAssumption DEF Init
<1> QED
  BY <1>1, <1>2 DEF Init, Promise!Init

LEMMA StutterRefines ==
    ASSUME UNCHANGED vars
    PROVE  UNCHANGED Promise!flowVars
<1>1. UNCHANGED <<flows, now, attempt, callback>>
  BY DEF vars
<1>2. \A a \in Attempts : LifeOf(a)' = LifeOf(a) /\ (Owned(a)' <=> Owned(a))
  BY <1>1 DEF LifeOf, Owned
<1> QED
  BY <1>1, <1>2 DEF Promise!flowVars

LEMMA StepsRefine == IInv /\ [Next]_vars => [Promise!Next]_(Promise!flowVars)
<1>1. IInv /\ Next => Promise!Next
  <2> SUFFICES ASSUME IInv, Next PROVE Promise!Next
    OBVIOUS
  <2> QED
    BY ReserveRefines, PublishRefines, CallbackRefines, TickRefines, OtherStepsEnd
       DEF Next, ServerStep, Promise!Next
<1> QED
  BY <1>1, StutterRefines

\* Sign-ins and callbacks, on either store and with every fault of the model,
\* implement the one-time promise.
THEOREM PromiseKept == Spec => KeepsPromise
  BY StepsRefine, InitRefines, Invariance, PTL DEF Spec, KeepsPromise, Promise!Spec

---------------------------------------------------------------------------
(* What the promise is worth: a flow's life goes one way *)

LifeSteps ==
    {<<"unused", "reserved">>, <<"reserved", "published">>, <<"published", "consumed">>,
     <<"unused", "dead">>, <<"reserved", "dead">>, <<"published", "dead">>}

OneWay ==
    \A a \in Attempts : LifeOf(a)' # LifeOf(a) => <<LifeOf(a), LifeOf(a)'>> \in LifeSteps

FlowsGoOneWay == [][OneWay]_vars

LEMMA PromiseIsOneWay ==
    ASSUME [Promise!Next]_(Promise!flowVars)
    PROVE  OneWay
<1> DEFINE life == [a \in Attempts |-> LifeOf(a)]
<1>1. ASSUME NEW a \in Attempts
      PROVE  life[a] = LifeOf(a) /\ life'[a] = LifeOf(a)'
  OBVIOUS
<1>2. CASE \E b \in Attempts, s \in Sessions : Promise!Reserve(b, s)
  BY <1>2 DEF Promise!Reserve, Promise!Live, OneWay, LifeSteps
<1>3. CASE \E b \in Attempts : Promise!Publish(b)
  BY <1>3 DEF Promise!Publish, OneWay, LifeSteps
<1>4. CASE \E b \in Attempts : Promise!Consume(b)
  BY <1>4 DEF Promise!Consume, OneWay, LifeSteps
<1>5. CASE Promise!End
  BY <1>5 DEF Promise!End, OneWay, LifeSteps
<1>6. CASE Promise!Tick \/ UNCHANGED Promise!flowVars
  BY <1>1, <1>6 DEF Promise!Tick, Promise!flowVars, OneWay
<1> QED
  BY <1>2, <1>3, <1>4, <1>5, <1>6 DEF Promise!Next

\* A flow is reserved, published and consumed in this order or ends before, and
\* one that was consumed or has ended never comes back: not by a lost reply, a
\* late callback, a restart or another sign-in of the session.
THEOREM FlowsNeverReturn == Spec => FlowsGoOneWay
<1>1. IInv /\ [Next]_vars => OneWay
  BY StepsRefine, PromiseIsOneWay
<1> QED
  BY <1>1, Invariance, PTL DEF Spec, FlowsGoOneWay

=============================================================================
