--------------------------- MODULE AuthFlowStore ---------------------------
(***************************************************************************)
(* The auth-code-flow store of src/src/auth/authCodeFlow: at most one flow *)
(* record per express session, held in a process-local Map or in Redis.    *)
(*                                                                         *)
(* The operators of flow.record.ts come first; then, for each operation of *)
(* the store, the map it leaves (After...) and the answer it gives         *)
(* (...Granted).  The memory store runs each operation synchronously and   *)
(* Redis runs it as one Lua script, so an operation is one step.           *)
(*                                                                         *)
(* A sign-in request reserves at most once, with a fresh UUID, so a        *)
(* reservation is named by its attempt; so is the flow it publishes        *)
(* (authState, authCodeRequest and returnTo travel together).              *)
(***************************************************************************)
EXTENDS Integers

CONSTANTS
    Attempts,   \* sign-in requests, and their reservation ids and auth states
    NoAttempt,
    Sessions,   \* express session ids
    Lifetime,   \* AUTH_FLOW_LIFETIME, in clock ticks
    Backend     \* "memory" or "redis"

ASSUME AttemptAssumption == NoAttempt \notin Attempts
ASSUME LifetimeAssumption == Lifetime \in Nat \ {0}
ASSUME BackendAssumption == Backend \in {"memory", "redis"}

VARIABLES
    flows,      \* flows[s]: the record under session s
    now         \* the clock the store reads

---------------------------------------------------------------------------
(* Records: flow.record.ts *)

NoFlow ==
    [status |-> "absent", reservationId |-> NoAttempt,
     authState |-> NoAttempt, expiresAt |-> 0]

AuthFlowRecord ==
    [status : {"absent", "pending", "ready"},
     reservationId : Attempts \cup {NoAttempt},
     authState : Attempts \cup {NoAttempt},
     expiresAt : Nat]

CreatePendingAuthFlowRecord(a) ==
    [status |-> "pending", reservationId |-> a,
     authState |-> NoAttempt, expiresAt |-> now + Lifetime]

\* Variant: the deadline itself still counts as inside the lifetime.
IsAuthFlowExpiredLate(f) == f.expiresAt < now

IsAuthFlowExpired(f) == f.expiresAt <= now

\* Variant: any record of the session will do, whoever reserved it.
IsAnyReservation(f, a) == f.status # "absent" /\ a \in Attempts

IsCurrentReservation(f, a) == f.status # "absent" /\ f.reservationId = a

\* Variant: a pending record is published whoever reserved it.
IsAnyPendingReservation(f, a) == f.status = "pending" /\ a \in Attempts

IsPendingReservation(f, a) == f.status = "pending" /\ f.reservationId = a

IsReadyReservation(f, a) == f.status = "ready" /\ f.reservationId = a

\* Variant: the callback's state is not compared with the flow's.
MatchesAnyReadyAuthFlow(f, state) == f.status = "ready" /\ state \in Attempts

MatchesReadyAuthFlow(f, state) == f.status = "ready" /\ f.authState = state

\* Variant: publishing restarts the lifetime.
PublishAuthFlowAfresh(f, a) ==
    [f EXCEPT !.status = "ready", !.authState = a, !.expiresAt = now + Lifetime]

PublishAuthFlow(f, a) == [f EXCEPT !.status = "ready", !.authState = a]

---------------------------------------------------------------------------
(* Operations: memory.store.ts and redis.scripts.ts *)

\* The memory store's reserve first drops every expired record of every
\* session; Redis leaves that to the keys' own expiry (ExpireKey below).
Swept ==
    IF Backend = "memory"
    THEN [s \in Sessions |->
              IF IsAuthFlowExpired(flows[s]) THEN NoFlow ELSE flows[s]]
    ELSE flows

\* Variant: a session's first reservation is kept until it goes away.
AfterReserveKeepingFirst(s, a) ==
    IF flows[s].status = "absent"
    THEN [Swept EXCEPT ![s] = CreatePendingAuthFlowRecord(a)] ELSE Swept

AfterReserve(s, a) == [Swept EXCEPT ![s] = CreatePendingAuthFlowRecord(a)]

PublishGranted(s, a) ==
    /\ IsPendingReservation(flows[s], a)
    /\ ~IsAuthFlowExpired(flows[s])

AfterPublish(s, a) ==
    IF IsPendingReservation(flows[s], a)
    THEN [flows EXCEPT ![s] =
              IF IsAuthFlowExpired(@) THEN NoFlow ELSE PublishAuthFlow(@, a)]
    ELSE flows

AuthorizeGranted(s, a) ==
    /\ IsReadyReservation(flows[s], a)
    /\ ~IsAuthFlowExpired(flows[s])

AfterAuthorize(s, a) ==
    IF IsReadyReservation(flows[s], a) /\ IsAuthFlowExpired(flows[s])
    THEN [flows EXCEPT ![s] = NoFlow] ELSE flows

ConsumeGranted(s, state) ==
    /\ MatchesReadyAuthFlow(flows[s], state)
    /\ ~IsAuthFlowExpired(flows[s])

\* Variant: a granted flow stays in the store and can be taken again.
AfterConsumeKeeping(s, state) ==
    IF MatchesReadyAuthFlow(flows[s], state) /\ IsAuthFlowExpired(flows[s])
    THEN [flows EXCEPT ![s] = NoFlow] ELSE flows

AfterConsume(s, state) ==
    IF MatchesReadyAuthFlow(flows[s], state)
    THEN [flows EXCEPT ![s] = NoFlow] ELSE flows

AfterAbandon(s, a) ==
    IF IsCurrentReservation(flows[s], a)
    THEN [flows EXCEPT ![s] = NoFlow] ELSE flows

\* Redis drops a key whose PXAT deadline has passed, at a moment of its own.
ExpireKey(s) ==
    /\ Backend = "redis"
    /\ flows[s].status # "absent"
    /\ IsAuthFlowExpired(flows[s])
    /\ flows' = [flows EXCEPT ![s] = NoFlow]

\* What can become of a store call: Redis may refuse it (nothing ran), or run
\* it and lose the reply; the caller sees an error either way.
StoreOutcomes ==
    IF Backend = "redis" THEN {"replied", "refused", "lost"} ELSE {"replied"}

=============================================================================
