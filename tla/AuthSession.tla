---------------------------- MODULE AuthSession ----------------------------
(***************************************************************************)
(* The life of an authenticated session and of its token cache: requireAuth *)
(* with the calls it makes, the end of the auth code callback, sign-out     *)
(* and the timeouts of session.lifecycle.ts, on Redis.                      *)
(*                                                                         *)
(* A request works on the copy of the session it read when it began and     *)
(* writes it back when its response ends (express-session; renewLifecycle   *)
(* makes every copy a changed one), so the last writer wins, over a session *)
(* destroyed in between too.  Each Redis call is a step; a failed one may   *)
(* or may not have run.  Requests are slots that serve one after another.   *)
(* Clocks agree: a session's timestamps are never in a reader's future.     *)
(***************************************************************************)
EXTENDS Integers

CONSTANTS
    Sids,       \* express session ids; signing in takes a fresh one
    NoSid,
    Requests,
    Idle,       \* SESSION_IDLE_TIMEOUT_MS
    Absolute,   \* SESSION_ABSOLUTE_TIMEOUT_MS
    MaxTime     \* bound on the clock

ASSUME SidAssumption == NoSid \notin Sids
\* 30 minutes and 12 hours.  Signing in gives the cache the idle timeout whole,
\* so that it must not be the longer one.
ASSUME TimeoutAssumption ==
    Idle \in Nat \ {0} /\ Absolute \in Nat /\ Idle <= Absolute /\ MaxTime \in Nat

VARIABLES
    now,
    stored,     \* stored[s]: the session under id s in the session store
    cache,      \* cache[s]: when the MSAL cache of s expires, 0 if it is gone
    request,    \* request[r]: what slot r is doing, with its session copy
    born,       \* born[s]: when s was signed in, 0 if it was not (history)
    seen,       \* seen[s]: when a request of s was last let in (history)
    disturbed,  \* sids with overlapping requests or a failed step (history)
    phase       \* phase[s]: who knows of s, and how it ended (history)

vars == <<now, stored, cache, request, born, seen, disturbed, phase>>

Session == [account : BOOLEAN, authenticatedAt : Nat, lastActivityAt : Nat]

NoSession == [account |-> FALSE, authenticatedAt |-> 0, lastActivityAt |-> 0]

PagePcs == {"extending", "checking", "refreshing", "serving", "acquiring", "storing",
            "ending"}
EndPcs == {"destroying", "clearing"}
SignInPcs == {"exchanging", "persisting"}

\* A session ends in three ways: by sign-out, by its timeout as requireAuth
\* finds it, or because a fresh sign-in cannot be saved.
Kinds == {"page", "signOut", "timeout", "signIn"}

Request ==
    [pc : {"idle"} \cup PagePcs \cup EndPcs \cup SignInPcs,
     kind : Kinds,
     sid : Sids \cup {NoSid},
     session : Session,
     expiresAt : Nat,
     ok : BOOLEAN,      \* no call of an ending has failed
     alone : BOOLEAN]   \* no other request of the session has been in flight

NoRequest ==
    [pc |-> "idle", kind |-> "page", sid |-> NoSid, session |-> NoSession,
     expiresAt |-> 0, ok |-> TRUE, alone |-> TRUE]

\* "fresh" until the browser has been sent the id; "reported" once a sign-out
\* has been answered; "alone" once an end, however it came about, was complete
\* with no other request of the session in flight.
Phases == {"fresh", "open", "reported", "alone"}

TypeOK ==
    /\ now \in Nat \ {0}
    /\ stored \in [Sids -> Session]
    /\ cache \in [Sids -> Nat]
    /\ request \in [Requests -> Request]
    /\ born \in [Sids -> Nat]
    /\ seen \in [Sids -> Nat]
    /\ disturbed \in SUBSET Sids
    /\ phase \in [Sids -> Phases]

Init ==
    /\ now = 1
    /\ stored = [s \in Sids |-> NoSession]
    /\ cache = [s \in Sids |-> 0]
    /\ request = [r \in Requests |-> NoRequest]
    /\ born = [s \in Sids |-> 0]
    /\ seen = [s \in Sids |-> 0]
    /\ disturbed = {}
    /\ phase = [s \in Sids |-> "fresh"]

---------------------------------------------------------------------------
(* session.lifecycle.ts *)

HasValidLifecycleMetadata(session) ==
    /\ session.authenticatedAt >= 1
    /\ session.authenticatedAt <= session.lastActivityAt
    /\ session.lastActivityAt <= now

Earlier(t, u) == IF t <= u THEN t ELSE u

\* Variant: only idleness ends a session.
LifecycleExpiresAtIdle(session) == session.lastActivityAt + Idle

LifecycleExpiresAt(session) ==
    Earlier(session.authenticatedAt + Absolute, session.lastActivityAt + Idle)

\* Variant: looking at the session does not count as activity.
RenewedWithoutActivity(session) == session

Renewed(session) == [session EXCEPT !.lastActivityAt = now]

\* Variant: a renewal is not bounded by the absolute deadline.
RenewedDeadlineUnbounded(session) == now + Idle

\* The deadline renewLifecycle returns.
RenewedDeadline(session) == Earlier(session.authenticatedAt + Absolute, now + Idle)

---------------------------------------------------------------------------
(* msal.cache.ts and msal.plugin.ts: what the key's expiry becomes *)

\* A key stored or renewed with a deadline that has passed is gone.
Until(t) == IF t > now THEN t ELSE 0

\* setMsalCacheExpiry, PEXPIREAT: a key that is gone stays gone.
CacheExtended(s, t) == [cache EXCEPT ![s] = IF @ = 0 THEN 0 ELSE Until(t)]

\* afterCacheAccess, SET with PXAT: the key comes back if it was gone.
CacheStored(s, t) == [cache EXCEPT ![s] = Until(t)]

CacheDeleted(s) == [cache EXCEPT ![s] = 0]

\* A Redis call as its caller sees it: answered, refused, or run without an
\* answer.
Outcomes == {"replied", "refused", "lost"}

---------------------------------------------------------------------------
(* Requests *)

InFlightOn(s) == {r \in Requests : request[r].pc # "idle" /\ request[r].sid = s}

\* Slot r starts on session s; whoever else is there is not alone any more.
Started(r, s, entry) ==
    [q \in Requests |->
        IF q = r THEN [entry EXCEPT !.alone = InFlightOn(s) = {}]
        ELSE IF q \in InFlightOn(s) THEN [request[q] EXCEPT !.alone = FALSE]
        ELSE request[q]]

DisturbedBy(s) == IF InFlightOn(s) = {} THEN disturbed ELSE disturbed \cup {s}

Goto(r, pc) == request' = [request EXCEPT ![r].pc = pc]

Done(r) == request' = [request EXCEPT ![r] = NoRequest]

Undisturbed == UNCHANGED disturbed

Disturb(r) == disturbed' = disturbed \cup {request[r].sid}

\* requireAuth on a signed-in session: it is renewed, or has timed out.  (A
\* request without an account changes nothing that is modelled here.)
RequireAuth(r, s) ==
    LET session == stored[s]
        inTime == /\ HasValidLifecycleMetadata(session)
                  /\ LifecycleExpiresAt(session) > now
    IN
    /\ request[r].pc = "idle"
    /\ phase[s] # "fresh"
    /\ session.account
    /\ request' = Started(r, s,
          [NoRequest EXCEPT
             !.pc = IF inTime THEN "extending" ELSE "destroying",
             !.kind = IF inTime THEN "page" ELSE "timeout",
             !.sid = s,
             !.session = IF inTime THEN Renewed(session) ELSE NoSession,
             !.expiresAt = IF inTime THEN RenewedDeadline(session) ELSE 0])
    /\ seen' = IF inTime THEN [seen EXCEPT ![s] = now] ELSE seen
    /\ disturbed' = DisturbedBy(s)
    /\ UNCHANGED <<now, stored, cache, born, phase>>

\* Variant: the token cache keeps the deadline it has.
ForgetToExtendCache(r) ==
    /\ request[r].pc = "extending"
    /\ Goto(r, "checking")
    /\ UNCHANGED <<now, stored, cache, born, seen, disturbed, phase>>

\* setMsalCacheExpiry; an error ends the request, with the session renewed.  If
\* the old deadline has passed since the session was read, so has the cache's.
ExtendCache(r) ==
    LET late == LifecycleExpiresAt(stored[request[r].sid]) <= now IN
    /\ request[r].pc = "extending"
    /\ \E outcome \in Outcomes :
        /\ cache' = IF outcome = "refused" THEN cache
                    ELSE CacheExtended(request[r].sid, request[r].expiresAt)
        /\ Goto(r, IF outcome = "replied" THEN "checking" ELSE "ending")
        /\ IF outcome = "replied" /\ ~late THEN Undisturbed ELSE Disturb(r)
    /\ UNCHANGED <<now, stored, born, seen, phase>>

\* The token has not expired, and the office claims and the selected office
\* let the request in or turn it away.
AcceptToken(r) ==
    /\ request[r].pc = "checking"
    /\ \E pc \in {"serving", "ending"} : Goto(r, pc)
    /\ UNCHANGED <<now, stored, cache, born, seen, disturbed, phase>>

\* The token has expired: refreshToken reads the cache, which also extends it.
\* Without an account in it the session loses its own.
StartRefresh(r) ==
    /\ request[r].pc = "checking"
    /\ cache' = CacheExtended(request[r].sid, request[r].expiresAt)
    /\ request' = IF cache[request[r].sid] # 0
                  THEN [request EXCEPT ![r].pc = "refreshing"]
                  ELSE [request EXCEPT ![r].pc = "ending", ![r].session.account = FALSE]
    /\ UNCHANGED <<now, stored, born, seen, disturbed, phase>>

\* Entra answers and the plugin stores the cache; if either fails the refresh
\* fails, whether or not the cache was stored.
Refresh(r) ==
    /\ request[r].pc = "refreshing"
    /\ \E outcome \in Outcomes, pc \in {"serving", "ending"} :
        /\ cache' = IF outcome = "refused" THEN cache
                    ELSE CacheStored(request[r].sid, request[r].expiresAt)
        /\ request' = IF outcome = "replied" THEN [request EXCEPT ![r].pc = pc]
                      ELSE [request EXCEPT ![r].pc = "ending",
                                           ![r].session.account = FALSE]
    /\ UNCHANGED <<now, stored, born, seen, disturbed, phase>>

\* requireAuth rejects: a call to Redis, or MSAL, throws out of it.  If it is
\* SiLAS that refuses, the account goes as well.
Throws(r) ==
    /\ request[r].pc \in {"checking", "refreshing"}
    /\ \E account \in {FALSE, request[r].session.account} :
        request' = [request EXCEPT ![r].pc = "ending", ![r].session.account = account]
    /\ UNCHANGED <<now, stored, cache, born, seen, disturbed, phase>>

\* A handler needs a token for a downstream API: acquireTokenSilent reads the
\* cache, asks Entra, and the plugin, which was given no deadline, asks the key
\* for its own; without one it throws.
AcquireDownstreamToken(r) ==
    /\ request[r].pc = "serving"
    /\ cache[request[r].sid] # 0
    /\ Goto(r, "acquiring")
    /\ UNCHANGED <<now, stored, cache, born, seen, disturbed, phase>>

ReadCacheExpiry(r) ==
    LET t == cache[request[r].sid] IN
    /\ request[r].pc = "acquiring"
    /\ request' = [request EXCEPT ![r].pc = IF t = 0 THEN "serving" ELSE "storing",
                                  ![r].expiresAt = t]
    /\ UNCHANGED <<now, stored, cache, born, seen, disturbed, phase>>

\* Variant: the plugin stores the cache for another idle timeout.
StoreCacheForIdle(r) ==
    /\ request[r].pc = "storing"
    /\ cache' = CacheStored(request[r].sid, now + Idle)
    /\ Goto(r, "serving")
    /\ UNCHANGED <<now, stored, born, seen, disturbed, phase>>

StoreCache(r) ==
    /\ request[r].pc = "storing"
    /\ \E outcome \in Outcomes :
        cache' = IF outcome = "refused" THEN cache
                 ELSE CacheStored(request[r].sid, request[r].expiresAt)
    /\ Goto(r, "serving")
    /\ UNCHANGED <<now, stored, born, seen, disturbed, phase>>

\* The response ends and the copy is written back.
SaveSession(r) ==
    /\ request[r].pc \in {"serving", "ending"}
    /\ stored' = [stored EXCEPT ![request[r].sid] = request[r].session]
    /\ Done(r)
    /\ UNCHANGED <<now, cache, born, seen, disturbed, phase>>

---------------------------------------------------------------------------
(* The end of a session: signOut, a timeout, or a sign-in that failed *)

\* A cookie whose session is gone is given a new one, with nothing to sign out.
SignOut(r, s) ==
    /\ request[r].pc = "idle"
    /\ phase[s] # "fresh"
    /\ stored[s] # NoSession
    /\ request' = Started(r, s,
          [NoRequest EXCEPT !.pc = "destroying", !.kind = "signOut", !.sid = s])
    /\ disturbed' = DisturbedBy(s)
    /\ UNCHANGED <<now, stored, cache, born, seen, phase>>

\* session.destroy; the copy is dropped, so it is not written back.  Only in
\* requireAuth does an error end the request here.
DestroySession(r) ==
    /\ request[r].pc = "destroying"
    /\ \E outcome \in Outcomes :
        /\ stored' = IF outcome = "refused" THEN stored
                     ELSE [stored EXCEPT ![request[r].sid] = NoSession]
        /\ IF outcome = "replied"
           THEN Goto(r, "clearing") /\ Undisturbed
           ELSE /\ Disturb(r)
                /\ IF request[r].kind = "timeout" THEN Done(r)
                   ELSE request' = [request EXCEPT ![r].pc = "clearing", ![r].ok = FALSE]
    /\ UNCHANGED <<now, cache, born, seen, phase>>

\* Variant: the token cache is left to its own expiry.
LeaveMsalCache(r) ==
    /\ request[r].pc = "clearing"
    /\ phase' = [phase EXCEPT ![request[r].sid] =
          IF request[r].ok /\ request[r].alone THEN "alone"
          ELSE IF request[r].ok /\ request[r].kind = "signOut" /\ @ = "open" THEN "reported"
          ELSE @]
    /\ Done(r)
    /\ UNCHANGED <<now, stored, cache, born, seen, disturbed>>

\* deleteMsalCache, and the answer: it is an error if a sign-out's destroy or
\* delete failed.
DeleteMsalCache(r) ==
    /\ request[r].pc = "clearing"
    /\ \E outcome \in Outcomes :
        /\ cache' = IF outcome = "refused" THEN cache ELSE CacheDeleted(request[r].sid)
        /\ phase' = [phase EXCEPT ![request[r].sid] =
              IF outcome # "replied" \/ ~request[r].ok THEN @
              ELSE IF request[r].alone THEN "alone"
              ELSE IF request[r].kind = "signOut" /\ @ = "open" THEN "reported"
              ELSE @]
        /\ IF outcome = "replied" THEN Undisturbed ELSE Disturb(r)
    /\ Done(r)
    /\ UNCHANGED <<now, stored, born, seen>>

---------------------------------------------------------------------------
(* completeAuthCodeCallback *)

\* The session the flow was started in is destroyed and a fresh id taken.  The
\* code is exchanged next; the clock is read before.
RegenerateSession(r, old, s) ==
    /\ request[r].pc = "idle"
    /\ born[s] = 0
    /\ old \in {NoSid} \cup {t \in Sids : phase[t] # "fresh"}
    /\ \E outcome \in Outcomes :
        /\ stored' = IF outcome = "refused" \/ old = NoSid THEN stored
                     ELSE [stored EXCEPT ![old] = NoSession]
        /\ IF outcome = "replied"
           THEN /\ request' = [request EXCEPT ![r] =
                     [NoRequest EXCEPT
                        !.pc = "exchanging", !.kind = "signIn", !.sid = s,
                        !.session.authenticatedAt = now,
                        !.session.lastActivityAt = now,
                        !.expiresAt = now + Idle]]
                /\ born' = [born EXCEPT ![s] = now]
                /\ seen' = [seen EXCEPT ![s] = now]
           ELSE UNCHANGED <<request, born, seen>>
    /\ disturbed' = IF old = NoSid THEN disturbed ELSE disturbed \cup {old}
    /\ UNCHANGED <<now, cache, phase>>

\* exchangeAuthCode fails, before or after the plugin has stored the cache, or
\* names no account; nothing has changed the new session, so it is not saved.
ExchangeFails(r) ==
    /\ request[r].pc = "exchanging"
    /\ cache' \in {cache, CacheStored(request[r].sid, request[r].expiresAt)}
    /\ Done(r)
    /\ UNCHANGED <<now, stored, born, seen, disturbed, phase>>

ExchangeAuthCode(r) ==
    /\ request[r].pc = "exchanging"
    /\ cache' = CacheStored(request[r].sid, request[r].expiresAt)
    /\ request' = [request EXCEPT ![r].pc = "persisting", ![r].session.account = TRUE]
    /\ UNCHANGED <<now, stored, born, seen, disturbed, phase>>

\* If the new session cannot be saved it is destroyed again, with its cache.
PersistAuthenticatedSession(r) ==
    /\ request[r].pc = "persisting"
    /\ \E outcome \in Outcomes :
        /\ stored' = IF outcome = "refused" THEN stored
                     ELSE [stored EXCEPT ![request[r].sid] = request[r].session]
        /\ IF outcome = "replied"
           THEN Done(r) /\ phase' = [phase EXCEPT ![request[r].sid] = "open"]
           ELSE Goto(r, "destroying") /\ UNCHANGED phase
    /\ UNCHANGED <<now, cache, born, seen, disturbed>>

---------------------------------------------------------------------------
(* The surroundings *)

\* The process dies, or the session store does not take the copy.
Dies(r) ==
    /\ request[r].pc # "idle"
    /\ Done(r)
    /\ Disturb(r)
    /\ UNCHANGED <<now, stored, cache, born, seen, phase>>

\* The session store drops a session some time after its deadline.
StoreDrops(s) ==
    /\ stored[s].account
    /\ LifecycleExpiresAt(stored[s]) <= now
    /\ stored' = [stored EXCEPT ![s] = NoSession]
    /\ UNCHANGED <<now, cache, request, born, seen, disturbed, phase>>

\* Redis drops a cache at its deadline.
Tick ==
    /\ now < MaxTime
    /\ now' = now + 1
    /\ cache' = [s \in Sids |-> IF cache[s] > now + 1 THEN cache[s] ELSE 0]
    /\ UNCHANGED <<stored, request, born, seen, disturbed, phase>>

Step(r) ==
    \/ ExtendCache(r) \/ AcceptToken(r) \/ StartRefresh(r) \/ Refresh(r) \/ Throws(r)
    \/ AcquireDownstreamToken(r) \/ ReadCacheExpiry(r) \/ StoreCache(r)
    \/ SaveSession(r) \/ DestroySession(r) \/ DeleteMsalCache(r)
    \/ ExchangeFails(r) \/ ExchangeAuthCode(r) \/ PersistAuthenticatedSession(r)
    \/ Dies(r)

Next ==
    \/ \E r \in Requests, s \in Sids : RequireAuth(r, s) \/ SignOut(r, s)
    \/ \E r \in Requests, s \in Sids, old \in Sids \cup {NoSid} :
          RegenerateSession(r, old, s)
    \/ \E r \in Requests : Step(r)
    \/ \E s \in Sids : StoreDrops(s)
    \/ Tick

Spec == Init /\ [][Next]_vars

---------------------------------------------------------------------------
(* Properties *)

\* However late and in whatever order sessions are written back, and even if
\* one comes back that was destroyed, a request is let in only within the
\* absolute time since the sign-in and the idle time since the session's last
\* request.
LetInInTime ==
    \A r \in Requests :
        request[r].pc = "idle" /\ request'[r].pc = "extending" =>
            LET s == request'[r].sid IN
            now < born[s] + Absolute /\ now < seen[s] + Idle

LetInOnlyInTime == [][LetInInTime]_vars

\* The other way round: a session whose requests have not overlapped and whose
\* steps have not failed does not time out while its user is active.
TimedOutLate ==
    \A r \in Requests :
        request[r].pc = "idle" /\ request'[r].kind = "timeout" =>
            LET s == request'[r].sid IN
            \/ s \in disturbed'
            \/ now >= born[s] + Absolute
            \/ now >= seen[s] + Idle

ActiveNotTimedOut == [][TimedOutLate]_vars

\* No token cache outlives the session's limits, whichever of the racing
\* requests stored it last, and even if it comes back after a sign-out.
TokensWithinLimits ==
    \A s \in Sids :
        cache[s] # 0 => cache[s] <= born[s] + Absolute /\ cache[s] <= seen[s] + Idle

\* A session that is undisturbed and in time has its tokens, for as long as it
\* lasts: a signed-in user is not let in only to be refused by the API.
TokensOutliveSession ==
    \A s \in Sids \ disturbed :
        stored[s].account /\ LifecycleExpiresAt(stored[s]) > now =>
            cache[s] >= LifecycleExpiresAt(stored[s])

\* Once a session's end has been completed while no other request of it was
\* in flight, neither the session nor its tokens ever come back.
EndedStaysEnded ==
    \A s \in Sids :
        phase[s] = "alone" => ~stored[s].account /\ cache[s] = 0

\* "Destroys the session and redirects to the root": after a sign-out that
\* answered with its redirect, there is no session.
SignedOutHasNoSession ==
    \A s \in Sids : phase[s] = "reported" => ~stored[s].account

---------------------------------------------------------------------------
(* Why they hold: the inductive invariant *)

\* The copy of s's session, wherever it is, knows when s was signed in and no
\* activity that s has not seen.
CopyOf(s, session) ==
    session.account =>
        /\ born[s] # 0
        /\ session.authenticatedAt = born[s]
        /\ session.lastActivityAt <= seen[s]

\* The deadline a request may still give to the cache.
WithinLimits(s, t) == t <= born[s] + Absolute /\ t <= seen[s] + Idle

SessionsKnown ==
    \A s \in Sids :
        /\ born[s] <= seen[s] /\ seen[s] <= now
        /\ CopyOf(s, stored[s])
        /\ born[s] = 0 => phase[s] = "fresh" /\ cache[s] = 0

RequestKnown(r) ==
    LET s == request[r].sid IN
    IF request[r].pc = "idle" THEN request[r] = NoRequest
    ELSE /\ s \in Sids
         /\ born[s] # 0
         /\ request[r].kind = "signIn" <=> phase[s] = "fresh"
         /\ request[r].kind = "signIn" => request[r].alone
         /\ request[r].kind = "page" => request[r].pc \in PagePcs
         /\ request[r].kind \in {"signOut", "timeout"} => request[r].pc \in EndPcs
         /\ request[r].pc = "exchanging" =>
                /\ request[r].session.authenticatedAt = born[s]
                /\ request[r].session.lastActivityAt <= seen[s]
         /\ CopyOf(s, request[r].session)
         /\ request[r].pc \in {"extending", "checking", "refreshing", "storing",
                                "exchanging"} =>
                WithinLimits(s, request[r].expiresAt)

RequestsKnown == \A r \in Requests : RequestKnown(r)

\* A request that has been alone is alone; while it ends the session, and no
\* step of that has failed, the session is gone once it has been destroyed.
AloneIsAlone ==
    \A r \in Requests :
        request[r].pc # "idle" /\ request[r].alone =>
            /\ InFlightOn(request[r].sid) = {r}
            /\ request[r].pc = "clearing" /\ request[r].ok =>
                  stored[request[r].sid] = NoSession

EndedIsOver ==
    \A s \in Sids :
        phase[s] = "alone" =>
            stored[s] = NoSession /\ cache[s] = 0 /\ InFlightOn(s) = {}

LimitsInv ==
    /\ TypeOK
    /\ SessionsKnown
    /\ RequestsKnown
    /\ AloneIsAlone
    /\ EndedIsOver
    /\ TokensWithinLimits

\* When s will time out if nobody comes back to it.
Due(s) == Earlier(born[s] + Absolute, seen[s] + Idle)

\* Of an undisturbed session one request is in flight at most.  Its copy has the
\* last activity, its deadline is the session's, and once it has extended or
\* stored the cache the tokens last until then.
QuietRequest(s, e) ==
    /\ e.alone
    /\ e.pc \in PagePcs \cup SignInPcs =>
          e.session.authenticatedAt = born[s] /\ e.session.lastActivityAt = seen[s]
    /\ e.pc \in {"extending", "checking", "refreshing", "exchanging"} =>
          e.expiresAt = Due(s)
    /\ e.pc = "storing" /\ Due(s) > now => e.expiresAt >= Due(s)
    /\ e.pc \in (PagePcs \ {"extending"}) \cup {"persisting"} /\ Due(s) > now =>
          cache[s] >= Due(s)
    /\ e.pc = "extending" /\ LifecycleExpiresAt(stored[s]) > now => stored[s].account
    /\ e.pc \in SignInPcs \cup {"clearing"} => ~stored[s].account

QuietSessionsKept ==
    \A s \in Sids \ disturbed :
        /\ InFlightOn(s) = {} /\ stored[s].account => stored[s].lastActivityAt = seen[s]
        /\ \A r \in InFlightOn(s) : QuietRequest(s, request[r])

SessionInv ==
    /\ LimitsInv
    /\ QuietSessionsKept
    /\ TokensOutliveSession

\* A cache that is there has not reached its deadline.
CachesLive == \A s \in Sids : cache[s] # 0 => cache[s] > now

\* Whoever has a failed call behind it has disturbed its session.
FailuresDisturb ==
    \A r \in Requests :
        request[r].pc # "idle" /\ ~request[r].ok => request[r].sid \in disturbed

IInv ==
    /\ SessionInv
    /\ CachesLive
    /\ FailuresDisturb

---------------------------------------------------------------------------
(* The promise to the user, and how this module keeps it *)

StatusOf(s) ==
    CASE phase[s] = "fresh" -> "fresh"
      [] phase[s] \in {"open", "reported"} -> "open"
      [] phase[s] = "alone" -> "over"

Status == [s \in Sids |-> StatusOf(s)]

Promise == INSTANCE SessionPromise WITH
    tokens <- cache,
    status <- Status,
    troubled <- disturbed

\* Whatever the requests of a session do to its copies and to the cache, its
\* user sees a session as SessionPromise has it.
KeepsPromise == Promise!Spec

=============================================================================
