------------------------- MODULE AuthSessionProofs -------------------------
(***************************************************************************)
(* AuthSession's inductive invariant, and what follows from it for every    *)
(* number of sessions and requests and every length of the timeouts.        *)
(***************************************************************************)
EXTENDS AuthSession, TLAPS

USE SidAssumption, TimeoutAssumption

---------------------------------------------------------------------------
(* A step of a request that is in flight *)

\* What such a step leaves alone: other requests, other sessions, the clock
\* and the sign-in times.  The request goes on in its own session, or ends.
StepOf(r) ==
    LET s == request[r].sid IN
    /\ request[r].pc # "idle"
    /\ UNCHANGED <<now, born, seen>>
    /\ \A q \in Requests \ {r} : request'[q] = request[q]
    /\ \A t \in Sids \ {s} :
          stored'[t] = stored[t] /\ cache'[t] = cache[t] /\ phase'[t] = phase[t]
    /\ \/ request'[r] = NoRequest
       \/ /\ request'[r].pc # "idle"
          /\ request'[r].sid = s
          /\ request'[r].kind = request[r].kind
          /\ request'[r].alone = request[r].alone

\* What it has to see to in its own session.
Owes(r) ==
    LET s == request[r].sid
        e == request'[r]
    IN
    /\ CopyOf(s, stored'[s])
    /\ cache'[s] # 0 => WithinLimits(s, cache'[s])
    /\ \/ phase'[s] = phase[s]
       \/ /\ e = NoRequest
          /\ \/ phase[s] = "fresh" /\ phase'[s] = "open"
             \/ phase[s] = "open" /\ phase'[s] = "reported"
             \/ /\ request[r].alone
                /\ phase'[s] = "alone" /\ stored'[s] = NoSession /\ cache'[s] = 0
    /\ e # NoRequest =>
          /\ e.kind = "page" => e.pc \in PagePcs
          /\ e.kind \in {"signOut", "timeout"} => e.pc \in EndPcs
          /\ e.pc = "exchanging" =>
                e.session.authenticatedAt = born[s] /\ e.session.lastActivityAt <= seen[s]
          /\ CopyOf(s, e.session)
          /\ e.pc \in {"extending", "checking", "refreshing", "storing", "exchanging"} =>
                WithinLimits(s, e.expiresAt)
          /\ e.alone /\ e.pc = "clearing" /\ e.ok => stored'[s] = NoSession

\* Who is in flight on a session after a step.
LEMMA InFlightNext ==
    ASSUME NEW s \in Sids, NEW q \in Requests
    PROVE  /\ q \in InFlightOn(s) <=> request[q].pc # "idle" /\ request[q].sid = s
           /\ q \in InFlightOn(s)' <=> request'[q].pc # "idle" /\ request'[q].sid = s
  BY DEF InFlightOn

\* Paying what it owes is all an in-flight request has to do for the invariant.
LEMMA StepKeepsInvariant ==
    ASSUME LimitsInv, TypeOK', NEW r \in Requests, StepOf(r), Owes(r)
    PROVE  LimitsInv'
<1>1. PICK s \in Sids :
         /\ s = request[r].sid /\ born[s] # 0
         /\ request[r].kind = "signIn" <=> phase[s] = "fresh"
         /\ r \in InFlightOn(s)
         /\ RequestKnown(r)
  <2>1. request[r].sid \in Sids /\ RequestKnown(r)
    BY DEF LimitsInv, RequestsKnown, RequestKnown, StepOf
  <2> QED
    BY <2>1, InFlightNext DEF RequestKnown, StepOf
<1>2. phase[s] # "alone"
  BY <1>1 DEF LimitsInv, EndedIsOver
<1>3. ASSUME NEW q \in Requests, q # r, request[q].pc # "idle", request[q].alone
      PROVE  request[q].sid # s
  BY <1>1, <1>3 DEF LimitsInv, AloneIsAlone
<1>4. request[r].alone => InFlightOn(s) = {r}
  BY <1>1 DEF LimitsInv, AloneIsAlone, StepOf
<1>5. SessionsKnown'
  BY <1>1 DEF LimitsInv, SessionsKnown, StepOf, Owes, CopyOf
<1>6. ASSUME NEW q \in Requests
      PROVE  RequestKnown(q)'
  <2>1. CASE q = r
    BY <1>1, <2>1 DEF RequestKnown, NoRequest, StepOf, Owes, CopyOf, WithinLimits
  <2>2. CASE q # r /\ request[q].pc = "idle"
    BY <2>2 DEF LimitsInv, RequestsKnown, RequestKnown, StepOf
  <2>3. CASE q # r /\ request[q].pc # "idle"
    <3>1. request'[q] = request[q] /\ RequestKnown(q)
      BY <2>3 DEF LimitsInv, RequestsKnown, StepOf
    <3>2. phase'[request[q].sid] = "fresh" <=> phase[request[q].sid] = "fresh"
      BY <1>1, <1>3, <1>4, <2>3, <3>1 DEF RequestKnown, StepOf, Owes
    <3> QED
      BY <2>3, <3>1, <3>2 DEF RequestKnown, StepOf, CopyOf, WithinLimits
  <2> QED
    BY <2>1, <2>2, <2>3
<1>7. ASSUME NEW q \in Requests, request'[q].pc # "idle", request'[q].alone
      PROVE  \E t \in Sids :
                /\ t = request'[q].sid
                /\ InFlightOn(t)' = {q}
                /\ request'[q].pc = "clearing" /\ request'[q].ok => stored'[t] = NoSession
  <2>1. request[q].pc # "idle" /\ request[q].alone /\ request'[q].sid = request[q].sid
    BY <1>7 DEF StepOf, NoRequest
  <2>2. PICK t \in Sids : t = request[q].sid /\ InFlightOn(t) = {q}
    BY <2>1 DEF LimitsInv, AloneIsAlone, RequestsKnown, RequestKnown
  <2>3. InFlightOn(t)' = {q}
    BY <1>7, <2>1, <2>2, <1>1 DEF InFlightOn, StepOf, NoRequest
  <2>4. CASE q = r
    BY <1>1, <1>7, <2>1, <2>2, <2>3, <2>4 DEF Owes, NoRequest
  <2>5. CASE q # r
    BY <1>1, <1>3, <2>1, <2>2, <2>3, <2>5 DEF LimitsInv, AloneIsAlone, StepOf
  <2> QED
    BY <2>4, <2>5
<1>8. ASSUME NEW t \in Sids, phase'[t] = "alone"
      PROVE  stored'[t] = NoSession /\ cache'[t] = 0 /\ InFlightOn(t)' = {}
  <2>1. CASE t = s
    <3>1. request'[r] = NoRequest /\ request[r].alone /\ stored'[s] = NoSession /\ cache'[s] = 0
      BY <1>1, <1>2, <1>8, <2>1 DEF Owes
    <3>2. InFlightOn(s)' = {}
      BY <1>1, <1>4, <3>1 DEF InFlightOn, StepOf, NoRequest
    <3> QED
      BY <2>1, <3>1, <3>2
  <2>2. CASE t # s
    BY <1>1, <1>8, <2>2 DEF LimitsInv, EndedIsOver, InFlightOn, StepOf, NoRequest
  <2> QED
    BY <2>1, <2>2
<1>9. TokensWithinLimits'
  BY <1>1 DEF LimitsInv, TokensWithinLimits, StepOf, Owes, WithinLimits
<1>10. AloneIsAlone'
  BY <1>7 DEF AloneIsAlone, InFlightOn
<1> QED
  BY <1>5, <1>6, <1>8, <1>9, <1>10 DEF LimitsInv, RequestsKnown, EndedIsOver

---------------------------------------------------------------------------
(* Every step of a request is such a step *)

LEMMA RequestFacts ==
    ASSUME LimitsInv, NEW r \in Requests, request[r].pc # "idle"
    PROVE  /\ RequestKnown(r)
           /\ request[r] \in Request
           /\ request[r].sid \in Sids
           /\ born[request[r].sid] \in Nat /\ seen[request[r].sid] \in Nat /\ now \in Nat
           /\ seen[request[r].sid] <= now
           /\ CopyOf(request[r].sid, stored[request[r].sid])
           /\ cache[request[r].sid] \in Nat
           /\ cache[request[r].sid] # 0 =>
                 WithinLimits(request[r].sid, cache[request[r].sid])
<1>1. RequestKnown(r) /\ request[r].sid \in Sids
  BY DEF LimitsInv, RequestsKnown, RequestKnown
<1> QED
  BY <1>1 DEF LimitsInv, TypeOK, SessionsKnown, TokensWithinLimits, WithinLimits

\* A step of r as an assignment: its entry, and its session's place in the
\* store, in the cache and among the phases.
Moves(r, s, e, st, c, ph) ==
    /\ UNCHANGED <<now, born, seen>>
    /\ disturbed' \in {disturbed, disturbed \cup {s}}
    /\ e \in Request /\ st \in Session /\ c \in Nat /\ ph \in Phases
    /\ request' = [request EXCEPT ![r] = e]
    /\ stored' = [stored EXCEPT ![s] = st]
    /\ cache' = [cache EXCEPT ![s] = c]
    /\ phase' = [phase EXCEPT ![s] = ph]

\* What the invariant says of an undisturbed session, in one place.
SessionQuiet(s) ==
    /\ InFlightOn(s) = {} /\ stored[s].account => stored[s].lastActivityAt = seen[s]
    /\ \A r \in InFlightOn(s) : QuietRequest(s, request[r])
    /\ stored[s].account /\ LifecycleExpiresAt(stored[s]) > now =>
          cache[s] >= LifecycleExpiresAt(stored[s])

LEMMA QuietBySession ==
    /\ SessionInv <=> LimitsInv /\ \A s \in Sids \ disturbed : SessionQuiet(s)
    /\ SessionInv' <=> LimitsInv' /\ \A s \in Sids \ disturbed' : SessionQuiet(s)'
  BY DEF SessionInv, QuietSessionsKept, TokensOutliveSession, SessionQuiet

\* A step elsewhere leaves a quiet session as it is.
LEMMA QuietElsewhere ==
    ASSUME NEW s \in Sids, SessionQuiet(s), now' = now,
           stored'[s] = stored[s], cache'[s] = cache[s],
           born'[s] = born[s], seen'[s] = seen[s],
           InFlightOn(s)' = InFlightOn(s),
           \A r \in InFlightOn(s) : request'[r] = request[r]
    PROVE  SessionQuiet(s)'
<1>1. Due(s)' = Due(s) /\ LifecycleExpiresAt(stored[s])' = LifecycleExpiresAt(stored[s])
  BY DEF Due, LifecycleExpiresAt
<1>2. ASSUME NEW r \in InFlightOn(s)
      PROVE  QuietRequest(s, request[r])'
  BY <1>1, <1>2 DEF SessionQuiet, QuietRequest
<1> QED
  BY <1>1, <1>2 DEF SessionQuiet

\* QuietRequest of an entry, and a session's place in the store and the cache.
QuietEntry(s, e, st, c) ==
    /\ e.alone
    /\ e.pc \in PagePcs \cup SignInPcs =>
          e.session.authenticatedAt = born[s] /\ e.session.lastActivityAt = seen[s]
    /\ e.pc \in {"extending", "checking", "refreshing", "exchanging"} =>
          e.expiresAt = Due(s)
    /\ e.pc = "storing" /\ Due(s) > now => e.expiresAt >= Due(s)
    /\ e.pc \in (PagePcs \ {"extending"}) \cup {"persisting"} /\ Due(s) > now =>
          c >= Due(s)
    /\ e.pc = "extending" /\ LifecycleExpiresAt(st) > now => st.account
    /\ e.pc \in SignInPcs \cup {"clearing"} => ~st.account

TokensLast(st, c) == st.account /\ LifecycleExpiresAt(st) > now => c >= LifecycleExpiresAt(st)

\* What a step of a request in s has to see to if s is undisturbed after it.
QuietlyPays(s, e, st, c) ==
    s \notin disturbed' =>
        /\ TokensLast(st, c)
        /\ \/ e = NoRequest /\ (st.account => st.lastActivityAt = seen[s])
           \/ e.pc # "idle" /\ QuietEntry(s, e, st, c)

\* Where the request stays in its session or ends, and pays what it owes.
Pays(r, s, e, st, c, ph) ==
    /\ CopyOf(s, st)
    /\ c # 0 => WithinLimits(s, c)
    /\ \/ ph = phase[s]
       \/ /\ e = NoRequest
          /\ \/ phase[s] = "fresh" /\ ph = "open"
             \/ phase[s] = "open" /\ ph = "reported"
             \/ request[r].alone /\ ph = "alone" /\ st = NoSession /\ c = 0
    /\ \/ e = NoRequest
       \/ /\ e.pc # "idle"
          /\ e.sid = s
          /\ e.kind = request[r].kind
          /\ e.alone = request[r].alone
          /\ e.kind = "page" => e.pc \in PagePcs
          /\ e.kind \in {"signOut", "timeout"} => e.pc \in EndPcs
          /\ e.pc = "exchanging" =>
                e.session.authenticatedAt = born[s] /\ e.session.lastActivityAt <= seen[s]
          /\ CopyOf(s, e.session)
          /\ e.pc \in {"extending", "checking", "refreshing", "storing", "exchanging"} =>
                WithinLimits(s, e.expiresAt)
          /\ e.alone /\ e.pc = "clearing" /\ e.ok => st = NoSession

LEMMA MovesKeepsInvariant ==
    ASSUME SessionInv, NEW r \in Requests, request[r].pc # "idle",
           NEW s \in Sids, s = request[r].sid,
           NEW e, NEW st, NEW c, NEW ph,
           Moves(r, s, e, st, c, ph), Pays(r, s, e, st, c, ph), QuietlyPays(s, e, st, c)
    PROVE  SessionInv'
<1>1. TypeOK /\ TypeOK' /\ LimitsInv
  <2>1. TypeOK /\ LimitsInv
    BY DEF SessionInv, LimitsInv
  <2> QED
    BY <2>1 DEF TypeOK, Moves
<1>2. /\ request'[r] = e /\ stored'[s] = st /\ cache'[s] = c /\ phase'[s] = ph
      /\ \A q \in Requests \ {r} : request'[q] = request[q]
      /\ \A t \in Sids \ {s} :
            stored'[t] = stored[t] /\ cache'[t] = cache[t] /\ phase'[t] = phase[t]
  BY <1>1 DEF TypeOK, Moves
<1>3. StepOf(r)
  BY <1>2 DEF StepOf, Moves, Pays
<1>4. Owes(r)
  BY <1>2 DEF Owes, Pays, Moves, CopyOf, WithinLimits
<1>5. LimitsInv'
  BY <1>1, <1>3, <1>4, StepKeepsInvariant
<1>6. /\ disturbed \subseteq disturbed' /\ disturbed' \subseteq disturbed \cup {s}
      /\ UNCHANGED <<now, born, seen>>
  BY DEF Moves
<1>7. ASSUME NEW t \in Sids \ disturbed', t # s
      PROVE  SessionQuiet(t)'
  <2>1. SessionQuiet(t)
    BY <1>6, <1>7, QuietBySession
  <2>2. InFlightOn(t)' = InFlightOn(t) /\ r \notin InFlightOn(t)
    BY <1>2, <1>3, <1>7 DEF InFlightOn, StepOf, NoRequest
  <2>3. \A q \in InFlightOn(t) : request'[q] = request[q]
    BY <1>2, <2>2 DEF InFlightOn
  <2> QED
    BY <1>2, <1>6, <1>7, <2>1, <2>2, <2>3, QuietElsewhere
<1>8. ASSUME s \notin disturbed'
      PROVE  SessionQuiet(s)'
  <2>1. InFlightOn(s) = {r}
    <3>1. QuietRequest(s, request[r])
      BY <1>6, <1>8, QuietBySession DEF SessionQuiet, InFlightOn
    <3> QED
      BY <1>1, <3>1 DEF LimitsInv, AloneIsAlone, QuietRequest
  <2>2. InFlightOn(s)' \subseteq {r} /\ (e.pc # "idle" => InFlightOn(s)' = {r})
    BY <1>2, <1>3, <2>1 DEF InFlightOn, StepOf, NoRequest
  <2>3. TokensLast(st, c)' /\ TokensLast(st, c)
    BY <1>6, <1>8 DEF QuietlyPays, TokensLast, LifecycleExpiresAt
  <2>4. CASE e = NoRequest /\ (st.account => st.lastActivityAt = seen[s])
    <3>1. InFlightOn(s)' = {}
      BY <1>2, <2>2, <2>4 DEF InFlightOn, NoRequest
    <3> QED
      BY <1>2, <1>6, <2>3, <2>4, <3>1 DEF SessionQuiet, TokensLast
  <2>5. CASE e.pc # "idle" /\ QuietEntry(s, e, st, c)
    <3>1. Due(s)' = Due(s)
      BY <1>6 DEF Due
    <3>2. QuietRequest(s, request[r])'
      BY <1>2, <1>6, <2>5, <3>1 DEF QuietRequest, QuietEntry, LifecycleExpiresAt
    <3> QED
      BY <1>2, <1>6, <2>2, <2>3, <2>5, <3>2 DEF SessionQuiet, TokensLast
  <2> QED
    BY <1>8, <2>4, <2>5 DEF QuietlyPays
<1> QED
  BY <1>5, <1>7, <1>8, QuietBySession

LEMMA Same ==
    ASSUME NEW S, NEW T, NEW f \in [S -> T], NEW x \in S
    PROVE  f = [f EXCEPT ![x] = f[x]] /\ f[x] \in T
  OBVIOUS

\* What the invariant says of request r, in flight on session s.
Stands(r, s) ==
    /\ s = request[r].sid
    /\ request[r].pc # "idle"
    /\ request[r] \in Request /\ stored[s] \in Session
    /\ cache[s] \in Nat /\ phase[s] \in Phases
    /\ now \in Nat \ {0} /\ born[s] \in Nat /\ seen[s] \in Nat /\ seen[s] <= now
    /\ disturbed \in SUBSET Sids
    /\ stored = [stored EXCEPT ![s] = stored[s]]
    /\ cache = [cache EXCEPT ![s] = cache[s]]
    /\ phase = [phase EXCEPT ![s] = phase[s]]
    /\ CopyOf(s, stored[s])
    /\ cache[s] # 0 => WithinLimits(s, cache[s])
    /\ request[r].kind = "page" => request[r].pc \in PagePcs
    /\ request[r].kind \in {"signOut", "timeout"} => request[r].pc \in EndPcs
    /\ request[r].kind = "signIn" <=> phase[s] = "fresh"
    /\ request[r].kind = "signIn" => request[r].alone
    /\ request[r].pc = "exchanging" =>
          /\ request[r].session.authenticatedAt = born[s]
          /\ request[r].session.lastActivityAt <= seen[s]
    /\ CopyOf(s, request[r].session)
    /\ request[r].pc \in {"extending", "checking", "refreshing", "storing", "exchanging"} =>
          WithinLimits(s, request[r].expiresAt)
    /\ born[s] # 0
    /\ phase[s] # "alone"
    /\ request[r].alone /\ request[r].pc = "clearing" /\ request[r].ok =>
          stored[s] = NoSession
    /\ s \notin disturbed =>
          /\ QuietEntry(s, request[r], stored[s], cache[s])
          /\ TokensLast(stored[s], cache[s])

LEMMA Standing ==
    ASSUME SessionInv, NEW r \in Requests, request[r].pc # "idle"
    PROVE  \E s \in Sids : Stands(r, s)
<1>1. PICK s \in Sids : s = request[r].sid
  BY RequestFacts DEF SessionInv
<1>2. RequestKnown(r) /\ phase[s] # "alone"
  BY <1>1 DEF SessionInv, LimitsInv, RequestsKnown, EndedIsOver, InFlightOn
<1>3. /\ stored = [stored EXCEPT ![s] = stored[s]]
      /\ cache = [cache EXCEPT ![s] = cache[s]]
      /\ phase = [phase EXCEPT ![s] = phase[s]]
      /\ stored[s] \in Session /\ phase[s] \in Phases
      /\ now \in Nat \ {0} /\ disturbed \in SUBSET Sids
  BY Same DEF SessionInv, LimitsInv, TypeOK
<1>4. request[r].alone /\ request[r].pc = "clearing" /\ request[r].ok => stored[s] = NoSession
  BY <1>1 DEF SessionInv, LimitsInv, AloneIsAlone
<1>5. s \notin disturbed =>
         /\ QuietEntry(s, request[r], stored[s], cache[s])
         /\ TokensLast(stored[s], cache[s])
  BY <1>1, QuietBySession
     DEF SessionQuiet, InFlightOn, QuietRequest, QuietEntry, TokensLast
<1>6. LimitsInv
  BY DEF SessionInv
<1> QED
  BY <1>1, <1>2, <1>3, <1>4, <1>5, <1>6, RequestFacts DEF Stands, RequestKnown

\* Deadlines that can be given to a cache.
LEMMA UntilLimits ==
    ASSUME NEW s, NEW t \in Nat, now \in Nat, WithinLimits(s, t)
    PROVE  Until(t) \in Nat /\ (Until(t) # 0 => WithinLimits(s, Until(t)))
  BY DEF Until

\* A quiet session's deadline: that of its copies, at the latest.
LEMMA DueBounds ==
    ASSUME NEW s, NEW session \in Session, born[s] \in Nat, seen[s] \in Nat, now \in Nat
    PROVE  /\ Due(s) \in Nat /\ LifecycleExpiresAt(session) \in Nat
           /\ session.account /\ CopyOf(s, session) => LifecycleExpiresAt(session) <= Due(s)
           /\ session.authenticatedAt = born[s] /\ session.lastActivityAt = seen[s] =>
                 LifecycleExpiresAt(session) = Due(s)
           /\ \A c \in Nat : WithinLimits(s, c) => c <= Due(s)
  BY DEF Due, LifecycleExpiresAt, Earlier, CopyOf, Session, WithinLimits

\* The session and its cache as they are: nothing to see to for the tokens.
LEMMA QuietStanding ==
    ASSUME NEW r \in Requests, NEW s \in Sids, Stands(r, s), s \notin disturbed
    PROVE  /\ QuietEntry(s, request[r], stored[s], cache[s])
           /\ TokensLast(stored[s], cache[s])
           /\ Due(s) \in Nat /\ LifecycleExpiresAt(stored[s]) \in Nat
           /\ stored[s].account => LifecycleExpiresAt(stored[s]) <= Due(s)
           /\ \A c \in Nat : WithinLimits(s, c) => c <= Due(s)
  BY DueBounds DEF Stands

LEMMA ExtendCacheKeeps ==
    ASSUME SessionInv, NEW r \in Requests, ExtendCache(r)
    PROVE  SessionInv'
<1>1. request[r].pc = "extending"
  BY DEF ExtendCache
<1>2. PICK s \in Sids : Stands(r, s)
  BY <1>1, Standing
<1>3. PICK c \in {cache[s], IF cache[s] = 0 THEN 0 ELSE Until(request[r].expiresAt)},
           pc \in {"checking", "ending"} :
         /\ Moves(r, s, [request[r] EXCEPT !.pc = pc], stored[s], c, phase[s])
         /\ s \notin disturbed' =>
               /\ pc = "checking" /\ ~(LifecycleExpiresAt(stored[s]) <= now)
               /\ cache[s] # 0 => c = Until(request[r].expiresAt)
  <2>1. request[r].expiresAt \in Nat /\ WithinLimits(s, request[r].expiresAt)
    BY <1>1, <1>2 DEF Stands, Request
  <2>2. PICK outcome \in Outcomes :
           /\ cache' = IF outcome = "refused" THEN cache
                       ELSE CacheExtended(s, request[r].expiresAt)
           /\ request' = [request EXCEPT ![r].pc =
                             IF outcome = "replied" THEN "checking" ELSE "ending"]
           /\ disturbed' \in {disturbed, disturbed \cup {s}}
           /\ s \notin disturbed' =>
                 outcome = "replied" /\ ~(LifecycleExpiresAt(stored[s]) <= now)
    BY <1>2 DEF ExtendCache, Stands, Goto, Undisturbed, Disturb
  <2>3. /\ UNCHANGED <<now, stored, born, seen, phase>>
    BY DEF ExtendCache
  <2>4. Until(request[r].expiresAt) \in Nat
    BY <1>2, <2>1, UntilLimits DEF Stands
  <2>5. CASE outcome = "refused"
    BY <1>2, <2>2, <2>3, <2>5 DEF Stands, Moves, Request, PagePcs
  <2>6. CASE outcome # "refused"
    BY <1>2, <2>2, <2>3, <2>4, <2>6 DEF Stands, Moves, Request, PagePcs, CacheExtended
  <2> QED
    BY <2>5, <2>6
<1>4. Pays(r, s, [request[r] EXCEPT !.pc = pc], stored[s], c, phase[s])
  <2>1. request[r].expiresAt \in Nat /\ WithinLimits(s, request[r].expiresAt)
    BY <1>1, <1>2 DEF Stands, Request
  <2>2. c # 0 => WithinLimits(s, c)
    BY <1>2, <2>1, UntilLimits DEF Stands
  <2> QED
  BY <1>1, <1>2, <2>1, <2>2 DEF Stands, Pays, Request, PagePcs, EndPcs
<1>5. QuietlyPays(s, [request[r] EXCEPT !.pc = pc], stored[s], c)
  <2> SUFFICES ASSUME s \notin disturbed'
               PROVE  /\ TokensLast(stored[s], c)
                      /\ QuietEntry(s, [request[r] EXCEPT !.pc = pc], stored[s], c)
    BY <1>3 DEF QuietlyPays, Stands, Request
  <2>1. s \notin disturbed /\ LifecycleExpiresAt(stored[s]) > now
    <3>1. s \notin disturbed
      BY <1>3 DEF Moves
    <3> QED
      BY <1>2, <1>3, <3>1, QuietStanding DEF Stands
  <2>2. stored[s].account /\ request[r].expiresAt = Due(s)
    BY <1>1, <1>2, <1>3, <2>1, QuietStanding DEF QuietEntry
  <2>3. cache[s] # 0 /\ LifecycleExpiresAt(stored[s]) <= Due(s) /\ Due(s) \in Nat
    BY <1>2, <1>3, <2>1, <2>2, QuietStanding DEF TokensLast, Stands
  <2>4. c = Due(s)
    BY <1>2, <1>3, <2>1, <2>2, <2>3, QuietStanding DEF Until, Stands
  <2> QED
    BY <1>1, <1>2, <1>3, <2>1, <2>2, <2>3, <2>4, QuietStanding
       DEF TokensLast, QuietEntry, Stands, Request, PagePcs, SignInPcs
<1> QED
  BY <1>2, <1>3, <1>4, <1>5, MovesKeepsInvariant DEF Stands

LEMMA AcceptTokenKeeps ==
    ASSUME SessionInv, NEW r \in Requests, AcceptToken(r)
    PROVE  SessionInv'
<1>1. PICK s \in Sids : Stands(r, s)
  BY Standing DEF AcceptToken
<1>2. PICK pc \in {"serving", "ending"} :
         Moves(r, s, [request[r] EXCEPT !.pc = pc], stored[s], cache[s], phase[s])
  BY <1>1 DEF AcceptToken, Goto, Stands, Moves, Request, PagePcs
<1>3. Pays(r, s, [request[r] EXCEPT !.pc = pc], stored[s], cache[s], phase[s])
  BY <1>1 DEF AcceptToken, Stands, Pays, Request, PagePcs, EndPcs
<1>4. QuietlyPays(s, [request[r] EXCEPT !.pc = pc], stored[s], cache[s])
  BY <1>1, QuietStanding
     DEF AcceptToken, QuietlyPays, QuietEntry, Stands, Request, PagePcs, SignInPcs
<1> QED
  BY <1>1, <1>2, <1>3, <1>4, MovesKeepsInvariant DEF Stands

LEMMA StartRefreshKeeps ==
    ASSUME SessionInv, NEW r \in Requests, StartRefresh(r)
    PROVE  SessionInv'
<1>1. PICK s \in Sids : Stands(r, s)
  BY Standing DEF StartRefresh
<1> DEFINE c == IF cache[s] = 0 THEN 0 ELSE Until(request[r].expiresAt)
           e == IF cache[s] # 0 THEN [request[r] EXCEPT !.pc = "refreshing"]
                ELSE [request[r] EXCEPT !.pc = "ending", !.session.account = FALSE]
<1>2. request[r].expiresAt \in Nat /\ WithinLimits(s, request[r].expiresAt)
  BY <1>1 DEF StartRefresh, Stands, Request
<1>3. c \in Nat /\ (c # 0 => WithinLimits(s, c))
  BY <1>1, <1>2, UntilLimits DEF Stands
<1>4. e \in Request
  BY <1>1 DEF Stands, Request, PagePcs, Session
<1>5. Moves(r, s, e, stored[s], c, phase[s])
  <2>1. s = request[r].sid
    BY <1>1 DEF Stands
  <2>2. request' = [request EXCEPT ![r] = e]
    BY <2>1 DEF StartRefresh
  <2> QED
    BY <1>1, <1>3, <1>4, <2>1, <2>2 DEF StartRefresh, Stands, Moves, CacheExtended
<1>6. Pays(r, s, e, stored[s], c, phase[s])
  BY <1>1, <1>2, <1>3
     DEF StartRefresh, Stands, Pays, Request, Session, CopyOf, PagePcs, EndPcs
<1>7. QuietlyPays(s, e, stored[s], c)
  <2> SUFFICES ASSUME s \notin disturbed'
               PROVE  /\ TokensLast(stored[s], c)
                      /\ QuietEntry(s, e, stored[s], c)
    BY DEF QuietlyPays, Stands, Request
  <2>1. s \notin disturbed /\ request[r].pc = "checking"
    BY DEF StartRefresh
  <2>2. /\ request[r].expiresAt = Due(s) /\ (Due(s) > now => cache[s] >= Due(s))
        /\ cache[s] \in Nat /\ now \in Nat /\ Due(s) \in Nat
    BY <1>1, <2>1, QuietStanding DEF QuietEntry, PagePcs, Stands
  <2>3. Due(s) > now => c = Due(s)
    BY <2>2 DEF Until
  <2>4. TokensLast(stored[s], c)
    BY <1>1, <2>1, <2>2, <2>3, QuietStanding DEF TokensLast
  <2>5. /\ e.alone = request[r].alone /\ e.pc \in {"refreshing", "ending"}
        /\ e.expiresAt = request[r].expiresAt
        /\ e.session.authenticatedAt = request[r].session.authenticatedAt
        /\ e.session.lastActivityAt = request[r].session.lastActivityAt
    BY <1>1 DEF Stands, Request, Session
  <2> HIDE DEF e, c
  <2> QED
    BY <1>1, <2>1, <2>2, <2>3, <2>4, <2>5, QuietStanding DEF QuietEntry, PagePcs, SignInPcs
<1> HIDE DEF c, e
<1> QED
  BY <1>1, <1>5, <1>6, <1>7, MovesKeepsInvariant DEF Stands

LEMMA RefreshKeeps ==
    ASSUME SessionInv, NEW r \in Requests, Refresh(r)
    PROVE  SessionInv'
<1>1. PICK s \in Sids : Stands(r, s)
  BY Standing DEF Refresh
<1>2. PICK outcome \in Outcomes, pc \in {"serving", "ending"} :
         /\ cache' = IF outcome = "refused" THEN cache
                     ELSE CacheStored(s, request[r].expiresAt)
         /\ request' = IF outcome = "replied" THEN [request EXCEPT ![r].pc = pc]
                       ELSE [request EXCEPT ![r].pc = "ending",
                                            ![r].session.account = FALSE]
  BY <1>1 DEF Refresh, Stands
<1> DEFINE c == IF outcome = "refused" THEN cache[s] ELSE Until(request[r].expiresAt)
           e == IF outcome = "replied" THEN [request[r] EXCEPT !.pc = pc]
                ELSE [request[r] EXCEPT !.pc = "ending", !.session.account = FALSE]
<1>3. request[r].expiresAt \in Nat /\ WithinLimits(s, request[r].expiresAt)
  BY <1>1 DEF Refresh, Stands, Request
<1>4. c \in Nat /\ (c # 0 => WithinLimits(s, c))
  BY <1>1, <1>3, UntilLimits DEF Stands
<1>5. e \in Request
  BY <1>1 DEF Stands, Request, PagePcs, Session
<1>6. Moves(r, s, e, stored[s], c, phase[s])
  <2>1. request' = [request EXCEPT ![r] = e]
    BY <1>2
  <2>2. cache' = [cache EXCEPT ![s] = c]
    BY <1>1, <1>2 DEF Stands, CacheStored
  <2> QED
    BY <1>1, <1>4, <1>5, <2>1, <2>2 DEF Refresh, Stands, Moves
<1>7. Pays(r, s, e, stored[s], c, phase[s])
  BY <1>1, <1>3, <1>4
     DEF Refresh, Stands, Pays, Request, Session, CopyOf, PagePcs, EndPcs
<1>8. QuietlyPays(s, e, stored[s], c)
  <2> SUFFICES ASSUME s \notin disturbed'
               PROVE  /\ TokensLast(stored[s], c)
                      /\ QuietEntry(s, e, stored[s], c)
    BY DEF QuietlyPays, Stands, Request
  <2>1. s \notin disturbed /\ request[r].pc = "refreshing"
    BY DEF Refresh
  <2>2. /\ request[r].expiresAt = Due(s) /\ (Due(s) > now => cache[s] >= Due(s))
        /\ cache[s] \in Nat /\ now \in Nat /\ Due(s) \in Nat
    BY <1>1, <2>1, QuietStanding DEF QuietEntry, PagePcs, Stands
  <2>3. Due(s) > now => c >= Due(s)
    BY <2>2 DEF Until
  <2>4. TokensLast(stored[s], c)
    BY <1>1, <1>4, <2>1, <2>2, <2>3, QuietStanding DEF TokensLast
  <2>5. /\ e.alone = request[r].alone /\ e.pc \in {"serving", "ending"}
        /\ e.session.authenticatedAt = request[r].session.authenticatedAt
        /\ e.session.lastActivityAt = request[r].session.lastActivityAt
    BY <1>1 DEF Stands, Request, Session
  <2> HIDE DEF e, c
  <2> QED
    BY <1>1, <2>1, <2>2, <2>3, <2>4, <2>5, QuietStanding DEF QuietEntry, PagePcs, SignInPcs
<1> HIDE DEF c, e
<1> QED
  BY <1>1, <1>6, <1>7, <1>8, MovesKeepsInvariant DEF Stands

LEMMA ThrowsKeeps ==
    ASSUME SessionInv, NEW r \in Requests, Throws(r)
    PROVE  SessionInv'
<1>1. PICK s \in Sids : Stands(r, s)
  BY Standing DEF Throws
<1>2. PICK account \in {FALSE, request[r].session.account} :
         request' = [request EXCEPT ![r].pc = "ending", ![r].session.account = account]
  BY DEF Throws
<1> DEFINE e == [request[r] EXCEPT !.pc = "ending", !.session.account = account]
<1>3. request[r].session \in Session
  BY <1>1 DEF Stands, Request
<1>4. e \in Request
  BY <1>1 DEF Stands, Request, PagePcs, Session
<1>5. Moves(r, s, e, stored[s], cache[s], phase[s])
  <2>1. request' = [request EXCEPT ![r] = e]
    BY <1>2
  <2> QED
    BY <1>1, <1>4, <2>1 DEF Throws, Stands, Moves
<1>6. Pays(r, s, e, stored[s], cache[s], phase[s])
  <2>1. CopyOf(s, e.session)
    BY <1>1, <1>3 DEF Throws, Stands, Request, Session, CopyOf, PagePcs
  <2> QED
    BY <1>1, <2>1 DEF Throws, Stands, Pays, Request, PagePcs, EndPcs
<1>7. QuietlyPays(s, e, stored[s], cache[s])
  <2>1. /\ e.alone = request[r].alone /\ e.pc = "ending"
        /\ e.session.authenticatedAt = request[r].session.authenticatedAt
        /\ e.session.lastActivityAt = request[r].session.lastActivityAt
    BY <1>1, <1>3 DEF Stands, Request, Session
  <2>2. disturbed' = disturbed /\ request[r].pc \in {"checking", "refreshing"}
    BY DEF Throws
  <2> HIDE DEF e
  <2> QED
    BY <1>1, <2>1, <2>2, QuietStanding DEF QuietlyPays, QuietEntry, PagePcs, SignInPcs
<1> QED
  BY <1>1, <1>5, <1>6, <1>7, MovesKeepsInvariant DEF Stands

LEMMA AcquireDownstreamTokenKeeps ==
    ASSUME SessionInv, NEW r \in Requests, AcquireDownstreamToken(r)
    PROVE  SessionInv'
<1>1. PICK s \in Sids : Stands(r, s)
  BY Standing DEF AcquireDownstreamToken
<1> DEFINE e == [request[r] EXCEPT !.pc = "acquiring"]
<1>2. Moves(r, s, e, stored[s], cache[s], phase[s])
  BY <1>1 DEF AcquireDownstreamToken, Goto, Stands, Moves, Request, PagePcs
<1>3. Pays(r, s, e, stored[s], cache[s], phase[s])
  BY <1>1 DEF AcquireDownstreamToken, Stands, Pays, Request, PagePcs, EndPcs
<1>4. QuietlyPays(s, e, stored[s], cache[s])
  BY <1>1, QuietStanding DEF AcquireDownstreamToken, QuietlyPays, QuietEntry, Stands, Request, PagePcs, SignInPcs
<1> QED
  BY <1>1, <1>2, <1>3, <1>4, MovesKeepsInvariant DEF Stands

LEMMA ReadCacheExpiryKeeps ==
    ASSUME SessionInv, NEW r \in Requests, ReadCacheExpiry(r)
    PROVE  SessionInv'
<1>1. PICK s \in Sids : Stands(r, s)
  BY Standing DEF ReadCacheExpiry
<1>2. PICK pc \in {"serving", "storing"} :
         /\ request' = [request EXCEPT ![r].pc = pc, ![r].expiresAt = cache[s]]
         /\ pc = "storing" => cache[s] # 0
  BY <1>1 DEF ReadCacheExpiry, Stands
<1> DEFINE e == [request[r] EXCEPT !.pc = pc, !.expiresAt = cache[s]]
<1>3. e \in Request
  BY <1>1 DEF Stands, Request, PagePcs
<1>4. Moves(r, s, e, stored[s], cache[s], phase[s])
  <2>1. request' = [request EXCEPT ![r] = e]
    BY <1>2
  <2> QED
    BY <1>1, <1>3, <2>1 DEF ReadCacheExpiry, Stands, Moves
<1>5. Pays(r, s, e, stored[s], cache[s], phase[s])
  BY <1>1, <1>2 DEF ReadCacheExpiry, Stands, Pays, Request, PagePcs, EndPcs
<1>6. QuietlyPays(s, e, stored[s], cache[s])
  <2>1. /\ e.alone = request[r].alone /\ e.pc \in {"serving", "storing"}
        /\ e.expiresAt = cache[s] /\ e.session = request[r].session
    BY <1>1 DEF Stands, Request
  <2>2. disturbed' = disturbed /\ request[r].pc = "acquiring"
    BY DEF ReadCacheExpiry
  <2> HIDE DEF e
  <2> QED
    BY <1>1, <2>1, <2>2, QuietStanding DEF QuietlyPays, QuietEntry, PagePcs, SignInPcs
<1> QED
  BY <1>1, <1>4, <1>5, <1>6, MovesKeepsInvariant DEF Stands

LEMMA StoreCacheKeeps ==
    ASSUME SessionInv, NEW r \in Requests, StoreCache(r)
    PROVE  SessionInv'
<1>1. PICK s \in Sids : Stands(r, s)
  BY Standing DEF StoreCache
<1> DEFINE e == [request[r] EXCEPT !.pc = "serving"]
<1>2. request[r].expiresAt \in Nat /\ WithinLimits(s, request[r].expiresAt)
  BY <1>1 DEF StoreCache, Stands, Request
<1>3. PICK c \in {cache[s], Until(request[r].expiresAt)} : cache' = [cache EXCEPT ![s] = c]
  BY <1>1 DEF StoreCache, Stands, CacheStored
<1>4. c \in Nat /\ (c # 0 => WithinLimits(s, c))
  BY <1>1, <1>2, <1>3, UntilLimits DEF Stands
<1>5. Moves(r, s, e, stored[s], c, phase[s])
  BY <1>1, <1>3, <1>4 DEF StoreCache, Goto, Stands, Moves, Request, PagePcs
<1>6. Pays(r, s, e, stored[s], c, phase[s])
  BY <1>1, <1>4 DEF StoreCache, Stands, Pays, Request, PagePcs, EndPcs
<1>7. QuietlyPays(s, e, stored[s], c)
  <2> SUFFICES ASSUME s \notin disturbed'
               PROVE  /\ TokensLast(stored[s], c)
                      /\ QuietEntry(s, e, stored[s], c)
    BY DEF QuietlyPays, Stands, Request
  <2>1. s \notin disturbed /\ request[r].pc = "storing"
    BY DEF StoreCache
  <2>2. /\ Due(s) > now => request[r].expiresAt >= Due(s) /\ cache[s] >= Due(s)
        /\ cache[s] \in Nat /\ now \in Nat /\ Due(s) \in Nat
    BY <1>1, <2>1, QuietStanding DEF QuietEntry, PagePcs, Stands
  <2>3. Due(s) > now => c >= Due(s)
    BY <1>2, <1>3, <2>2 DEF Until
  <2>4. TokensLast(stored[s], c)
    BY <1>1, <1>4, <2>1, <2>2, <2>3, QuietStanding DEF TokensLast
  <2>5. e.alone = request[r].alone /\ e.pc = "serving" /\ e.session = request[r].session
    BY <1>1 DEF Stands, Request
  <2> HIDE DEF e
  <2> QED
    BY <1>1, <2>1, <2>2, <2>3, <2>4, <2>5, QuietStanding DEF QuietEntry, PagePcs, SignInPcs
<1> QED
  BY <1>1, <1>5, <1>6, <1>7, MovesKeepsInvariant DEF Stands

LEMMA NoRequestTyped == NoRequest \in Request
  BY DEF NoRequest, Request, NoSession, Session, Kinds

LEMMA SaveSessionKeeps ==
    ASSUME SessionInv, NEW r \in Requests, SaveSession(r)
    PROVE  SessionInv'
<1>1. PICK s \in Sids : Stands(r, s)
  BY Standing DEF SaveSession
<1>2. Moves(r, s, NoRequest, request[r].session, cache[s], phase[s])
  BY <1>1, NoRequestTyped DEF SaveSession, Done, Stands, Moves, Request
<1>3. Pays(r, s, NoRequest, request[r].session, cache[s], phase[s])
  BY <1>1 DEF SaveSession, Stands, Pays
<1>4. QuietlyPays(s, NoRequest, request[r].session, cache[s])
  <2> SUFFICES ASSUME s \notin disturbed'
               PROVE  /\ TokensLast(request[r].session, cache[s])
                      /\ request[r].session.lastActivityAt = seen[s]
    BY DEF QuietlyPays
  <2>1. /\ s \notin disturbed /\ request[r].pc \in {"serving", "ending"}
        /\ request[r].session \in Session
    BY <1>1 DEF SaveSession, Stands, Request
  <2>2. /\ request[r].session.authenticatedAt = born[s]
        /\ request[r].session.lastActivityAt = seen[s]
        /\ Due(s) > now => cache[s] >= Due(s)
    BY <1>1, <2>1, QuietStanding DEF QuietEntry, PagePcs
  <2>3. LifecycleExpiresAt(request[r].session) = Due(s)
    BY <1>1, <2>1, <2>2, DueBounds DEF Stands
  <2> QED
    BY <2>2, <2>3 DEF TokensLast
<1> QED
  BY <1>1, <1>2, <1>3, <1>4, MovesKeepsInvariant DEF Stands

LEMMA NoSessionTyped == NoSession \in Session /\ ~NoSession.account
  BY DEF NoSession, Session

LEMMA DestroySessionKeeps ==
    ASSUME SessionInv, NEW r \in Requests, DestroySession(r)
    PROVE  SessionInv'
<1>1. PICK s \in Sids : Stands(r, s)
  BY Standing DEF DestroySession
<1>2. PICK outcome \in Outcomes :
         /\ stored' = IF outcome = "refused" THEN stored
                      ELSE [stored EXCEPT ![s] = NoSession]
         /\ IF outcome = "replied"
            THEN Goto(r, "clearing") /\ Undisturbed
            ELSE /\ Disturb(r)
                 /\ IF request[r].kind = "timeout" THEN Done(r)
                    ELSE request' = [request EXCEPT ![r].pc = "clearing", ![r].ok = FALSE]
  BY <1>1 DEF DestroySession, Stands
<1> DEFINE st == IF outcome = "refused" THEN stored[s] ELSE NoSession
<1>3. /\ st \in Session /\ CopyOf(s, st)
      /\ stored' = [stored EXCEPT ![s] = st]
      /\ disturbed' \in {disturbed, disturbed \cup {s}}
  BY <1>1, <1>2, NoSessionTyped DEF Stands, CopyOf, Undisturbed, Disturb
<1>7. ASSUME s \notin disturbed'
      PROVE  outcome = "replied" /\ s \notin disturbed
  BY <1>1, <1>2, <1>7 DEF Stands, Disturb, Undisturbed
<1>4. CASE outcome = "replied"
  <2> DEFINE e == [request[r] EXCEPT !.pc = "clearing"]
  <2>1. Moves(r, s, e, st, cache[s], phase[s])
    BY <1>1, <1>2, <1>3, <1>4 DEF DestroySession, Goto, Stands, Moves, Request, EndPcs
  <2>2. Pays(r, s, e, st, cache[s], phase[s])
    BY <1>1, <1>3, <1>4 DEF DestroySession, Stands, Pays, Request, PagePcs, EndPcs
  <2>3. QuietlyPays(s, e, st, cache[s])
    BY <1>1, <1>4, <1>7, QuietStanding, NoSessionTyped
       DEF QuietlyPays, QuietEntry, TokensLast, Stands, Request, PagePcs, SignInPcs
  <2> QED
    BY <1>1, <2>1, <2>2, <2>3, MovesKeepsInvariant DEF Stands
<1>5. CASE outcome # "replied" /\ request[r].kind = "timeout"
  <2>1. Moves(r, s, NoRequest, st, cache[s], phase[s])
    BY <1>1, <1>2, <1>3, <1>5, NoRequestTyped DEF DestroySession, Done, Stands, Moves
  <2>2. Pays(r, s, NoRequest, st, cache[s], phase[s])
    BY <1>1, <1>3 DEF Stands, Pays
  <2>3. QuietlyPays(s, NoRequest, st, cache[s])
    BY <1>5, <1>7 DEF QuietlyPays
  <2> QED
    BY <1>1, <2>1, <2>2, <2>3, MovesKeepsInvariant DEF Stands
<1>6. CASE outcome # "replied" /\ request[r].kind # "timeout"
  <2> DEFINE e == [request[r] EXCEPT !.pc = "clearing", !.ok = FALSE]
  <2>1. Moves(r, s, e, st, cache[s], phase[s])
    <3>1. e \in Request
      BY <1>1 DEF Stands, Request, EndPcs
    <3>2. request' = [request EXCEPT ![r] = e]
      BY <1>2, <1>6
    <3> QED
      BY <1>1, <1>3, <3>1, <3>2 DEF DestroySession, Stands, Moves
  <2>2. Pays(r, s, e, st, cache[s], phase[s])
    BY <1>1, <1>3, <1>6 DEF DestroySession, Stands, Pays, Request, PagePcs, EndPcs
  <2>3. QuietlyPays(s, e, st, cache[s])
    BY <1>6, <1>7 DEF QuietlyPays
  <2> QED
    BY <1>1, <2>1, <2>2, <2>3, MovesKeepsInvariant DEF Stands
<1> QED
  BY <1>4, <1>5, <1>6

LEMMA DeleteMsalCacheKeeps ==
    ASSUME SessionInv, NEW r \in Requests, DeleteMsalCache(r)
    PROVE  SessionInv'
<1>1. PICK s \in Sids : Stands(r, s)
  BY Standing DEF DeleteMsalCache
<1>2. PICK outcome \in Outcomes :
         /\ cache' = IF outcome = "refused" THEN cache ELSE CacheDeleted(s)
         /\ phase' = [phase EXCEPT ![s] =
               IF outcome # "replied" \/ ~request[r].ok THEN @
               ELSE IF request[r].alone THEN "alone"
               ELSE IF request[r].kind = "signOut" /\ @ = "open" THEN "reported"
               ELSE @]
         /\ disturbed' \in {disturbed, disturbed \cup {s}}
  BY <1>1 DEF DeleteMsalCache, Stands, Undisturbed, Disturb
<1> DEFINE c == IF outcome = "refused" THEN cache[s] ELSE 0
           ph == IF outcome # "replied" \/ ~request[r].ok THEN phase[s]
                 ELSE IF request[r].alone THEN "alone"
                 ELSE IF request[r].kind = "signOut" /\ phase[s] = "open" THEN "reported"
                 ELSE phase[s]
<1>3. ph \in Phases /\ phase' = [phase EXCEPT ![s] = ph]
  BY <1>1, <1>2 DEF Stands, Phases
<1>4. c \in Nat /\ cache' = [cache EXCEPT ![s] = c] /\ (c # 0 => WithinLimits(s, c))
  BY <1>1, <1>2 DEF Stands, CacheDeleted
<1>5. Moves(r, s, NoRequest, stored[s], c, ph)
  BY <1>1, <1>2, <1>3, <1>4, NoRequestTyped DEF DeleteMsalCache, Done, Stands, Moves
<1>6. Pays(r, s, NoRequest, stored[s], c, ph)
  <2>1. \/ ph = phase[s]
        \/ phase[s] = "open" /\ ph = "reported"
        \/ request[r].alone /\ ph = "alone" /\ stored[s] = NoSession /\ c = 0
    BY <1>1 DEF DeleteMsalCache, Stands
  <2> QED
    BY <1>1, <1>4, <2>1 DEF Stands, Pays
<1>7. QuietlyPays(s, NoRequest, stored[s], c)
  <2>1. s \notin disturbed' => s \notin disturbed
    BY <1>2
  <2> QED
    BY <1>1, <2>1, QuietStanding DEF DeleteMsalCache, QuietlyPays, QuietEntry, TokensLast
<1> QED
  BY <1>1, <1>5, <1>6, <1>7, MovesKeepsInvariant DEF Stands

LEMMA ExchangeFailsKeeps ==
    ASSUME SessionInv, NEW r \in Requests, ExchangeFails(r)
    PROVE  SessionInv'
<1>1. PICK s \in Sids : Stands(r, s)
  BY Standing DEF ExchangeFails
<1>2. request[r].expiresAt \in Nat /\ WithinLimits(s, request[r].expiresAt)
  BY <1>1 DEF ExchangeFails, Stands, Request
<1>3. PICK c \in {cache[s], Until(request[r].expiresAt)} : cache' = [cache EXCEPT ![s] = c]
  BY <1>1 DEF ExchangeFails, Stands, CacheStored
<1>4. c \in Nat /\ (c # 0 => WithinLimits(s, c))
  BY <1>1, <1>2, <1>3, UntilLimits DEF Stands
<1>5. Moves(r, s, NoRequest, stored[s], c, phase[s])
  BY <1>1, <1>3, <1>4, NoRequestTyped DEF ExchangeFails, Done, Stands, Moves
<1>6. Pays(r, s, NoRequest, stored[s], c, phase[s])
  BY <1>1, <1>4 DEF Stands, Pays
<1>7. QuietlyPays(s, NoRequest, stored[s], c)
  BY <1>1, QuietStanding
     DEF ExchangeFails, QuietlyPays, QuietEntry, TokensLast, SignInPcs
<1> QED
  BY <1>1, <1>5, <1>6, <1>7, MovesKeepsInvariant DEF Stands

LEMMA ExchangeAuthCodeKeeps ==
    ASSUME SessionInv, NEW r \in Requests, ExchangeAuthCode(r)
    PROVE  SessionInv'
<1>1. PICK s \in Sids : Stands(r, s)
  BY Standing DEF ExchangeAuthCode
<1> DEFINE e == [request[r] EXCEPT !.pc = "persisting", !.session.account = TRUE]
           c == Until(request[r].expiresAt)
<1>2. request[r].expiresAt \in Nat /\ WithinLimits(s, request[r].expiresAt)
  BY <1>1 DEF ExchangeAuthCode, Stands, Request
<1>3. c \in Nat /\ (c # 0 => WithinLimits(s, c))
  BY <1>1, <1>2, UntilLimits DEF Stands
<1>4. request[r].session \in Session
  BY <1>1 DEF Stands, Request
<1>5. e \in Request
  BY <1>1, <1>4 DEF Stands, Request, SignInPcs, Session
<1>6. Moves(r, s, e, stored[s], c, phase[s])
  <2>1. request' = [request EXCEPT ![r] = e]
    BY DEF ExchangeAuthCode
  <2>2. cache' = [cache EXCEPT ![s] = c]
    BY <1>1 DEF ExchangeAuthCode, Stands, CacheStored
  <2> QED
    BY <1>1, <1>3, <1>5, <2>1, <2>2 DEF ExchangeAuthCode, Stands, Moves
<1>7. Pays(r, s, e, stored[s], c, phase[s])
  <2>1. CopyOf(s, e.session)
    BY <1>1, <1>4 DEF ExchangeAuthCode, Stands, Request, Session, CopyOf
  <2> QED
    BY <1>1, <1>3, <2>1 DEF ExchangeAuthCode, Stands, Pays, Request, PagePcs, EndPcs
<1>8. QuietlyPays(s, e, stored[s], c)
  <2> SUFFICES ASSUME s \notin disturbed'
               PROVE  /\ TokensLast(stored[s], c)
                      /\ QuietEntry(s, e, stored[s], c)
    BY DEF QuietlyPays, Stands, Request
  <2>1. s \notin disturbed /\ request[r].pc = "exchanging"
    BY DEF ExchangeAuthCode
  <2>2. /\ request[r].expiresAt = Due(s) /\ ~stored[s].account
        /\ now \in Nat /\ Due(s) \in Nat
    BY <1>1, <2>1, QuietStanding DEF QuietEntry, SignInPcs, Stands
  <2>3. Due(s) > now => c >= Due(s)
    BY <2>2 DEF Until
  <2>4. /\ e.alone = request[r].alone /\ e.pc = "persisting"
        /\ e.session.authenticatedAt = request[r].session.authenticatedAt
        /\ e.session.lastActivityAt = request[r].session.lastActivityAt
    BY <1>1, <1>4 DEF Stands, Request, Session
  <2> HIDE DEF e, c
  <2> QED
    BY <1>1, <2>1, <2>2, <2>3, <2>4, QuietStanding
       DEF QuietEntry, TokensLast, PagePcs, SignInPcs
<1> QED
  BY <1>1, <1>6, <1>7, <1>8, MovesKeepsInvariant DEF Stands

LEMMA PersistAuthenticatedSessionKeeps ==
    ASSUME SessionInv, NEW r \in Requests, PersistAuthenticatedSession(r)
    PROVE  SessionInv'
<1>1. PICK s \in Sids : Stands(r, s)
  BY Standing DEF PersistAuthenticatedSession
<1>2. PICK outcome \in Outcomes :
         /\ stored' = IF outcome = "refused" THEN stored
                      ELSE [stored EXCEPT ![s] = request[r].session]
         /\ IF outcome = "replied"
            THEN Done(r) /\ phase' = [phase EXCEPT ![s] = "open"]
            ELSE Goto(r, "destroying") /\ UNCHANGED phase
  BY <1>1 DEF PersistAuthenticatedSession, Stands
<1> DEFINE st == IF outcome = "refused" THEN stored[s] ELSE request[r].session
<1>3. st \in Session /\ CopyOf(s, st) /\ stored' = [stored EXCEPT ![s] = st]
  BY <1>1, <1>2 DEF Stands, Request
<1>4. request[r].kind = "signIn" /\ phase[s] = "fresh"
  BY <1>1 DEF PersistAuthenticatedSession, Stands, Request, Kinds, PagePcs, EndPcs
<1>7. ASSUME s \notin disturbed'
      PROVE  /\ TokensLast(st, cache[s]) /\ request[r].alone
             /\ st.account => st.lastActivityAt = seen[s]
  <2>1. /\ s \notin disturbed /\ request[r].pc = "persisting"
        /\ request[r].session \in Session
    BY <1>1, <1>7 DEF PersistAuthenticatedSession, Stands, Request
  <2>2. /\ request[r].session.authenticatedAt = born[s]
        /\ request[r].session.lastActivityAt = seen[s]
        /\ Due(s) > now => cache[s] >= Due(s)
        /\ ~stored[s].account /\ request[r].alone
    BY <1>1, <2>1, QuietStanding DEF QuietEntry, SignInPcs
  <2>3. LifecycleExpiresAt(request[r].session) = Due(s)
    BY <1>1, <2>1, <2>2, DueBounds DEF Stands
  <2> QED
    BY <2>2, <2>3 DEF TokensLast
<1>5. CASE outcome = "replied"
  <2>1. Moves(r, s, NoRequest, st, cache[s], "open")
    BY <1>1, <1>2, <1>3, <1>5, NoRequestTyped
       DEF PersistAuthenticatedSession, Done, Stands, Moves, Phases
  <2>2. Pays(r, s, NoRequest, st, cache[s], "open")
    BY <1>1, <1>3, <1>4 DEF Stands, Pays
  <2>3. QuietlyPays(s, NoRequest, st, cache[s])
    BY <1>7 DEF QuietlyPays
  <2> QED
    BY <1>1, <2>1, <2>2, <2>3, MovesKeepsInvariant DEF Stands, PersistAuthenticatedSession
<1>6. CASE outcome # "replied"
  <2> DEFINE e == [request[r] EXCEPT !.pc = "destroying"]
  <2>1. Moves(r, s, e, st, cache[s], phase[s])
    BY <1>1, <1>2, <1>3, <1>6
       DEF PersistAuthenticatedSession, Goto, Stands, Moves, Request, EndPcs
  <2>2. Pays(r, s, e, st, cache[s], phase[s])
    BY <1>1, <1>3, <1>4
       DEF PersistAuthenticatedSession, Stands, Pays, Request, PagePcs, EndPcs
  <2>3. e.alone = request[r].alone /\ e.pc = "destroying"
    BY <1>1 DEF Stands, Request
  <2>4. QuietlyPays(s, e, st, cache[s])
    <3> HIDE DEF e
    <3> QED
      BY <1>7, <2>3 DEF QuietlyPays, QuietEntry, PagePcs, SignInPcs
  <2> QED
    BY <1>1, <2>1, <2>2, <2>4, MovesKeepsInvariant DEF Stands
<1> QED
  BY <1>5, <1>6

LEMMA DiesKeeps ==
    ASSUME SessionInv, NEW r \in Requests, Dies(r)
    PROVE  SessionInv'
<1>1. PICK s \in Sids : Stands(r, s)
  BY Standing DEF Dies
<1>2. Moves(r, s, NoRequest, stored[s], cache[s], phase[s])
  BY <1>1, NoRequestTyped DEF Dies, Done, Disturb, Stands, Moves
<1>3. Pays(r, s, NoRequest, stored[s], cache[s], phase[s])
  BY <1>1 DEF Stands, Pays
<1>4. QuietlyPays(s, NoRequest, stored[s], cache[s])
  BY <1>1 DEF Dies, Disturb, QuietlyPays, Stands
<1> QED
  BY <1>1, <1>2, <1>3, <1>4, MovesKeepsInvariant DEF Stands

---------------------------------------------------------------------------
(* A request begins *)

\* A request let into, or sent to end, a session that is there.
LEMMA StartKeepsLimits ==
    ASSUME LimitsInv, NEW r \in Requests, NEW s \in Sids, NEW e \in Request,
           request[r].pc = "idle", phase[s] # "fresh", stored[s] # NoSession,
           request' = Started(r, s, e),
           seen' \in {seen, [seen EXCEPT ![s] = now]},
           disturbed' = DisturbedBy(s),
           UNCHANGED <<now, stored, cache, born, phase>>,
           e.sid = s,
           \/ e.kind = "page" /\ e.pc = "extending"
           \/ e.kind \in {"signOut", "timeout"} /\ e.pc = "destroying",
           e.session.account =>
              e.session.authenticatedAt = born[s] /\ e.session.lastActivityAt <= seen'[s],
           e.pc = "extending" =>
              e.expiresAt <= born[s] + Absolute /\ e.expiresAt <= seen'[s] + Idle
    PROVE  LimitsInv'
<1>1. TypeOK'
  <2>1. ASSUME NEW q \in Requests, NEW b \in BOOLEAN, NEW d \in Request
        PROVE  [d EXCEPT !.alone = b] \in Request
    BY DEF Request
  <2>2. request' \in [Requests -> Request]
    BY <2>1 DEF LimitsInv, TypeOK, Started
  <2>3. disturbed' \in SUBSET Sids /\ seen' \in [Sids -> Nat]
    BY DEF LimitsInv, TypeOK, DisturbedBy
  <2> QED
    BY <2>2, <2>3 DEF LimitsInv, TypeOK
<1>2. /\ now \in Nat \ {0} /\ seen \in [Sids -> Nat] /\ seen' \in [Sids -> Nat]
      /\ born \in [Sids -> Nat] /\ cache \in [Sids -> Nat]
      /\ request \in [Requests -> Request] /\ stored \in [Sids -> Session]
      /\ \A t \in Sids : seen[t] <= seen'[t] /\ seen'[t] <= now
  BY DEF LimitsInv, TypeOK, SessionsKnown
<1>3. born[s] # 0 /\ phase[s] # "alone"
  BY DEF LimitsInv, SessionsKnown, EndedIsOver
<1>4. /\ request'[r] = [e EXCEPT !.alone = InFlightOn(s) = {}]
      /\ \A q \in Requests \ {r} :
            request'[q] = IF q \in InFlightOn(s) THEN [request[q] EXCEPT !.alone = FALSE]
                          ELSE request[q]
  BY DEF Started
<1>5. ASSUME NEW q \in Requests \ {r}
      PROVE
         /\ request'[q].pc = request[q].pc /\ request'[q].sid = request[q].sid
         /\ request'[q].kind = request[q].kind /\ request'[q].ok = request[q].ok
         /\ request'[q].session = request[q].session
         /\ request'[q].expiresAt = request[q].expiresAt
         /\ request'[q].alone => request[q].alone /\ q \notin InFlightOn(s)
  <2>1. request[q] \in Request
    BY <1>2
  <2>2. CASE q \in InFlightOn(s)
    <3>1. request'[q] = [request[q] EXCEPT !.alone = FALSE]
      BY <1>4, <2>2
    <3> QED
      BY <2>1, <3>1 DEF Request
  <2>3. CASE q \notin InFlightOn(s)
    BY <1>4, <2>3
  <2> QED
    BY <2>2, <2>3
<1>6. /\ request'[r].pc = e.pc /\ request'[r].sid = s /\ request'[r].kind = e.kind
      /\ request'[r].session = e.session /\ request'[r].expiresAt = e.expiresAt
      /\ request'[r].alone <=> InFlightOn(s) = {}
  BY <1>4 DEF Request
<1>7. /\ \A t \in Sids \ {s} : InFlightOn(t)' = InFlightOn(t)
      /\ InFlightOn(s)' = InFlightOn(s) \cup {r}
  BY <1>5, <1>6 DEF InFlightOn
<1>8. SessionsKnown'
  <2>1. ASSUME NEW t \in Sids, CopyOf(t, stored[t])
        PROVE  CopyOf(t, stored[t])'
    BY <1>2, <2>1 DEF CopyOf, Session
  <2> QED
    BY <1>2, <2>1 DEF LimitsInv, SessionsKnown
<1>9. ASSUME NEW q \in Requests
      PROVE  RequestKnown(q)'
  <2>1. CASE q = r
    BY <1>2, <1>3, <1>6, <2>1
       DEF RequestKnown, CopyOf, WithinLimits, PagePcs, EndPcs
  <2>2. CASE q # r /\ request[q].pc = "idle"
    <3>1. request'[q] = request[q]
      BY <1>4, <2>2 DEF InFlightOn
    <3>2. request[q] = NoRequest
      BY <2>2 DEF LimitsInv, RequestsKnown, RequestKnown
    <3> QED
      BY <2>2, <3>1, <3>2 DEF RequestKnown
  <2>3. CASE q # r /\ request[q].pc # "idle"
    <3>1. RequestKnown(q) /\ request[q].sid \in Sids /\ request[q] \in Request
      BY <1>2, <2>3 DEF LimitsInv, RequestsKnown, RequestKnown
    <3>2. request[q].kind = "signIn" => request'[q].alone
      BY <1>4, <2>3, <3>1 DEF RequestKnown, InFlightOn
    <3>3. CopyOf(request[q].sid, request[q].session)'
      BY <1>2, <1>5, <2>3, <3>1 DEF RequestKnown, CopyOf, Request, Session
    <3>4. request[q].pc \in {"extending", "checking", "refreshing", "storing",
                              "exchanging"} =>
             WithinLimits(request[q].sid, request[q].expiresAt)'
      <4>1. request[q].expiresAt \in Nat
        BY <3>1 DEF Request
      <4> QED
        BY <1>2, <1>5, <2>3, <3>1, <4>1 DEF RequestKnown, WithinLimits
    <3>5. request[q].pc = "exchanging" =>
             request[q].session.lastActivityAt <= seen'[request[q].sid]
      BY <1>2, <2>3, <3>1 DEF RequestKnown, Request, Session
    <3> QED
      BY <1>3, <1>5, <2>3, <3>1, <3>2, <3>3, <3>4, <3>5
         DEF RequestKnown, CopyOf, WithinLimits
  <2> QED
    BY <2>1, <2>2, <2>3
<1>10. AloneIsAlone'
  <2>1. ASSUME NEW q \in Requests, request'[q].pc # "idle", request'[q].alone
        PROVE  \E t \in Sids :
                  /\ t = request'[q].sid
                  /\ InFlightOn(t)' = {q}
                  /\ request'[q].pc = "clearing" /\ request'[q].ok => stored'[t] = NoSession
    <3>1. CASE q = r
      BY <1>6, <1>7, <2>1, <3>1
    <3>2. CASE q # r
      <4>1. request[q].pc # "idle" /\ request[q].alone /\ q \notin InFlightOn(s)
        BY <1>5, <2>1, <3>2
      <4>2. PICK t \in Sids : t = request[q].sid
        BY <4>1 DEF LimitsInv, RequestsKnown, RequestKnown
      <4>3. t # s
        BY <4>1, <4>2 DEF InFlightOn
      <4> QED
        BY <1>5, <1>7, <2>1, <3>2, <4>1, <4>2, <4>3 DEF LimitsInv, AloneIsAlone
    <3> QED
      BY <3>1, <3>2
  <2> QED
    BY <2>1 DEF AloneIsAlone, InFlightOn
<1>11. EndedIsOver'
  BY <1>3, <1>7 DEF LimitsInv, EndedIsOver
<1>12. TokensWithinLimits'
  BY <1>2 DEF LimitsInv, TokensWithinLimits
<1> QED
  BY <1>1, <1>8, <1>9, <1>10, <1>11, <1>12 DEF LimitsInv, RequestsKnown

\* The same, of the sessions that are quiet.
LEMMA StartKeeps ==
    ASSUME SessionInv, LimitsInv', NEW r \in Requests, NEW s \in Sids, NEW e \in Request,
           request[r].pc = "idle",
           request' = Started(r, s, e),
           seen' \in {seen, [seen EXCEPT ![s] = now]},
           disturbed' = DisturbedBy(s),
           UNCHANGED <<now, stored, cache, born, phase>>,
           e.sid = s, e.pc \in {"extending", "destroying"},
           e.pc = "extending" =>
              /\ stored[s].account
              /\ e.session.authenticatedAt = born[s] /\ e.session.lastActivityAt = seen'[s]
              /\ e.expiresAt = Earlier(born[s] + Absolute, seen'[s] + Idle)
    PROVE  SessionInv'
<1>1. /\ seen \in [Sids -> Nat] /\ request \in [Requests -> Request]
      /\ disturbed \subseteq disturbed'
      /\ s \notin disturbed' => InFlightOn(s) = {}
  BY DEF SessionInv, LimitsInv, TypeOK, DisturbedBy
<1>2. ASSUME NEW t \in Sids \ disturbed', t # s
      PROVE  SessionQuiet(t)'
  <2>1. SessionQuiet(t)
    BY <1>1, <1>2, QuietBySession
  <2>2. \A q \in InFlightOn(t) : request'[q] = request[q] /\ q # r
    BY <1>2 DEF Started, InFlightOn
  <2>3. InFlightOn(t)' = InFlightOn(t)
    <3>1. request'[r].sid = s
      BY <1>1 DEF Started, Request
    <3>2. ASSUME NEW q \in Requests, q # r
          PROVE  request'[q].pc = request[q].pc /\ request'[q].sid = request[q].sid
      BY <1>1, <3>2 DEF Started, Request
    <3> QED
      BY <1>2, <2>2, <3>1, <3>2 DEF InFlightOn
  <2>4. seen'[t] = seen[t]
    BY <1>1, <1>2
  <2> QED
    BY <2>1, <2>2, <2>3, <2>4, QuietElsewhere
<1>3. ASSUME s \notin disturbed'
      PROVE  SessionQuiet(s)'
  <2>1. InFlightOn(s) = {} /\ SessionQuiet(s)
    BY <1>1, <1>3, QuietBySession
  <2>2. /\ request'[r] = [e EXCEPT !.alone = TRUE]
        /\ \A q \in Requests \ {r} : request'[q] = request[q]
    BY <2>1 DEF Started
  <2>3. /\ request'[r].pc = e.pc /\ request'[r].sid = s /\ request'[r].session = e.session
        /\ request'[r].expiresAt = e.expiresAt /\ request'[r].alone
    BY <2>2 DEF Request
  <2>4. InFlightOn(s)' = {r}
    <3>1. ASSUME NEW q \in Requests
          PROVE  q \in InFlightOn(s)' <=> q = r
      <4>1. q \notin InFlightOn(s) /\ e.pc # "idle"
        BY <2>1
      <4>2. CASE q = r
        BY <2>3, <4>1, <4>2, InFlightNext
      <4>3. CASE q # r
        BY <2>2, <4>1, <4>3, InFlightNext
      <4> QED
        BY <4>2, <4>3
    <3> QED
      BY <3>1 DEF InFlightOn
  <2>5. QuietRequest(s, request[r])'
    <3>1. e.pc = "extending" => e.expiresAt = Due(s)'
      BY DEF Due
    <3>2. e.pc \notin SignInPcs \cup {"clearing", "storing", "checking", "refreshing"}
      BY DEF SignInPcs
    <3>3. e.pc \notin (PagePcs \ {"extending"}) \cup {"persisting"}
      BY DEF PagePcs
    <3>4. e.pc \in PagePcs \cup SignInPcs => e.pc = "extending"
      BY DEF PagePcs, SignInPcs
    <3> QED
      BY <2>3, <3>1, <3>2, <3>3, <3>4 DEF QuietRequest, SignInPcs
  <2> QED
    BY <2>1, <2>4, <2>5 DEF SessionQuiet, LifecycleExpiresAt
<1> QED
  BY <1>2, <1>3, QuietBySession

LEMMA RequireAuthKeeps ==
    ASSUME SessionInv, NEW r \in Requests, NEW s \in Sids, RequireAuth(r, s)
    PROVE  SessionInv'
<1> DEFINE session == stored[s]
           inTime == /\ HasValidLifecycleMetadata(session)
                     /\ LifecycleExpiresAt(session) > now
           e == [NoRequest EXCEPT
                   !.pc = IF inTime THEN "extending" ELSE "destroying",
                   !.kind = IF inTime THEN "page" ELSE "timeout",
                   !.sid = s,
                   !.session = IF inTime THEN Renewed(session) ELSE NoSession,
                   !.expiresAt = IF inTime THEN RenewedDeadline(session) ELSE 0]
<1>1. /\ now \in Nat /\ born[s] \in Nat /\ seen \in [Sids -> Nat] /\ session \in Session
      /\ session.account /\ CopyOf(s, session)
  BY DEF SessionInv, LimitsInv, TypeOK, SessionsKnown, RequireAuth
<1>2. Renewed(session) \in Session /\ RenewedDeadline(session) \in Nat
  BY <1>1 DEF Session, Renewed, RenewedDeadline, Earlier
<1>3. e \in Request
  BY <1>2, NoRequestTyped, NoSessionTyped DEF Request, PagePcs, EndPcs, Kinds
<1>4. /\ e.sid = s
      /\ e.pc = IF inTime THEN "extending" ELSE "destroying"
      /\ e.kind = IF inTime THEN "page" ELSE "timeout"
      /\ e.session = IF inTime THEN Renewed(session) ELSE NoSession
      /\ e.expiresAt = IF inTime THEN RenewedDeadline(session) ELSE 0
  BY DEF NoRequest
<1>5. /\ request[r].pc = "idle" /\ phase[s] # "fresh"
      /\ request' = Started(r, s, e)
      /\ seen' = IF inTime THEN [seen EXCEPT ![s] = now] ELSE seen
      /\ disturbed' = DisturbedBy(s)
      /\ UNCHANGED <<now, stored, cache, born, phase>>
  BY DEF RequireAuth
<1>6. session # NoSession
  BY <1>1, NoSessionTyped
<1> HIDE DEF e
<1>7. inTime => seen'[s] = now
  BY <1>1, <1>5
<1>8. e.session.account =>
         e.session.authenticatedAt = born[s] /\ e.session.lastActivityAt <= seen'[s]
  BY <1>1, <1>4, <1>5, <1>7, NoSessionTyped DEF CopyOf, Renewed, Session
<1>9. e.pc = "extending" =>
         e.expiresAt = Earlier(born[s] + Absolute, seen'[s] + Idle)
  BY <1>1, <1>4, <1>7 DEF CopyOf, RenewedDeadline
<1>10. e.pc = "extending" =>
         e.expiresAt <= born[s] + Absolute /\ e.expiresAt <= seen'[s] + Idle
  BY <1>1, <1>4, <1>5, <1>7
     DEF CopyOf, RenewedDeadline, Earlier, Session
<1> QED
  <2>1. /\ \/ e.kind = "page" /\ e.pc = "extending"
           \/ e.kind \in {"signOut", "timeout"} /\ e.pc = "destroying"
        /\ seen' \in {seen, [seen EXCEPT ![s] = now]}
    BY <1>4, <1>5
  <2>2. LimitsInv'
    BY <1>3, <1>4, <1>5, <1>6, <1>8, <1>10, <2>1, StartKeepsLimits DEF SessionInv
  <2>3. e.pc = "extending" =>
           e.session.authenticatedAt = born[s] /\ e.session.lastActivityAt = seen'[s]
    BY <1>1, <1>4, <1>7 DEF CopyOf, Renewed, Session
  <2> QED
    BY <1>1, <1>3, <1>4, <1>5, <1>9, <2>1, <2>2, <2>3, StartKeeps

LEMMA SignOutKeeps ==
    ASSUME SessionInv, NEW r \in Requests, NEW s \in Sids, SignOut(r, s)
    PROVE  SessionInv'
<1> DEFINE e == [NoRequest EXCEPT !.pc = "destroying", !.kind = "signOut", !.sid = s]
<1>1. e \in Request
  BY NoRequestTyped DEF Request, EndPcs, Kinds
<1>2. /\ e.sid = s /\ e.pc = "destroying" /\ e.kind = "signOut" /\ e.session = NoSession
  BY DEF NoRequest
<1>3. /\ request[r].pc = "idle" /\ phase[s] # "fresh" /\ stored[s] # NoSession
      /\ request' = Started(r, s, e)
      /\ disturbed' = DisturbedBy(s)
      /\ UNCHANGED <<now, stored, cache, born, seen, phase>>
  BY DEF SignOut
<1> HIDE DEF e
<1>4. ~e.session.account
  BY <1>2, NoSessionTyped
<1> QED
  <2>1. /\ \/ e.kind = "page" /\ e.pc = "extending"
           \/ e.kind \in {"signOut", "timeout"} /\ e.pc = "destroying"
        /\ seen' \in {seen, [seen EXCEPT ![s] = now]}
        /\ e.pc # "extending"
    BY <1>2, <1>3
  <2>2. LimitsInv'
    BY <1>1, <1>2, <1>3, <1>4, <2>1, StartKeepsLimits DEF SessionInv
  <2> QED
    BY <1>1, <1>2, <1>3, <2>1, <2>2, StartKeeps

---------------------------------------------------------------------------
(* Sessions that go, and the sign-in that takes a fresh one *)

LEMMA DropKeepsLimits ==
    ASSUME LimitsInv, NEW s \in Sids,
           stored' \in {stored, [stored EXCEPT ![s] = NoSession]},
           disturbed' \in SUBSET Sids,
           UNCHANGED <<now, cache, request, born, seen, phase>>
    PROVE  LimitsInv'
<1>1. TypeOK'
  BY NoSessionTyped DEF LimitsInv, TypeOK
<1>2. \A t \in Sids : stored'[t] \in {stored[t], NoSession}
  BY DEF LimitsInv, TypeOK
<1>3. SessionsKnown'
  BY <1>2, NoSessionTyped DEF LimitsInv, SessionsKnown, CopyOf
<1>4. RequestsKnown'
  BY DEF LimitsInv, RequestsKnown, RequestKnown, CopyOf, WithinLimits
<1>5. AloneIsAlone'
  BY <1>2 DEF LimitsInv, AloneIsAlone, InFlightOn, RequestsKnown, RequestKnown
<1>6. EndedIsOver' /\ TokensWithinLimits'
  BY <1>2 DEF LimitsInv, EndedIsOver, TokensWithinLimits, InFlightOn
<1> QED
  BY <1>1, <1>3, <1>4, <1>5, <1>6 DEF LimitsInv

LEMMA StoreDropsKeepsLimits ==
    ASSUME LimitsInv, NEW s \in Sids, StoreDrops(s)
    PROVE  LimitsInv'
  BY DropKeepsLimits DEF StoreDrops, LimitsInv, TypeOK

LEMMA RegenerateSessionKeepsLimits ==
    ASSUME LimitsInv, NEW r \in Requests, NEW s \in Sids, NEW old \in Sids \cup {NoSid},
           RegenerateSession(r, old, s)
    PROVE  LimitsInv'
<1>1. PICK outcome \in Outcomes :
         /\ stored' = IF outcome = "refused" \/ old = NoSid THEN stored
                      ELSE [stored EXCEPT ![old] = NoSession]
         /\ IF outcome = "replied"
            THEN /\ request' = [request EXCEPT ![r] =
                      [NoRequest EXCEPT
                         !.pc = "exchanging", !.kind = "signIn", !.sid = s,
                         !.session.authenticatedAt = now,
                         !.session.lastActivityAt = now,
                         !.expiresAt = now + Idle]]
                 /\ born' = [born EXCEPT ![s] = now]
                 /\ seen' = [seen EXCEPT ![s] = now]
            ELSE UNCHANGED <<request, born, seen>>
  BY DEF RegenerateSession
<1>2. /\ request[r].pc = "idle" /\ born[s] = 0
      /\ disturbed' \in SUBSET Sids
      /\ UNCHANGED <<now, cache, phase>>
      /\ old # NoSid => phase[old] # "fresh"
  BY SidAssumption DEF RegenerateSession, LimitsInv, TypeOK
<1>3. CASE outcome # "replied"
  <2>1. CASE old = NoSid
    BY <1>1, <1>2, <1>3, <2>1, DropKeepsLimits
  <2>2. CASE old # NoSid
    BY <1>1, <1>2, <1>3, <2>2, DropKeepsLimits
  <2> QED
    BY <2>1, <2>2
<1>4. CASE outcome = "replied"
  <2> DEFINE e == [NoRequest EXCEPT
                     !.pc = "exchanging", !.kind = "signIn", !.sid = s,
                     !.session.authenticatedAt = now,
                     !.session.lastActivityAt = now,
                     !.expiresAt = now + Idle]
  <2>1. /\ phase[s] = "fresh" /\ cache[s] = 0 /\ ~stored[s].account
        /\ now \in Nat \ {0} /\ now + Idle \in Nat
        /\ request \in [Requests -> Request] /\ stored \in [Sids -> Session]
        /\ born \in [Sids -> Nat] /\ seen \in [Sids -> Nat] /\ cache \in [Sids -> Nat]
    BY <1>2 DEF LimitsInv, TypeOK, SessionsKnown, CopyOf
  <2>2. /\ e.pc = "exchanging" /\ e.kind = "signIn" /\ e.sid = s
        /\ e.session.authenticatedAt = now /\ e.session.lastActivityAt = now
        /\ ~e.session.account
        /\ e.expiresAt = now + Idle /\ e.alone
        /\ e \in Request
    <3>1. /\ e.pc = "exchanging" /\ e.kind = "signIn" /\ e.sid = s
          /\ e.expiresAt = now + Idle /\ e.alone
      BY DEF NoRequest
    <3>2. /\ e.session.authenticatedAt = now /\ e.session.lastActivityAt = now
          /\ ~e.session.account
      BY DEF NoRequest, NoSession
    <3> DEFINE d == [NoRequest EXCEPT !.session.authenticatedAt = now,
                                     !.session.lastActivityAt = now]
    <3>3. d \in Request
      BY <2>1, NoRequestTyped DEF Request, Session
    <3>4. e = [d EXCEPT !.pc = "exchanging", !.kind = "signIn", !.sid = s,
                        !.expiresAt = now + Idle]
      BY DEF NoRequest
    <3>5. e \in Request
      <4> HIDE DEF d, e
      <4> QED
        BY <2>1, <3>3, <3>4 DEF Request, SignInPcs, Kinds
    <3> QED
      BY <3>1, <3>2, <3>5
  <2>3. /\ request'[r] = e
        /\ \A q \in Requests \ {r} : request'[q] = request[q]
        /\ born'[s] = now /\ seen'[s] = now
        /\ \A t \in Sids \ {s} : born'[t] = born[t] /\ seen'[t] = seen[t]
        /\ \A t \in Sids : stored'[t] \in {stored[t], NoSession}
    BY <1>1, <1>4, <2>1
  <2>4. \A q \in Requests : request[q].pc # "idle" => request[q].sid # s
    BY <1>2 DEF LimitsInv, RequestsKnown, RequestKnown
  <2>5. TypeOK'
    BY <1>1, <1>2, <1>4, <2>1, <2>2, NoSessionTyped DEF LimitsInv, TypeOK
  <2> HIDE DEF e
  <2>6. /\ InFlightOn(s)' = {r}
        /\ \A t \in Sids \ {s} : InFlightOn(t)' = InFlightOn(t)
    BY <1>2, <2>2, <2>3, <2>4 DEF InFlightOn
  <2>7. SessionsKnown'
    BY <1>2, <2>1, <2>3, NoSessionTyped DEF LimitsInv, SessionsKnown, CopyOf
  <2>8. ASSUME NEW q \in Requests
        PROVE  RequestKnown(q)'
    <3>1. CASE q = r
      <4>1. now + Idle <= now + Absolute
        BY <2>1, TimeoutAssumption
      <4> QED
        BY <1>2, <2>1, <2>2, <2>3, <3>1, <4>1 DEF RequestKnown, CopyOf, WithinLimits
    <3>2. CASE q # r
      BY <1>2, <2>3, <2>4, <3>2
         DEF LimitsInv, RequestsKnown, RequestKnown, CopyOf, WithinLimits
    <3> QED
      BY <3>1, <3>2
  <2>9. ASSUME NEW q \in Requests, request'[q].pc # "idle", request'[q].alone
        PROVE  \E t \in Sids :
                  /\ t = request'[q].sid
                  /\ InFlightOn(t)' = {q}
                  /\ request'[q].pc = "clearing" /\ request'[q].ok => stored'[t] = NoSession
    <3>1. CASE q = r
      BY <2>2, <2>3, <2>6, <3>1
    <3>2. CASE q # r
      <4>1. PICK t \in Sids : t = request[q].sid
        BY <2>3, <2>9, <3>2 DEF LimitsInv, RequestsKnown, RequestKnown
      <4> QED
        BY <2>3, <2>4, <2>6, <2>9, <3>2, <4>1 DEF LimitsInv, AloneIsAlone
    <3> QED
      BY <3>1, <3>2
  <2>10. AloneIsAlone'
    BY <2>9 DEF AloneIsAlone, InFlightOn
  <2>11. EndedIsOver'
    BY <1>2, <2>1, <2>3, <2>6 DEF LimitsInv, EndedIsOver
  <2>12. TokensWithinLimits'
    BY <1>2, <2>1, <2>3 DEF LimitsInv, TokensWithinLimits
  <2> QED
    BY <2>5, <2>7, <2>8, <2>10, <2>11, <2>12 DEF LimitsInv, RequestsKnown
<1> QED
  BY <1>3, <1>4

LEMMA TickKeepsLimits ==
    ASSUME LimitsInv, Tick
    PROVE  LimitsInv'
<1>1. /\ now \in Nat \ {0} /\ now' = now + 1
      /\ cache \in [Sids -> Nat] /\ seen \in [Sids -> Nat]
      /\ cache' \in [Sids -> Nat]
      /\ \A s \in Sids : cache'[s] \in {0, cache[s]}
      /\ UNCHANGED <<stored, request, born, seen, disturbed, phase>>
  BY DEF LimitsInv, TypeOK, Tick
<1>2. TypeOK'
  BY <1>1 DEF LimitsInv, TypeOK
<1>3. SessionsKnown'
  BY <1>1 DEF LimitsInv, SessionsKnown, CopyOf
<1>4. RequestsKnown'
  BY <1>1 DEF LimitsInv, RequestsKnown, RequestKnown, CopyOf, WithinLimits
<1>5. AloneIsAlone' /\ EndedIsOver' /\ TokensWithinLimits'
  BY <1>1 DEF LimitsInv, AloneIsAlone, EndedIsOver, TokensWithinLimits, InFlightOn
<1> QED
  BY <1>2, <1>3, <1>4, <1>5 DEF LimitsInv

---------------------------------------------------------------------------
(* The same steps, and the sessions that are quiet *)

LEMMA StoreDropsKeeps ==
    ASSUME SessionInv, NEW s \in Sids, StoreDrops(s)
    PROVE  SessionInv'
<1>1. /\ LimitsInv' /\ stored \in [Sids -> Session] /\ now \in Nat
      /\ UNCHANGED <<now, cache, request, born, seen, disturbed>>
      /\ stored' = [stored EXCEPT ![s] = NoSession]
      /\ LifecycleExpiresAt(stored[s]) <= now
  BY StoreDropsKeepsLimits DEF StoreDrops, SessionInv, LimitsInv, TypeOK
<1>2. \A t \in Sids : InFlightOn(t)' = InFlightOn(t)
  BY <1>1 DEF InFlightOn
<1>3. ASSUME NEW t \in Sids \ disturbed', t # s
      PROVE  SessionQuiet(t)'
  BY <1>1, <1>2, <1>3, QuietBySession, QuietElsewhere
<1>4. ASSUME s \notin disturbed'
      PROVE  SessionQuiet(s)'
  <2>1. SessionQuiet(s) /\ stored'[s] = NoSession /\ Due(s)' = Due(s)
    BY <1>1, <1>4, QuietBySession DEF Due
  <2>2. ~(LifecycleExpiresAt(NoSession) > now)
    BY <1>1 DEF LifecycleExpiresAt, Earlier, NoSession, Session
  <2>4. LifecycleExpiresAt(stored[s])' = LifecycleExpiresAt(NoSession)
    BY <2>1 DEF LifecycleExpiresAt
  <2>3. ASSUME NEW r \in InFlightOn(s)
        PROVE  QuietRequest(s, request[r])'
    BY <1>1, <2>1, <2>2, <2>3, <2>4, NoSessionTyped DEF SessionQuiet, QuietRequest
  <2> QED
    BY <1>1, <1>2, <2>1, <2>3, NoSessionTyped DEF SessionQuiet
<1> QED
  BY <1>1, <1>3, <1>4, QuietBySession

LEMMA RegenerateSessionKeeps ==
    ASSUME SessionInv, NEW r \in Requests, NEW s \in Sids, NEW old \in Sids \cup {NoSid},
           RegenerateSession(r, old, s)
    PROVE  SessionInv'
<1>1. LimitsInv /\ LimitsInv'
  BY RegenerateSessionKeepsLimits DEF SessionInv
<1>2. /\ request[r].pc = "idle" /\ born[s] = 0
      /\ stored' \in {stored, [stored EXCEPT ![old] = NoSession]}
      /\ disturbed \subseteq disturbed' /\ old \notin Sids \ disturbed'
      /\ UNCHANGED <<now, cache, phase>>
  BY DEF RegenerateSession
<1>3. /\ request \in [Requests -> Request] /\ stored \in [Sids -> Session]
      /\ born \in [Sids -> Nat] /\ seen \in [Sids -> Nat] /\ now \in Nat
      /\ phase[s] = "fresh" /\ ~stored[s].account
      /\ \A q \in Requests : request[q].pc # "idle" => request[q].sid # s
  BY <1>1, <1>2
     DEF LimitsInv, TypeOK, SessionsKnown, CopyOf, RequestsKnown, RequestKnown
<1>4. \/ UNCHANGED <<request, born, seen>>
      \/ /\ request' = [request EXCEPT ![r] =
                [NoRequest EXCEPT
                   !.pc = "exchanging", !.kind = "signIn", !.sid = s,
                   !.session.authenticatedAt = now,
                   !.session.lastActivityAt = now,
                   !.expiresAt = now + Idle]]
         /\ born' = [born EXCEPT ![s] = now]
         /\ seen' = [seen EXCEPT ![s] = now]
         /\ old # NoSid => phase[old] # "fresh"
  BY SidAssumption DEF RegenerateSession
<1>5. \A t \in Sids \ disturbed' : stored'[t] = stored[t]
  BY <1>2, <1>3
<1>6. CASE UNCHANGED <<request, born, seen>>
  <2>1. ASSUME NEW t \in Sids \ disturbed'
        PROVE  SessionQuiet(t)'
    <3>1. InFlightOn(t)' = InFlightOn(t) /\ SessionQuiet(t)
      BY <1>2, <1>6, <2>1, QuietBySession DEF InFlightOn
    <3> QED
      BY <1>2, <1>5, <1>6, <2>1, <3>1, QuietElsewhere
  <2> QED
    BY <1>1, <2>1, QuietBySession
<1>7. CASE ~ UNCHANGED <<request, born, seen>>
  <2> DEFINE e == [NoRequest EXCEPT
                     !.pc = "exchanging", !.kind = "signIn", !.sid = s,
                     !.session.authenticatedAt = now,
                     !.session.lastActivityAt = now,
                     !.expiresAt = now + Idle]
  <2>1. /\ e.pc = "exchanging" /\ e.sid = s /\ e.expiresAt = now + Idle /\ e.alone
        /\ e.session.authenticatedAt = now /\ e.session.lastActivityAt = now
    BY DEF NoRequest, NoSession
  <2>2. request' = [request EXCEPT ![r] = e]
    BY <1>4, <1>7
  <2> HIDE DEF e
  <2>3. /\ request'[r] = e /\ \A q \in Requests \ {r} : request'[q] = request[q]
        /\ born'[s] = now /\ seen'[s] = now
        /\ \A t \in Sids \ {s} : born'[t] = born[t] /\ seen'[t] = seen[t]
    BY <1>3, <1>4, <1>7, <2>2
  <2>4. /\ InFlightOn(s)' = {r}
        /\ \A t \in Sids \ {s} : InFlightOn(t)' = InFlightOn(t) /\ r \notin InFlightOn(t)
    BY <1>2, <1>3, <2>1, <2>3 DEF InFlightOn
  <2>5. ASSUME NEW t \in Sids \ disturbed', t # s
        PROVE  SessionQuiet(t)'
    <3>1. SessionQuiet(t) /\ \A q \in InFlightOn(t) : request'[q] = request[q]
      BY <1>2, <2>3, <2>4, <2>5, QuietBySession DEF InFlightOn
    <3> QED
      BY <1>2, <1>5, <2>3, <2>4, <2>5, <3>1, QuietElsewhere
  <2>6. ASSUME s \notin disturbed'
        PROVE  SessionQuiet(s)'
    <3>1. stored'[s] = stored[s]
      BY <1>5, <2>6
    <3>2. Due(s)' = now + Idle
      BY <1>3, <2>3, TimeoutAssumption DEF Due, Earlier
    <3>3. QuietRequest(s, request[r])'
      BY <1>3, <2>1, <2>3, <3>1, <3>2 DEF QuietRequest, PagePcs, SignInPcs
    <3> QED
      BY <1>3, <2>4, <3>1, <3>3 DEF SessionQuiet
  <2> QED
    BY <1>1, <2>5, <2>6, QuietBySession
<1> QED
  BY <1>6, <1>7

LEMMA TickKeeps ==
    ASSUME SessionInv, Tick
    PROVE  SessionInv'
<1>1. /\ LimitsInv' /\ now \in Nat /\ now' = now + 1 /\ cache \in [Sids -> Nat]
      /\ born \in [Sids -> Nat] /\ seen \in [Sids -> Nat] /\ stored \in [Sids -> Session]
      /\ \A s \in Sids : cache'[s] = IF cache[s] > now + 1 THEN cache[s] ELSE 0
      /\ UNCHANGED <<stored, request, born, seen, disturbed, phase>>
  BY TickKeepsLimits DEF SessionInv, LimitsInv, TypeOK, Tick
<1>2. ASSUME NEW s \in Sids \ disturbed'
      PROVE  SessionQuiet(s)'
  <2>1. /\ SessionQuiet(s) /\ InFlightOn(s)' = InFlightOn(s) /\ Due(s)' = Due(s)
        /\ LifecycleExpiresAt(stored[s])' = LifecycleExpiresAt(stored[s])
    BY <1>1, <1>2, QuietBySession DEF InFlightOn, Due, LifecycleExpiresAt
  <2>2. Due(s) \in Nat /\ LifecycleExpiresAt(stored[s]) \in Nat
    BY <1>1, <1>2 DEF Due, LifecycleExpiresAt, Earlier, Session
  <2>3. \A t \in Nat : t > now' /\ cache[s] >= t => t > now /\ cache'[s] >= t
    BY <1>1, <1>2
  <2>4. \A t \in Nat : t > now' => t > now
    BY <1>1
  <2>5. ASSUME NEW r \in InFlightOn(s)
        PROVE  QuietRequest(s, request[r])'
    BY <1>1, <2>1, <2>2, <2>3, <2>4, <2>5 DEF SessionQuiet, QuietRequest
  <2> QED
    BY <1>1, <2>1, <2>2, <2>3, <2>4, <2>5 DEF SessionQuiet
<1> QED
  BY <1>1, <1>2, QuietBySession

---------------------------------------------------------------------------
(* The theorems *)

LEMMA InitEstablishes == Init => SessionInv
<1> SUFFICES ASSUME Init PROVE SessionInv
  OBVIOUS
<1>1. TypeOK
  BY NoRequestTyped, NoSessionTyped DEF Init, TypeOK, Phases
<1>2. SessionsKnown
  <2>1. ASSUME NEW s \in Sids
        PROVE  /\ born[s] = 0 /\ seen[s] = 0 /\ now = 1 /\ cache[s] = 0
               /\ phase[s] = "fresh" /\ stored[s] = NoSession
    BY DEF Init
  <2>2. ASSUME NEW s \in Sids
        PROVE  CopyOf(s, stored[s])
    BY <2>1, NoSessionTyped DEF CopyOf
  <2>3. ASSUME NEW s \in Sids
        PROVE  born[s] <= seen[s] /\ seen[s] <= now
    BY <2>1
  <2>4. ASSUME NEW s \in Sids
        PROVE  phase[s] = "fresh" /\ cache[s] = 0
    BY <2>1
  <2> QED
    BY <2>2, <2>3, <2>4 DEF SessionsKnown
<1>3. \A r \in Requests : request[r] = NoRequest /\ request[r].pc = "idle"
  BY DEF Init, NoRequest
<1>4. RequestsKnown /\ AloneIsAlone
  BY <1>3 DEF RequestsKnown, RequestKnown, AloneIsAlone
<1>5. EndedIsOver /\ TokensWithinLimits
  BY DEF Init, EndedIsOver, TokensWithinLimits
<1>6. QuietSessionsKept /\ TokensOutliveSession
  <2>1. \A s \in Sids : ~stored[s].account /\ InFlightOn(s) = {}
    BY <1>3, NoSessionTyped DEF Init, InFlightOn
  <2> QED
    BY <2>1 DEF QuietSessionsKept, TokensOutliveSession
<1> QED
  BY <1>1, <1>2, <1>4, <1>5, <1>6 DEF SessionInv, LimitsInv

LEMMA NextKeepsSessions == SessionInv /\ [Next]_vars => SessionInv'
<1> SUFFICES ASSUME SessionInv, [Next]_vars PROVE SessionInv'
  OBVIOUS
<1>1. CASE UNCHANGED vars
  <2>1. LimitsInv'
    BY <1>1 DEF vars, SessionInv, LimitsInv, TypeOK, SessionsKnown, RequestsKnown, RequestKnown,
                CopyOf, WithinLimits, AloneIsAlone, EndedIsOver, TokensWithinLimits,
                InFlightOn
  <2>2. ASSUME NEW s \in Sids \ disturbed'
        PROVE  SessionQuiet(s)'
    BY <1>1, <2>2, QuietBySession, QuietElsewhere DEF vars, InFlightOn
  <2> QED
    BY <2>1, <2>2, QuietBySession
<1>2. ASSUME NEW r \in Requests, NEW s \in Sids, RequireAuth(r, s) \/ SignOut(r, s)
      PROVE  SessionInv'
  BY <1>2, RequireAuthKeeps, SignOutKeeps
<1>3. ASSUME NEW r \in Requests, NEW s \in Sids, NEW old \in Sids \cup {NoSid},
             RegenerateSession(r, old, s)
      PROVE  SessionInv'
  BY <1>3, RegenerateSessionKeeps
<1>4. ASSUME NEW r \in Requests, Step(r)
      PROVE  SessionInv'
  BY <1>4, ExtendCacheKeeps, AcceptTokenKeeps, StartRefreshKeeps, RefreshKeeps,
     ThrowsKeeps, AcquireDownstreamTokenKeeps, ReadCacheExpiryKeeps, StoreCacheKeeps,
     SaveSessionKeeps, DestroySessionKeeps, DeleteMsalCacheKeeps, ExchangeFailsKeeps,
     ExchangeAuthCodeKeeps, PersistAuthenticatedSessionKeeps, DiesKeeps
     DEF Step
<1>5. ASSUME NEW s \in Sids, StoreDrops(s)
      PROVE  SessionInv'
  BY <1>5, StoreDropsKeeps
<1> QED
  BY <1>1, <1>2, <1>3, <1>4, <1>5, TickKeeps DEF Next

---------------------------------------------------------------------------
(* Caches and failures *)

\* Every step but the clock's puts each cache where it was, away, or ahead of
\* the clock.
LEMMA CacheSteps ==
    ASSUME SessionInv, Next, ~Tick
    PROVE  /\ now' = now
           /\ \A s \in Sids : cache'[s] \in {0, cache[s]} \/ cache'[s] > now
<1>1. /\ cache \in [Sids -> Nat] /\ request \in [Requests -> Request] /\ now \in Nat
  BY DEF SessionInv, LimitsInv, TypeOK
<1>2. CASE \/ \E r \in Requests, s \in Sids : RequireAuth(r, s) \/ SignOut(r, s)
           \/ \E r \in Requests, s \in Sids, old \in Sids \cup {NoSid} :
                 RegenerateSession(r, old, s)
           \/ \E s \in Sids : StoreDrops(s)
  BY <1>2 DEF RequireAuth, SignOut, RegenerateSession, StoreDrops
<1>3. ASSUME NEW r \in Requests, ExtendCache(r) \/ StartRefresh(r)
      PROVE  /\ now' = now
             /\ \/ cache' = cache
                \/ cache' = CacheExtended(request[r].sid, request[r].expiresAt)
  BY <1>3 DEF ExtendCache, StartRefresh
<1>4. ASSUME NEW r \in Requests,
             Refresh(r) \/ StoreCache(r) \/ ExchangeFails(r) \/ ExchangeAuthCode(r)
      PROVE  /\ now' = now
             /\ \/ cache' = cache
                \/ cache' = CacheStored(request[r].sid, request[r].expiresAt)
  BY <1>4 DEF Refresh, StoreCache, ExchangeFails, ExchangeAuthCode
<1>5. ASSUME NEW r \in Requests,
             \/ AcceptToken(r) \/ Throws(r) \/ AcquireDownstreamToken(r)
             \/ ReadCacheExpiry(r) \/ SaveSession(r) \/ DestroySession(r)
             \/ DeleteMsalCache(r) \/ PersistAuthenticatedSession(r) \/ Dies(r)
      PROVE  /\ now' = now
             /\ cache' = cache \/ cache' = CacheDeleted(request[r].sid)
  BY <1>5 DEF AcceptToken, Throws, AcquireDownstreamToken, ReadCacheExpiry, SaveSession,
     DestroySession, DeleteMsalCache, PersistAuthenticatedSession, Dies
<1>6. ASSUME NEW r \in Requests, Step(r)
      PROVE  /\ now' = now
             /\ \A s \in Sids : cache'[s] \in {0, cache[s]} \/ cache'[s] > now
  BY <1>1, <1>3, <1>4, <1>5, <1>6
     DEF Step, CacheExtended, CacheStored, CacheDeleted, Until
<1> QED
  BY <1>2, <1>6 DEF Next

LEMMA CachesLiveKept ==
    ASSUME SessionInv, CachesLive, [Next]_vars
    PROVE  CachesLive'
<1>1. CASE Tick
  BY <1>1 DEF Tick, CachesLive, SessionInv, LimitsInv, TypeOK
<1>2. CASE Next /\ ~Tick
  BY <1>2, CacheSteps DEF CachesLive
<1> QED
  BY <1>1, <1>2 DEF CachesLive, vars

\* A session that was disturbed stays so.
LEMMA DisturbedGrows ==
    ASSUME SessionInv, Next
    PROVE  \E S \in SUBSET Sids : disturbed' = disturbed \cup S
<1>1. disturbed = disturbed \cup {}
  OBVIOUS
<1>2. ASSUME NEW r \in Requests, NEW s \in Sids, RequireAuth(r, s) \/ SignOut(r, s)
      PROVE  \E S \in SUBSET Sids : disturbed' = disturbed \cup S
  <2>1. disturbed' \in {disturbed, disturbed \cup {s}}
    BY <1>2 DEF RequireAuth, SignOut, DisturbedBy
  <2> QED
    BY <1>1, <2>1
<1>3. ASSUME NEW r \in Requests, NEW s \in Sids, NEW old \in Sids \cup {NoSid},
             RegenerateSession(r, old, s)
      PROVE  \E S \in SUBSET Sids : disturbed' = disturbed \cup S
  <2>1. disturbed' = disturbed \/ (old \in Sids /\ disturbed' = disturbed \cup {old})
    BY <1>3 DEF RegenerateSession
  <2> QED
    BY <1>1, <2>1
<1>4. ASSUME NEW r \in Requests, Step(r)
      PROVE  \E S \in SUBSET Sids : disturbed' = disturbed \cup S
  <2>1. disturbed' = disturbed \/ disturbed' = disturbed \cup {request[r].sid}
    BY <1>4 DEF Step, ExtendCache, AcceptToken, StartRefresh, Refresh, Throws,
       AcquireDownstreamToken, ReadCacheExpiry, StoreCache, SaveSession, DestroySession,
       DeleteMsalCache, ExchangeFails, ExchangeAuthCode, PersistAuthenticatedSession,
       Dies, Undisturbed, Disturb
  <2>2. request[r].pc # "idle"
    BY <1>4 DEF Step, ExtendCache, AcceptToken, StartRefresh, Refresh, Throws,
       AcquireDownstreamToken, ReadCacheExpiry, StoreCache, SaveSession, DestroySession,
       DeleteMsalCache, ExchangeFails, ExchangeAuthCode, PersistAuthenticatedSession, Dies
  <2>3. request[r].sid \in Sids
    BY <2>2, RequestFacts DEF SessionInv
  <2> QED
    BY <1>1, <2>1, <2>3
<1> QED
  BY <1>1, <1>2, <1>3, <1>4 DEF Next, StoreDrops, Tick

\* A step of a request that is in flight is about its own entry.
LEMMA StepsMove ==
    ASSUME SessionInv, NEW r \in Requests, Step(r)
    PROVE  /\ request[r].pc # "idle"
           /\ \E e : request' = [request EXCEPT ![r] = e]
<1>1. request \in [Requests -> Request] /\ request[r].pc # "idle"
  BY DEF SessionInv, LimitsInv, TypeOK, Step, ExtendCache, AcceptToken, StartRefresh, Refresh, Throws,
     AcquireDownstreamToken, ReadCacheExpiry, StoreCache, SaveSession, DestroySession,
     DeleteMsalCache, ExchangeFails, ExchangeAuthCode, PersistAuthenticatedSession, Dies
<1>2. \E e : request' = [request EXCEPT ![r] = e]
  <2>1. CASE ExtendCache(r) \/ AcceptToken(r) \/ StartRefresh(r) \/ Refresh(r) \/ Throws(r)
    BY <1>1, <2>1 DEF Goto, ExtendCache, AcceptToken, StartRefresh, Refresh, Throws
  <2>2. CASE \/ AcquireDownstreamToken(r) \/ ReadCacheExpiry(r) \/ StoreCache(r)
             \/ SaveSession(r) \/ Dies(r)
    BY <1>1, <2>2 DEF Goto, Done, AcquireDownstreamToken, ReadCacheExpiry, StoreCache,
       SaveSession, Dies
  <2>3. CASE \/ DestroySession(r) \/ DeleteMsalCache(r)
             \/ ExchangeFails(r) \/ ExchangeAuthCode(r) \/ PersistAuthenticatedSession(r)
    BY <1>1, <2>3 DEF Goto, Done, DestroySession, DeleteMsalCache, ExchangeFails,
       ExchangeAuthCode, PersistAuthenticatedSession
  <2> QED
    BY <2>1, <2>2, <2>3 DEF Step
<1> QED
  BY <1>1, <1>2

LEMMA StepsStartNobody ==
    ASSUME SessionInv, NEW r \in Requests, Step(r), NEW q \in Requests,
           request[q].pc = "idle"
    PROVE  request'[q] = request[q]
  BY StepsMove DEF SessionInv, LimitsInv, TypeOK

\* A request stays in its session; if a call of its ending fails, it says so.
LEMMA StepsBlame ==
    ASSUME SessionInv, NEW r \in Requests, Step(r), NEW q \in Requests,
           request[q].pc # "idle", request'[q].pc # "idle"
    PROVE  /\ request'[q].sid = request[q].sid
           /\ request'[q].ok = request[q].ok \/ request'[q].sid \in disturbed'
<1>1. request \in [Requests -> Request] /\ NoRequest.pc = "idle"
  BY DEF SessionInv, LimitsInv, TypeOK, NoRequest
<1>2. CASE q # r
  BY <1>1, <1>2, StepsMove
<1>3. CASE q = r
  <2>1. CASE ExtendCache(r) \/ AcceptToken(r) \/ StartRefresh(r) \/ Refresh(r) \/ Throws(r)
    BY <1>1, <1>3, <2>1
       DEF Request, Session, Goto, ExtendCache, AcceptToken, StartRefresh, Refresh, Throws
  <2>2. CASE \/ AcquireDownstreamToken(r) \/ ReadCacheExpiry(r) \/ StoreCache(r)
             \/ SaveSession(r) \/ Dies(r) \/ DeleteMsalCache(r) \/ ExchangeFails(r)
    BY <1>1, <1>3, <2>2
       DEF Request, Goto, Done, AcquireDownstreamToken, ReadCacheExpiry, StoreCache,
           SaveSession, Dies, DeleteMsalCache, ExchangeFails
  <2>3. CASE ExchangeAuthCode(r) \/ PersistAuthenticatedSession(r)
    BY <1>1, <1>3, <2>3
       DEF Request, Session, Goto, Done, ExchangeAuthCode, PersistAuthenticatedSession
  <2>4. CASE DestroySession(r)
    BY <1>1, <1>3, <2>4 DEF Request, Goto, Done, Disturb, DestroySession
  <2> QED
    BY <1>3, <2>1, <2>2, <2>3, <2>4 DEF Step
<1> QED
  BY <1>2, <1>3

LEMMA FailuresDisturbKept ==
    ASSUME SessionInv, FailuresDisturb, [Next]_vars
    PROVE  FailuresDisturb'
<1> SUFFICES ASSUME NEW q \in Requests, request'[q].pc # "idle", ~request'[q].ok
             PROVE  request'[q].sid \in disturbed'
  BY DEF FailuresDisturb
<1>1. request \in [Requests -> Request]
  BY DEF SessionInv, LimitsInv, TypeOK
<1>2. disturbed \subseteq disturbed'
  BY DisturbedGrows DEF vars
<1>3. CASE request'[q].ok = request[q].ok /\ request'[q].sid = request[q].sid
           /\ request[q].pc # "idle"
  BY <1>2, <1>3 DEF FailuresDisturb
<1>4. ASSUME NEW r \in Requests, NEW s \in Sids, NEW e \in Request, e.ok,
             request' = Started(r, s, e)
      PROVE  request'[q].sid \in disturbed'
  <2>1. CASE q = r
    BY <1>4, <2>1 DEF Started, Request
  <2>2. CASE q # r
    <3>1. request'[q] \in {request[q], [request[q] EXCEPT !.alone = FALSE]}
      BY <1>4, <2>2 DEF Started
    <3> QED
      BY <1>1, <1>3, <3>1 DEF Request
  <2> QED
    BY <2>1, <2>2
<1>5. ASSUME NEW r \in Requests, NEW s \in Sids, RequireAuth(r, s)
      PROVE  request'[q].sid \in disturbed'
  <2> DEFINE inTime == /\ HasValidLifecycleMetadata(stored[s])
                       /\ LifecycleExpiresAt(stored[s]) > now
             e == [NoRequest EXCEPT
                     !.pc = IF inTime THEN "extending" ELSE "destroying",
                     !.kind = IF inTime THEN "page" ELSE "timeout",
                     !.sid = s,
                     !.session = IF inTime THEN Renewed(stored[s]) ELSE NoSession,
                     !.expiresAt = IF inTime THEN RenewedDeadline(stored[s]) ELSE 0]
  <2>1. /\ now \in Nat /\ stored[s] \in Session
    BY DEF SessionInv, LimitsInv, TypeOK
  <2>2. Renewed(stored[s]) \in Session /\ RenewedDeadline(stored[s]) \in Nat
    BY <2>1 DEF Session, Renewed, RenewedDeadline, Earlier
  <2>3. e \in Request /\ e.ok
    BY <2>2, NoRequestTyped, NoSessionTyped DEF Request, NoRequest, PagePcs, EndPcs, Kinds
  <2>4. request' = Started(r, s, e)
    BY <1>5 DEF RequireAuth
  <2> QED
    BY <1>4, <2>3, <2>4
<1>6. ASSUME NEW r \in Requests, NEW s \in Sids, SignOut(r, s)
      PROVE  request'[q].sid \in disturbed'
  <2> DEFINE e == [NoRequest EXCEPT !.pc = "destroying", !.kind = "signOut", !.sid = s]
  <2>1. e \in Request /\ e.ok
    BY NoRequestTyped DEF Request, NoRequest, EndPcs, Kinds
  <2>2. request' = Started(r, s, e)
    BY <1>6 DEF SignOut
  <2> QED
    BY <1>4, <2>1, <2>2
<1>7. ASSUME NEW r \in Requests, NEW s \in Sids, NEW old \in Sids \cup {NoSid},
             RegenerateSession(r, old, s)
      PROVE  request'[q].sid \in disturbed'
  <2> DEFINE e == [NoRequest EXCEPT
                     !.pc = "exchanging", !.kind = "signIn", !.sid = s,
                     !.session.authenticatedAt = now,
                     !.session.lastActivityAt = now,
                     !.expiresAt = now + Idle]
  <2>1. e.ok
    BY DEF NoRequest
  <2>2. request' = request \/ request' = [request EXCEPT ![r] = e]
    BY <1>7 DEF RegenerateSession
  <2> HIDE DEF e
  <2> QED
    BY <1>1, <1>3, <2>1, <2>2
<1>8. ASSUME NEW r \in Requests, Step(r)
      PROVE  request'[q].sid \in disturbed'
  <2>1. CASE request[q].pc = "idle"
    BY <1>3, <1>8, <2>1, StepsStartNobody
  <2>2. CASE request[q].pc # "idle"
    BY <1>2, <1>3, <1>8, <2>2, StepsBlame
  <2> QED
    BY <2>1, <2>2
<1> QED
  BY <1>3, <1>5, <1>6, <1>7, <1>8 DEF Next, StoreDrops, Tick, vars

LEMMA InitHolds == Init => IInv
<1> SUFFICES ASSUME Init PROVE IInv
  OBVIOUS
<1>1. CachesLive /\ FailuresDisturb
  BY DEF Init, CachesLive, FailuresDisturb, NoRequest
<1> QED
  BY <1>1, InitEstablishes DEF IInv

LEMMA NextKeeps == IInv /\ [Next]_vars => IInv'
  BY NextKeepsSessions, CachesLiveKept, FailuresDisturbKept DEF IInv

\* The invariant holds of every behaviour of requireAuth, sign-out and the
\* callback, however their requests overlap and whichever of their calls fail.
THEOREM Invariance == Spec => []IInv
  BY InitHolds, NextKeeps, PTL DEF Spec

\* No token cache is kept beyond the limits of its session's lifetime.
THEOREM CacheBounded == Spec => []TokensWithinLimits
<1>1. IInv => TokensWithinLimits
  BY DEF IInv, SessionInv, LimitsInv
<1> QED
  BY <1>1, Invariance, PTL

\* A session ended while no other request of it was in flight, by sign-out, by
\* timeout or after a failed sign-in, is never found again, nor are its tokens.
THEOREM EndIsFinal == Spec => []EndedStaysEnded
<1>1. IInv => EndedStaysEnded
  BY NoSessionTyped DEF IInv, SessionInv, LimitsInv, EndedIsOver, EndedStaysEnded
<1> QED
  BY <1>1, Invariance, PTL

\* A session whose requests have not overlapped and whose steps have not failed
\* has its tokens for as long as it lasts.
THEOREM TokensLastOut == Spec => []TokensOutliveSession
<1>1. IInv => TokensOutliveSession
  BY DEF IInv, SessionInv
<1> QED
  BY <1>1, Invariance, PTL

\* Only RequireAuth lets a request in, or finds that its session has timed out.
LEMMA RequireAuthDecides ==
    ASSUME SessionInv, [Next]_vars, NEW q \in Requests, request[q].pc = "idle",
           request'[q].pc = "extending" \/ request'[q].kind = "timeout"
    PROVE  \E s \in Sids : RequireAuth(q, s)
<1>1. request \in [Requests -> Request] /\ request[q] = NoRequest
  BY DEF SessionInv, LimitsInv, TypeOK, RequestsKnown, RequestKnown
<1>2. request'[q] # request[q]
  BY <1>1 DEF NoRequest
<1>3. ASSUME NEW r \in Requests, NEW s \in Sids, NEW e, request' = Started(r, s, e)
      PROVE  q = r
  BY <1>2, <1>3 DEF Started, InFlightOn
<1>4. ASSUME NEW r \in Requests, NEW s \in Sids, RequireAuth(r, s)
      PROVE  q = r
  <2>1. \E e : request' = Started(r, s, e)
    BY <1>4 DEF RequireAuth
  <2> QED
    BY <1>3, <2>1
<1>5. ASSUME NEW r \in Requests, NEW s \in Sids, SignOut(r, s)
      PROVE  FALSE
  <2> DEFINE e == [NoRequest EXCEPT !.pc = "destroying", !.kind = "signOut", !.sid = s]
  <2>1. e.pc = "destroying" /\ e.kind = "signOut" /\ request' = Started(r, s, e)
    BY <1>5 DEF NoRequest, SignOut
  <2>2. e \in Request
    BY NoRequestTyped DEF Request, EndPcs, Kinds
  <2> HIDE DEF e
  <2>3. request'[q] = [e EXCEPT !.alone = InFlightOn(s) = {}]
    BY <1>2, <2>1 DEF Started, InFlightOn
  <2>4. request'[q].pc = "destroying" /\ request'[q].kind = "signOut"
    BY <2>1, <2>2, <2>3 DEF Request
  <2> QED
    BY <2>3, <2>4
<1>6. ASSUME NEW r \in Requests, NEW s \in Sids, NEW old \in Sids \cup {NoSid},
             RegenerateSession(r, old, s)
      PROVE  FALSE
  <2> DEFINE e == [NoRequest EXCEPT
                     !.pc = "exchanging", !.kind = "signIn", !.sid = s,
                     !.session.authenticatedAt = now,
                     !.session.lastActivityAt = now,
                     !.expiresAt = now + Idle]
  <2>1. e.pc = "exchanging" /\ e.kind = "signIn"
    BY DEF NoRequest
  <2>2. request' = [request EXCEPT ![r] = e]
    BY <1>2, <1>6 DEF RegenerateSession
  <2> HIDE DEF e
  <2> QED
    BY <1>1, <1>2, <2>1, <2>2
<1>7. ASSUME NEW r \in Requests, Step(r)
      PROVE  FALSE
  BY <1>2, <1>7, StepsStartNobody
<1>8. CASE (\E s \in Sids : StoreDrops(s)) \/ Tick \/ UNCHANGED vars
  BY <1>2, <1>8 DEF StoreDrops, Tick, vars
<1> QED
  BY <1>4, <1>5, <1>6, <1>7, <1>8 DEF Next

\* What RequireAuth makes of the session it finds.
LEMMA RequireAuthOutcome ==
    ASSUME SessionInv, NEW r \in Requests, NEW s \in Sids, RequireAuth(r, s)
    PROVE  LET inTime == /\ HasValidLifecycleMetadata(stored[s])
                         /\ LifecycleExpiresAt(stored[s]) > now
           IN  /\ request'[r].sid = s
               /\ request'[r].pc = IF inTime THEN "extending" ELSE "destroying"
               /\ request'[r].kind = IF inTime THEN "page" ELSE "timeout"
               /\ stored[s].account
               /\ disturbed' = DisturbedBy(s)
<1> DEFINE session == stored[s]
           inTime == /\ HasValidLifecycleMetadata(session)
                     /\ LifecycleExpiresAt(session) > now
           e == [NoRequest EXCEPT
                   !.pc = IF inTime THEN "extending" ELSE "destroying",
                   !.kind = IF inTime THEN "page" ELSE "timeout",
                   !.sid = s,
                   !.session = IF inTime THEN Renewed(session) ELSE NoSession,
                   !.expiresAt = IF inTime THEN RenewedDeadline(session) ELSE 0]
<1>1. /\ e.sid = s
      /\ e.pc = IF inTime THEN "extending" ELSE "destroying"
      /\ e.kind = IF inTime THEN "page" ELSE "timeout"
  BY DEF NoRequest
<1>2. request' = Started(r, s, e) /\ session.account /\ disturbed' = DisturbedBy(s)
  BY DEF RequireAuth
<1>3. DOMAIN e = DOMAIN NoRequest
  OBVIOUS
<1> HIDE DEF e, inTime
<1>4. request'[r] = [e EXCEPT !.alone = InFlightOn(s) = {}]
  BY <1>2 DEF Started
<1>5. request'[r].pc = e.pc /\ request'[r].kind = e.kind /\ request'[r].sid = e.sid
  BY <1>3, <1>4 DEF NoRequest
<1> QED
  BY <1>1, <1>2, <1>5 DEF inTime

\* A request is let in only while its session is within both timeouts, counted
\* from the sign-in and from the last request that was let in.
THEOREM TimeoutsEnforced == Spec => LetInOnlyInTime
<1>1. ASSUME SessionInv, [Next]_vars
      PROVE  LetInInTime
  <2> SUFFICES ASSUME NEW q \in Requests, request[q].pc = "idle",
                      request'[q].pc = "extending"
               PROVE  \E s \in Sids :
                         /\ s = request'[q].sid
                         /\ now < born[s] + Absolute
                         /\ now < seen[s] + Idle
    BY DEF LetInInTime
  <2>1. PICK s \in Sids : RequireAuth(q, s)
    BY <1>1, RequireAuthDecides
  <2>2. s = request'[q].sid /\ stored[s].account /\ LifecycleExpiresAt(stored[s]) > now
    BY <1>1, <2>1, RequireAuthOutcome
  <2>3. /\ now \in Nat /\ born[s] \in Nat /\ seen[s] \in Nat /\ stored[s] \in Session
        /\ CopyOf(s, stored[s])
    BY <1>1 DEF SessionInv, LimitsInv, TypeOK, SessionsKnown
  <2> QED
    BY <2>2, <2>3 DEF CopyOf, Session, LifecycleExpiresAt, Earlier
<1> QED
  BY <1>1, Invariance, PTL DEF Spec, IInv, LetInOnlyInTime

\* The other way round: requireAuth finds that an undisturbed session has timed
\* out only if one of the timeouts has passed since the sign-in or since the last
\* request that was let in.
THEOREM ActiveStaysIn == Spec => ActiveNotTimedOut
<1>1. ASSUME SessionInv, [Next]_vars
      PROVE  TimedOutLate
  <2> SUFFICES ASSUME NEW q \in Requests, request[q].pc = "idle",
                      request'[q].kind = "timeout"
               PROVE  \E s \in Sids :
                         /\ s = request'[q].sid
                         /\ \/ s \in disturbed'
                            \/ now >= born[s] + Absolute
                            \/ now >= seen[s] + Idle
    BY DEF TimedOutLate
  <2>1. PICK s \in Sids : RequireAuth(q, s)
    BY <1>1, RequireAuthDecides
  <2>2. /\ s = request'[q].sid /\ stored[s].account /\ disturbed' = DisturbedBy(s)
        /\ ~( HasValidLifecycleMetadata(stored[s]) /\ LifecycleExpiresAt(stored[s]) > now )
    BY <1>1, <2>1, RequireAuthOutcome
  <2>3. CASE InFlightOn(s) # {} \/ s \in disturbed
    BY <2>2, <2>3 DEF DisturbedBy
  <2>4. CASE InFlightOn(s) = {} /\ s \notin disturbed
    <3>1. /\ now \in Nat /\ born[s] \in Nat /\ seen[s] \in Nat /\ stored[s] \in Session
          /\ CopyOf(s, stored[s]) /\ born[s] <= seen[s] /\ seen[s] <= now
      BY <1>1 DEF SessionInv, LimitsInv, TypeOK, SessionsKnown
    <3>2. stored[s].lastActivityAt = seen[s]
      BY <1>1, <2>2, <2>4, QuietBySession DEF SessionQuiet
    <3>3. HasValidLifecycleMetadata(stored[s])
      BY <2>2, <3>1, <3>2 DEF HasValidLifecycleMetadata, CopyOf
    <3> QED
      BY <2>2, <3>1, <3>2, <3>3 DEF CopyOf, Session, LifecycleExpiresAt, Earlier
  <2> QED
    BY <2>3, <2>4
<1> QED
  BY <1>1, Invariance, PTL DEF Spec, IInv, ActiveNotTimedOut

---------------------------------------------------------------------------
(* The promise of SessionPromise, kept step by step *)

LEMMA SameDue ==
    ASSUME NEW s \in Sids
    PROVE  Promise!Due(s) = Due(s)
  BY DEF Due, Earlier, Promise!Due

LEMMA StatusNext ==
    ASSUME phase \in [Sids -> Phases], NEW s \in Sids, NEW ph \in Phases,
           phase' = [phase EXCEPT ![s] = ph]
    PROVE  /\ (ph = "open" => Status' = [Status EXCEPT ![s] = "open"])
           /\ (ph = "alone" => Status' = [Status EXCEPT ![s] = "over"])
           /\ (ph = phase[s] => Status' = Status)
           /\ (ph = "reported" /\ phase[s] = "open" => Status' = Status)
  BY DEF Status, StatusOf, Phases

LEMMA StatusSame ==
    ASSUME UNCHANGED phase
    PROVE  Status' = Status
  BY DEF Status, StatusOf

\* What the promise sees of most steps: nothing, unless something failed.
LEMMA FailRefines ==
    ASSUME IInv, Next, UNCHANGED <<now, cache, born, seen, phase>>
    PROVE  Promise!Fail
<1>1. Status' = Status
  BY StatusSame
<1> QED
  BY <1>1, DisturbedGrows DEF IInv, Promise!Fail, Promise!Trouble

\* A request puts the deadline of its session's cache where it may.
LEMMA KeepRefines ==
    ASSUME IInv, Next, NEW r \in Requests, NEW s \in Sids, Stands(r, s),
           NEW c \in Nat, c # 0 => c > now /\ WithinLimits(s, c),
           UNCHANGED <<now, born, seen>>,
           Status' = Status,
           cache' = [cache EXCEPT ![s] = c],
           phase[s] = "fresh" \/ s \in disturbed' \/ c >= cache[s]
    PROVE  Promise!Keep(s)
<1>1. /\ born[s] # 0 /\ phase[s] # "alone" /\ phase[s] \in Phases
      /\ now \in Nat /\ born[s] \in Nat /\ seen[s] \in Nat
  BY DEF Stands
<1>2. Status[s] # "over" /\ (phase[s] = "fresh" => Status[s] = "fresh")
  BY <1>1 DEF Status, StatusOf, Phases
<1>3. c \in {0} \cup (now + 1)..Promise!Due(s)
  BY <1>1, SameDue DEF Due, Earlier, WithinLimits
<1>4. Promise!Trouble
  BY DisturbedGrows DEF IInv, Promise!Trouble
<1>5. Status[s] = "open" => s \in disturbed' \/ c >= cache[s]
  BY <1>2
<1> QED
  BY <1>1, <1>2, <1>3, <1>4, <1>5 DEF Promise!Keep

\* Of a quiet session, a deadline no earlier than its own takes nothing away.
LEMMA NothingTaken ==
    ASSUME IInv, NEW r \in Requests, NEW s \in Sids, Stands(r, s),
           NEW t \in Nat, Due(s) > now => t >= Due(s)
    PROVE  Until(t) >= cache[s] /\ (Until(t) # 0 => Until(t) > now) /\ Until(t) \in Nat
<1>1. /\ now \in Nat /\ cache[s] \in Nat /\ (cache[s] # 0 => WithinLimits(s, cache[s]))
      /\ born[s] \in Nat /\ seen[s] \in Nat
      /\ (cache[s] # 0 => cache[s] > now)
  BY DEF Stands, IInv, CachesLive
<1>2. Due(s) \in Nat /\ (cache[s] # 0 => cache[s] <= Due(s))
  BY <1>1 DEF Due, Earlier, WithinLimits
<1> QED
  BY <1>1, <1>2 DEF Until

LEMMA ExtensionRefines ==
    ASSUME IInv, Next, NEW r \in Requests, ExtendCache(r) \/ StartRefresh(r)
    PROVE  Promise!Next
<1>1. CASE cache' = cache
  <2>1. Promise!Fail
    BY <1>1, FailRefines DEF ExtendCache, StartRefresh
  <2> QED
    BY <2>1 DEF Promise!Next
<1>2. CASE cache' = CacheExtended(request[r].sid, request[r].expiresAt)
  <2>1. /\ request[r].pc \in {"extending", "checking"}
        /\ UNCHANGED <<now, born, seen, phase>>
    BY DEF ExtendCache, StartRefresh
  <2>2. PICK s \in Sids : Stands(r, s)
    BY <2>1, Standing DEF IInv
  <2> DEFINE t == request[r].expiresAt
             c == IF cache[s] = 0 THEN 0 ELSE Until(t)
  <2>3. /\ cache' = [cache EXCEPT ![s] = c]
        /\ t \in Nat /\ WithinLimits(s, t) /\ now \in Nat /\ cache[s] \in Nat
    BY <1>2, <2>1, <2>2 DEF Stands, CacheExtended, Request
  <2>4. c \in Nat /\ (c # 0 => c > now /\ WithinLimits(s, c))
    BY <2>3 DEF Until
  <2>5. ASSUME s \notin disturbed'
        PROVE  c >= cache[s]
    <3>1. s \notin disturbed
      BY <2>5, DisturbedGrows DEF IInv
    <3>2. t = Due(s)
      BY <2>1, <2>2, <3>1 DEF Stands, QuietEntry
    <3>3. Until(t) >= cache[s]
      BY <2>2, <2>3, <3>2, NothingTaken DEF Stands, Due, Earlier
    <3> QED
      BY <2>3, <3>3
  <2> HIDE DEF c
  <2>6. Promise!Keep(s)
    BY <2>1, <2>2, <2>3, <2>4, <2>5, StatusSame, KeepRefines
  <2> QED
    BY <2>6 DEF Promise!Next
<1> QED
  BY <1>1, <1>2 DEF ExtendCache, StartRefresh

LEMMA StoringRefines ==
    ASSUME IInv, Next, NEW r \in Requests,
           Refresh(r) \/ StoreCache(r) \/ ExchangeFails(r) \/ ExchangeAuthCode(r)
    PROVE  Promise!Next
<1>1. CASE cache' = cache
  <2>1. Promise!Fail
    BY <1>1, FailRefines DEF Refresh, StoreCache, ExchangeFails, ExchangeAuthCode
  <2> QED
    BY <2>1 DEF Promise!Next
<1>2. CASE cache' = CacheStored(request[r].sid, request[r].expiresAt)
  <2>1. /\ request[r].pc \in {"refreshing", "storing", "exchanging"}
        /\ UNCHANGED <<now, born, seen, phase>>
    BY DEF Refresh, StoreCache, ExchangeFails, ExchangeAuthCode
  <2>2. PICK s \in Sids : Stands(r, s)
    BY <2>1, Standing DEF IInv
  <2> DEFINE t == request[r].expiresAt
             c == Until(t)
  <2>3. /\ cache' = [cache EXCEPT ![s] = c]
        /\ t \in Nat /\ WithinLimits(s, t) /\ now \in Nat /\ cache[s] \in Nat
    BY <1>2, <2>1, <2>2 DEF Stands, CacheStored, Request
  <2>4. c \in Nat /\ (c # 0 => c > now /\ WithinLimits(s, c))
    BY <2>3 DEF Until
  <2>5. ASSUME s \notin disturbed'
        PROVE  c >= cache[s]
    <3>1. s \notin disturbed
      BY <2>5, DisturbedGrows DEF IInv
    <3>2. Due(s) \in Nat
      BY <2>2 DEF Stands, Due, Earlier
    <3>3. Due(s) > now => t >= Due(s)
      BY <2>1, <2>2, <3>1, <3>2 DEF Stands, QuietEntry
    <3> QED
      BY <2>2, <2>3, <3>3, NothingTaken
  <2> HIDE DEF c
  <2>6. Promise!Keep(s)
    BY <2>1, <2>2, <2>3, <2>4, <2>5, StatusSame, KeepRefines
  <2> QED
    BY <2>6 DEF Promise!Next
<1> QED
  BY <1>1, <1>2 DEF Refresh, StoreCache, ExchangeFails, ExchangeAuthCode

\* Deleting the cache ends the session for good, or something has gone wrong.
LEMMA DeletingRefines ==
    ASSUME IInv, Next, NEW r \in Requests, DeleteMsalCache(r)
    PROVE  Promise!Next
<1>1. PICK s \in Sids : Stands(r, s)
  BY Standing DEF IInv, DeleteMsalCache
<1>2. PICK outcome \in Outcomes :
        /\ cache' = IF outcome = "refused" THEN cache ELSE CacheDeleted(request[r].sid)
        /\ phase' = [phase EXCEPT ![request[r].sid] =
              IF outcome # "replied" \/ ~request[r].ok THEN @
              ELSE IF request[r].alone THEN "alone"
              ELSE IF request[r].kind = "signOut" /\ @ = "open" THEN "reported"
              ELSE @]
        /\ IF outcome = "replied" THEN Undisturbed ELSE Disturb(r)
  BY DEF DeleteMsalCache
<1>3. /\ s = request[r].sid /\ request[r].pc = "clearing"
      /\ phase \in [Sids -> Phases] /\ phase[s] \in Phases
      /\ UNCHANGED <<now, born, seen>>
      /\ born[s] # 0
  BY <1>1 DEF DeleteMsalCache, Stands, IInv, SessionInv, LimitsInv, TypeOK
<1>4. CASE outcome = "refused"
  <2>1. phase' = phase /\ cache' = cache
    BY <1>2, <1>3, <1>4
  <2>2. Promise!Fail
    BY <1>3, <2>1, FailRefines
  <2> QED
    BY <2>2 DEF Promise!Next
<1>5. CASE outcome = "replied" /\ request[r].ok /\ request[r].alone
  <2>1. phase' = [phase EXCEPT ![s] = "alone"] /\ cache' = [cache EXCEPT ![s] = 0]
    BY <1>2, <1>3, <1>5 DEF CacheDeleted
  <2>2. Status' = [Status EXCEPT ![s] = "over"]
    BY <1>3, <2>1, StatusNext DEF Phases
  <2>3. Promise!End(s)
    BY <1>3, <2>1, <2>2, DisturbedGrows DEF IInv, Promise!End, Promise!Trouble
  <2> QED
    BY <2>3 DEF Promise!Next
<1>6. CASE outcome # "refused" /\ ~(outcome = "replied" /\ request[r].ok /\ request[r].alone)
  <2>1. cache' = [cache EXCEPT ![s] = 0]
    BY <1>2, <1>3, <1>6 DEF CacheDeleted
  <2>2. Status' = Status
    <3>1. \E ph \in {phase[s], "reported"} :
             phase' = [phase EXCEPT ![s] = ph] /\ (ph = "reported" => phase[s] \in {"open", "reported"})
      BY <1>2, <1>3, <1>6
    <3> QED
      BY <1>3, <3>1, StatusNext DEF Phases
  <2>3. s \in disturbed'
    <3>1. disturbed \subseteq disturbed'
      BY DisturbedGrows DEF IInv
    <3>2. CASE outcome # "replied"
      BY <1>2, <1>3, <3>2 DEF Disturb
    <3>3. CASE ~request[r].ok
      BY <1>3, <3>1, <3>3 DEF IInv, FailuresDisturb
    <3>4. CASE ~request[r].alone
      BY <1>1, <3>1, <3>4 DEF Stands, QuietEntry
    <3> QED
      BY <1>6, <3>2, <3>3, <3>4
  <2>4. Promise!Keep(s)
    BY <1>1, <1>3, <2>1, <2>2, <2>3, KeepRefines
  <2> QED
    BY <2>4 DEF Promise!Next
<1> QED
  BY <1>4, <1>5, <1>6

\* A saved sign-in opens its session, whose tokens are there by then.
LEMMA PersistingRefines ==
    ASSUME IInv, Next, NEW r \in Requests, PersistAuthenticatedSession(r)
    PROVE  Promise!Next
<1>1. PICK s \in Sids : Stands(r, s)
  BY Standing DEF IInv, PersistAuthenticatedSession
<1>2. /\ s = request[r].sid /\ request[r].pc = "persisting"
      /\ phase \in [Sids -> Phases]
      /\ UNCHANGED <<now, cache, born, seen, disturbed>>
      /\ phase' = phase \/ phase' = [phase EXCEPT ![s] = "open"]
  BY <1>1 DEF PersistAuthenticatedSession, Stands, IInv, SessionInv, LimitsInv, TypeOK
<1>3. CASE phase' = phase
  BY <1>2, <1>3, FailRefines DEF Promise!Next
<1>4. CASE phase' = [phase EXCEPT ![s] = "open"]
  <2>1. Status' = [Status EXCEPT ![s] = "open"]
    BY <1>2, <1>4, StatusNext DEF Phases
  <2>2. born[s] # 0 /\ phase[s] = "fresh"
    BY <1>1, <1>2 DEF Stands, Request, Kinds, PagePcs, EndPcs
  <2>3. Status[s] = "fresh"
    BY <2>2 DEF Status, StatusOf
  <2>4. s \in disturbed' \/ Promise!Provided(s)
    BY <1>1, <1>2, SameDue DEF Stands, QuietEntry, Promise!Provided
  <2>5. Promise!Open(s)
    BY <1>2, <2>1, <2>2, <2>3, <2>4, DisturbedGrows DEF IInv, Promise!Open, Promise!Trouble
  <2> QED
    BY <2>5 DEF Promise!Next
<1> QED
  BY <1>2, <1>3, <1>4

\* A request is let in only in time and, if all is well, to its tokens.
LEMMA RequireAuthRefines ==
    ASSUME IInv, Next, NEW r \in Requests, NEW s \in Sids, RequireAuth(r, s)
    PROVE  Promise!Next
<1>1. CASE seen' = seen
  BY <1>1, FailRefines DEF RequireAuth, Promise!Next
<1>2. CASE /\ seen' = [seen EXCEPT ![s] = now]
           /\ LifecycleExpiresAt(stored[s]) > now
  <2>1. /\ stored[s].account /\ phase[s] # "fresh" /\ disturbed' = DisturbedBy(s)
        /\ UNCHANGED <<now, cache, born, phase>>
    BY DEF RequireAuth
  <2>2. /\ now \in Nat /\ born[s] \in Nat /\ seen[s] \in Nat /\ stored[s] \in Session
        /\ CopyOf(s, stored[s]) /\ phase[s] \in Phases
    BY DEF IInv, SessionInv, LimitsInv, TypeOK, SessionsKnown
  <2>3. now < Due(s)
    BY <1>2, <2>1, <2>2, DueBounds
  <2>4. phase[s] # "alone"
    BY <2>1, NoSessionTyped DEF IInv, SessionInv, LimitsInv, EndedIsOver
  <2>5. Status[s] = "open" /\ Status' = Status
    BY <2>1, <2>2, <2>4, StatusSame DEF Status, StatusOf, Phases
  <2>6. ASSUME s \notin disturbed'
        PROVE  cache[s] >= Due(s)
    <3>1. s \notin disturbed /\ InFlightOn(s) = {}
      BY <2>1, <2>6 DEF DisturbedBy
    <3>2. SessionQuiet(s)
      BY <3>1, QuietBySession DEF IInv
    <3>3. LifecycleExpiresAt(stored[s]) = Due(s)
      BY <2>1, <2>2, <3>1, <3>2, DueBounds DEF SessionQuiet, CopyOf
    <3> QED
      BY <1>2, <2>1, <3>2, <3>3 DEF SessionQuiet
  <2>7. Promise!Enter(s)
    BY <1>2, <2>1, <2>3, <2>5, <2>6, SameDue, DisturbedGrows
       DEF IInv, Promise!Enter, Promise!Provided, Promise!Trouble
  <2> QED
    BY <2>7 DEF Promise!Next
<1> QED
  BY <1>1, <1>2 DEF RequireAuth

LEMMA RegenerateSessionRefines ==
    ASSUME IInv, Next, NEW r \in Requests, NEW s \in Sids, NEW old \in Sids \cup {NoSid},
           RegenerateSession(r, old, s)
    PROVE  Promise!Next
<1>1. /\ UNCHANGED <<now, cache, phase>> /\ born[s] = 0
      /\ \/ UNCHANGED <<born, seen>>
         \/ born' = [born EXCEPT ![s] = now] /\ seen' = [seen EXCEPT ![s] = now]
  BY DEF RegenerateSession
<1>2. CASE UNCHANGED <<born, seen>>
  BY <1>1, <1>2, FailRefines DEF Promise!Next
<1>3. CASE born' = [born EXCEPT ![s] = now] /\ seen' = [seen EXCEPT ![s] = now]
  <2>1. phase[s] = "fresh"
    BY <1>1 DEF IInv, SessionInv, LimitsInv, SessionsKnown
  <2>2. Status[s] = "fresh" /\ Status' = Status
    BY <1>1, <2>1, StatusSame DEF Status, StatusOf
  <2>3. Promise!SignIn(s)
    BY <1>1, <1>3, <2>2, DisturbedGrows DEF IInv, Promise!SignIn, Promise!Trouble
  <2> QED
    BY <2>3 DEF Promise!Next
<1> QED
  BY <1>1, <1>2, <1>3

LEMMA TickRefines ==
    ASSUME Tick
    PROVE  Promise!Tick
<1>1. Status' = Status
  BY StatusSame DEF Tick
<1> QED
  BY <1>1 DEF Tick, Promise!Tick

\* The rest changes copies of sessions, which the promise does not have.
LEMMA OtherStepsRefine ==
    ASSUME IInv, Next,
           \/ \E r \in Requests : \/ AcceptToken(r) \/ Throws(r)
                                  \/ AcquireDownstreamToken(r) \/ ReadCacheExpiry(r)
                                  \/ SaveSession(r) \/ DestroySession(r) \/ Dies(r)
           \/ \E r \in Requests, s \in Sids : SignOut(r, s)
           \/ \E s \in Sids : StoreDrops(s)
    PROVE  Promise!Fail
<1>1. UNCHANGED <<now, cache, born, seen, phase>>
  BY DEF AcceptToken, Throws, AcquireDownstreamToken, ReadCacheExpiry, SaveSession,
     DestroySession, Dies, SignOut, StoreDrops
<1> QED
  BY <1>1, FailRefines

LEMMA InitRefines == Init => Promise!Init
  BY DEF Init, Promise!Init, Status, StatusOf

\* Whatever requests of a session overlap, fail or come late, its user sees what
\* SessionPromise says: let in only in time, with tokens unless something went
\* wrong, and never again once the session is over.
THEOREM PromiseKept == Spec => KeepsPromise
<1>1. ASSUME IInv, Next
      PROVE  Promise!Next
  <2>1. CASE \E r \in Requests : Step(r)
    BY <1>1, <2>1, ExtensionRefines, StoringRefines, DeletingRefines, PersistingRefines,
       OtherStepsRefine DEF Step, Promise!Next
  <2>2. CASE \/ \E r \in Requests, s \in Sids : RequireAuth(r, s) \/ SignOut(r, s)
             \/ \E r \in Requests, s \in Sids, old \in Sids \cup {NoSid} :
                   RegenerateSession(r, old, s)
    BY <1>1, <2>2, RequireAuthRefines, RegenerateSessionRefines, OtherStepsRefine
       DEF Promise!Next
  <2>3. CASE (\E s \in Sids : StoreDrops(s)) \/ Tick
    BY <1>1, <2>3, OtherStepsRefine, TickRefines DEF Promise!Next
  <2> QED
    BY <1>1, <2>1, <2>2, <2>3 DEF Next
<1>2. UNCHANGED vars => UNCHANGED Promise!promiseVars
  BY StatusSame DEF vars, Promise!promiseVars
<1>3. IInv /\ [Next]_vars => [Promise!Next]_(Promise!promiseVars)
  BY <1>1, <1>2
<1> QED
  BY <1>3, InitRefines, Invariance, PTL DEF Spec, KeepsPromise, Promise!Spec

=============================================================================
