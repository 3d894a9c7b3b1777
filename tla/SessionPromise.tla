--------------------------- MODULE SessionPromise ---------------------------
(***************************************************************************)
(* What the service promises of a signed-in session, whatever its requests *)
(* do to the copies of it: its user is let in only in time, and then with  *)
(* tokens; the tokens never outlast the session; a session that is over    *)
(* stays so.  It is over once it was ended with no other request under     *)
(* way.  A session is troubled once its requests have overlapped or a step *)
(* of one has failed; of those only the limits are promised, and not the   *)
(* tokens.                                                                 *)
(***************************************************************************)
EXTENDS Integers

CONSTANTS Sids, Idle, Absolute

VARIABLES
    now,
    born,       \* born[s]: when s was signed in, 0 if it was not
    seen,       \* seen[s]: when the user of s was last let in
    tokens,     \* tokens[s]: until when there are tokens for s, 0 if there are none
    status,     \* status[s]: "fresh", "open" or "over"
    troubled

promiseVars == <<now, born, seen, tokens, status, troubled>>

Init ==
    /\ now = 1
    /\ born = [s \in Sids |-> 0]
    /\ seen = [s \in Sids |-> 0]
    /\ tokens = [s \in Sids |-> 0]
    /\ status = [s \in Sids |-> "fresh"]
    /\ troubled = {}

Due(s) ==
    IF born[s] + Absolute <= seen[s] + Idle THEN born[s] + Absolute ELSE seen[s] + Idle

\* The tokens of s last as long as s will if nobody comes back to it.
Provided(s) == now < Due(s) => tokens[s] >= Due(s)

Trouble == \E S \in SUBSET Sids : troubled' = troubled \cup S

SignIn(s) ==
    /\ born[s] = 0
    /\ status[s] = "fresh"
    /\ born' = [born EXCEPT ![s] = now]
    /\ seen' = [seen EXCEPT ![s] = now]
    /\ Trouble
    /\ UNCHANGED <<now, tokens, status>>

\* The browser is given the id of the session.
Open(s) ==
    /\ born[s] # 0
    /\ status[s] = "fresh"
    /\ s \in troubled' \/ Provided(s)
    /\ status' = [status EXCEPT ![s] = "open"]
    /\ Trouble
    /\ UNCHANGED <<now, born, seen, tokens>>

Enter(s) ==
    /\ status[s] = "open"
    /\ now < Due(s)
    /\ s \in troubled' \/ Provided(s)
    /\ seen' = [seen EXCEPT ![s] = now]
    /\ Trouble
    /\ UNCHANGED <<now, born, tokens, status>>

\* Tokens are stored, prolonged or dropped; while all is well with the session
\* its user does not lose them.
Keep(s) ==
    /\ born[s] # 0
    /\ status[s] # "over"
    /\ \E t \in {0} \cup (now + 1)..Due(s) :
        /\ status[s] = "open" => s \in troubled' \/ t >= tokens[s]
        /\ tokens' = [tokens EXCEPT ![s] = t]
    /\ Trouble
    /\ UNCHANGED <<now, born, seen, status>>

End(s) ==
    /\ born[s] # 0
    /\ status' = [status EXCEPT ![s] = "over"]
    /\ tokens' = [tokens EXCEPT ![s] = 0]
    /\ Trouble
    /\ UNCHANGED <<now, born, seen>>

Fail == Trouble /\ UNCHANGED <<now, born, seen, tokens, status>>

Tick ==
    /\ now' = now + 1
    /\ tokens' = [s \in Sids |-> IF tokens[s] > now + 1 THEN tokens[s] ELSE 0]
    /\ UNCHANGED <<born, seen, status, troubled>>

Next ==
    \/ \E s \in Sids : SignIn(s) \/ Open(s) \/ Enter(s) \/ Keep(s) \/ End(s)
    \/ Fail
    \/ Tick

Spec == Init /\ [][Next]_promiseVars

=============================================================================
