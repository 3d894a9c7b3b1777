---------------------------- MODULE OneTimeFlow ----------------------------
(***************************************************************************)
(* What the auth-code-flow store promises, whatever keeps the records:     *)
(* a sign-in's flow is reserved, published and taken at most once, each    *)
(* before its deadline; a session's newer reservation ends the older ones; *)
(* a flow that has ended never comes back.  The store may lose flows at    *)
(* any time (abandoned, expired, a restarted process), never revive one.   *)
(***************************************************************************)
EXTENDS Integers

CONSTANTS Attempts, Sessions, NoSession, Lifetime

VARIABLES
    life,       \* life[a]: how far attempt a's flow has come
    home,       \* home[a]: the session of a live flow
    deadline,   \* deadline[a]: when a live flow stops being usable
    now

flowVars == <<life, home, deadline, now>>

Init ==
    /\ life = [a \in Attempts |-> "unused"]
    /\ home = [a \in Attempts |-> NoSession]
    /\ deadline = [a \in Attempts |-> 0]
    /\ now = 0

Live == {a \in Attempts : life[a] \in {"reserved", "published"}}

\* The lives once the flows of D have ended, home and deadline with them.
Ended(D) ==
    /\ home' = [a \in Attempts |-> IF a \in D THEN NoSession ELSE home[a]]
    /\ deadline' = [a \in Attempts |-> IF a \in D THEN 0 ELSE deadline[a]]

Reserve(a, s) ==
    /\ life[a] = "unused"
    /\ \E D \in SUBSET Live :
        /\ \A b \in Live : home[b] = s => b \in D
        /\ life' = [b \in Attempts |->
                       IF b = a THEN "reserved"
                       ELSE IF b \in D THEN "dead" ELSE life[b]]
        /\ home' = [b \in Attempts |->
                       IF b = a THEN s ELSE IF b \in D THEN NoSession ELSE home[b]]
        /\ deadline' = [b \in Attempts |->
                       IF b = a THEN now + Lifetime
                       ELSE IF b \in D THEN 0 ELSE deadline[b]]
    /\ UNCHANGED now

Publish(a) ==
    /\ life[a] = "reserved"
    /\ now < deadline[a]
    /\ life' = [life EXCEPT ![a] = "published"]
    /\ UNCHANGED <<home, deadline, now>>

Consume(a) ==
    /\ life[a] = "published"
    /\ now < deadline[a]
    /\ life' = [life EXCEPT ![a] = "consumed"]
    /\ Ended({a})
    /\ UNCHANGED now

End ==
    /\ \E D \in SUBSET {a \in Attempts : life[a] \in {"unused", "reserved", "published"}} :
        /\ life' = [a \in Attempts |-> IF a \in D THEN "dead" ELSE life[a]]
        /\ Ended(D)
    /\ UNCHANGED now

Tick == now' = now + 1 /\ UNCHANGED <<life, home, deadline>>

Next ==
    \/ \E a \in Attempts, s \in Sessions : Reserve(a, s)
    \/ \E a \in Attempts : Publish(a) \/ Consume(a)
    \/ End
    \/ Tick

Spec == Init /\ [][Next]_flowVars

=============================================================================
