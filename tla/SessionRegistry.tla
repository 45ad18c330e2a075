-------------------------- MODULE SessionRegistry --------------------------
(***************************************************************************)
(* What the account promises its clients, without Redis, versions or       *)
(* requests: a sign-in opens a session, a renewal replaces one pair of a   *)
(* session by another, and a password change or the deletion of the        *)
(* account ends every session at one instant.  Sessions implements it.     *)
(***************************************************************************)
CONSTANTS Token, NoToken, Initial

VARIABLES
    open,     \* the account exists
    session,  \* session[t]: the sign-in pair t descends from
    accepted  \* the pairs the API accepts

rvars == <<open, session, accepted>>

Granted == {t \in Token : session[t] # NoToken}

Init == /\ open = TRUE
        /\ session = [t \in Token |-> IF t \in Initial THEN t ELSE NoToken]
        /\ accepted = Initial

(* A sign-in overtaken by a password change opens a session already over. *)
SignIn(t) ==
    /\ t \notin Granted
    /\ session' = [session EXCEPT ![t] = t]
    /\ accepted' \in {accepted, accepted \cup {t}}
    /\ accepted' # accepted => open
    /\ UNCHANGED open

(* A renewed pair is worth exactly what the pair it replaces is worth. *)
Renew(p, t) ==
    /\ p \in Granted /\ t \notin Granted
    /\ session' = [session EXCEPT ![t] = session[p]]
    /\ accepted' = IF p \in accepted THEN accepted \cup {t} ELSE accepted
    /\ UNCHANGED open

RevokeAll ==
    /\ open /\ accepted' = {}
    /\ UNCHANGED <<open, session>>

Close ==
    /\ open /\ open' = FALSE /\ accepted' = {}
    /\ UNCHANGED session

Next == \/ RevokeAll \/ Close
        \/ \E t \in Token : SignIn(t) \/ \E p \in Token : Renew(p, t)

Spec == Init /\ [][Next]_rvars
=============================================================================
