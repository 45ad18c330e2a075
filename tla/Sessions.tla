------------------------------ MODULE Sessions ------------------------------
(***************************************************************************)
(* The sessions of one account: sign-in, refresh-token rotation, logout,   *)
(* password change (and reset), account deletion, as auth.service.ts,      *)
(* user.service.ts and jwt.strategy.ts run them on several API processes   *)
(* over one Postgres row and one Redis.                                    *)
(*                                                                         *)
(* A token stands for a pair (access JWT, refresh token) made by one call  *)
(* of issueTokens; both halves carry the same sessionVersion.  Every await *)
(* of a handler ends an action, so requests interleave between any two     *)
(* Redis or database calls.  A slot of Req is reused once its request has  *)
(* ended: Req bounds the requests in flight, never their number.           *)
(***************************************************************************)
EXTENDS Integers, FiniteSets

CONSTANTS
    Req,          \* requests in flight
    Token,        \* every pair issueTokens will ever draw
    NoToken,
    Initial,      \* pairs that exist, delivered, before the first request
    Legacy,       \* those of them stored under the raw token, not its hash
    Offered,      \* the operations clients use in this instance
    MaxVersion,   \* bound on the number of password changes
    PollAttempts, \* REFRESH_RESULT_POLL_ATTEMPTS
    Aborts,       \* a process may stop, or a handler fail, between two awaits
    FaultyRedis   \* a Redis call inside refresh's try block may fail

ASSUME TokenAssumption == /\ NoToken \notin Token
                          /\ Initial \subseteq Token
                          /\ Legacy \subseteq Initial
                          /\ Req \cap Token = {}
ASSUME BoundAssumption == MaxVersion \in Nat /\ PollAttempts \in Nat \ {0}
ASSUME OfferedAssumption == Offered \subseteq {"login", "refresh", "logout", "change", "delete"}
ASSUME FaultAssumption == Aborts \in BOOLEAN /\ FaultyRedis \in BOOLEAN

VARIABLES
    open,      \* the user row exists
    pwd,       \* generation of the row's passwordHash
    ver,       \* the row's sessionVersion
    live,      \* tokens with a key refresh:<t>
    index,     \* the Redis set user:tokens:<user>
    pending,   \* tokens with a key refresh:pending:<t>
    result,    \* refresh:result:<t>: the pair that replaced t
    issued,    \* pairs issueTokens has made
    sv,        \* the sessionVersion stored in a pair
    req,       \* the requests
    held,      \* ghost: pairs a client has received
    root,      \* ghost: the pair of the sign-in a pair descends from
    cred,      \* ghost: the password generation that sign-in proved
    succ,      \* ghost: pairs received in answer to a refresh of t
    loggedOut  \* ghost: tokens whose logout was answered

redis   == <<live, index, pending, result>>
account == <<open, pwd, ver>>
pairs   == <<issued, sv, root, cred>>
clients == <<held, succ, loggedOut>>
vars    == <<account, redis, pairs, clients, req>>

-----------------------------------------------------------------------------
(* Types *)

Op == {"none", "login", "refresh", "logout", "change", "delete"}
Pc == {"idle", "claim", "claimRaw", "checkPending", "poll", "checkUser",
       "rejectPending", "rejectClosed", "rejectIndex", "issueKey", "issueIndex", "saveResult",
       "unindexOld", "clearPending", "restoreKey", "restorePending", "reply",
       "logoutRaw", "logoutIndex", "commit", "members", "drop", "deleteRow"}
Standing == {"good", "revoked", "loggedOut"}

Request == [pc    : Pc,
            op    : Op,
            arg   : Token \cup {NoToken},  \* the refresh token presented
            seen  : Nat,                   \* sessionVersion of the row read
            proof : Nat,                   \* ghost: generation of the password proved
            new   : Token \cup {NoToken},  \* the pair made or found for the answer
            snap  : SUBSET Token,          \* sMembers, keys still to delete
            polls : Nat,
            began : Standing]              \* ghost: standing of arg at the call

Idle == [pc |-> "idle", op |-> "none", arg |-> NoToken, seen |-> 0,
         proof |-> 0, new |-> NoToken, snap |-> {}, polls |-> 0, began |-> "good"]

TypeOK ==
    /\ open \in BOOLEAN /\ pwd \in Nat /\ ver \in Nat
    /\ live \subseteq issued /\ index \subseteq Token /\ pending \subseteq Token
    /\ result \in [Token -> Token \cup {NoToken}]
    /\ issued \subseteq Token
    /\ sv \in [Token -> Nat]
    /\ root \in [Token -> Token] /\ cred \in [Token -> Nat]
    /\ held \subseteq issued /\ loggedOut \subseteq Token
    /\ succ \in [Token -> SUBSET Token]
    /\ req \in [Req -> Request]

-----------------------------------------------------------------------------
(* jwt.strategy.ts: an unexpired access token is good while the row exists
   and carries the version stored in it (0 when it stores none). *)
Accepts(t) == open /\ t \in issued /\ sv[t] = ver

(* What a client would say of t when it presents it. *)
StandingOf(t) == IF t \in loggedOut THEN "loggedOut"
                 ELSE IF Accepts(t) THEN "good" ELSE "revoked"

(* The requests that own t: they have claimed it and may still replace it or
   put it back. *)
Holds(r, t) ==
    /\ req[r].op = "refresh" /\ req[r].arg = t
    /\ req[r].pc \in {"checkUser", "issueKey", "issueIndex", "saveResult",
                      "unindexOld", "clearPending", "restoreKey"}

(* Bound: a request that may issue a pair reserves one of the fresh tokens.
   Refreshes of one token share a reservation: one of them claims it, unless
   a failure puts it back for the next. *)
Claimants == {IF req[q].op = "login" \/ FaultyRedis THEN q ELSE req[q].arg :
                 q \in {p \in Req : req[p].op \in {"login", "refresh"}
                                    /\ req[p].new = NoToken}}
Budget(claimant) ==
    Cardinality(Claimants \cup {claimant}) <= Cardinality(Token \ issued)

(* Bound: password changes in flight fit under MaxVersion. *)
VersionBudget ==
    ver + Cardinality({q \in Req : req[q].op = "change"}) < MaxVersion

-----------------------------------------------------------------------------
Init ==
    /\ open = TRUE /\ pwd = 0 /\ ver = 0
    /\ live = Initial /\ index = Initial /\ pending = {}
    /\ result = [t \in Token |-> NoToken]
    /\ issued = Initial /\ held = Initial
    /\ sv = [t \in Token |-> 0]
    /\ root = [t \in Token |-> t] /\ cred = [t \in Token |-> 0]
    /\ succ = [t \in Token |-> {}] /\ loggedOut = {}
    /\ req = [r \in Req |-> Idle]

At(r, pc) == req[r].pc = pc
Become(r, request) == req' = [req EXCEPT ![r] = request]
Goto(r, pc) == Become(r, [req[r] EXCEPT !.pc = pc])
Finish(r) == Become(r, Idle)
(* A handler that throws answers without a pair. *)
Reject(r) == Become(r, [req[r] EXCEPT !.pc = "reply", !.new = NoToken])

-----------------------------------------------------------------------------
(* login (googleAuth, once the account is found): the row is read and the
   password proved against it; issueTokens follows. *)
StartLogin(r) ==
    /\ At(r, "idle") /\ "login" \in Offered /\ open /\ Budget(r)
    /\ Become(r, [Idle EXCEPT !.pc = "issueKey", !.op = "login",
                              !.seen = ver, !.proof = pwd])
    /\ UNCHANGED <<account, redis, pairs, clients>>

(* issueTokens draws the pair and writes its key, then adds it to the index:
   Promise.all sends both on one connection, in this order. *)
IssueKey(r) ==
    /\ At(r, "issueKey")
    /\ \E t \in Token \ issued :
         LET old == req[r].arg IN
         /\ issued' = issued \cup {t}
         /\ live' = live \cup {t}
         /\ sv' = [sv EXCEPT ![t] = req[r].seen]
         /\ root' = [root EXCEPT ![t] = IF old = NoToken THEN t ELSE root[old]]
         /\ cred' = [cred EXCEPT ![t] = IF old = NoToken THEN req[r].proof
                                                         ELSE cred[old]]
         /\ Become(r, [req[r] EXCEPT !.pc = "issueIndex", !.new = t])
    /\ UNCHANGED <<account, index, pending, result, clients>>

IssueIndex(r) ==
    /\ At(r, "issueIndex")
    /\ index' = index \cup {req[r].new}
    /\ Goto(r, IF req[r].op = "login" THEN "reply" ELSE "saveResult")
    /\ UNCHANGED <<account, live, pending, result, pairs, clients>>

-----------------------------------------------------------------------------
(* refresh: a recent result is answered at once... *)
StartRefresh(r, t) ==
    /\ At(r, "idle") /\ "refresh" \in Offered /\ t \in held
    /\ t \in live \/ (FaultyRedis /\ \E q \in Req : Holds(q, t)) =>
         Budget(IF FaultyRedis THEN r ELSE t)
    /\ Become(r, [Idle EXCEPT !.pc = IF result[t] = NoToken THEN "claim" ELSE "reply",
                              !.op = "refresh", !.arg = t, !.new = result[t],
                              !.began = StandingOf(t)])
    /\ UNCHANGED <<account, redis, pairs, clients>>

(* Mutant: the claim reads the key but does not delete it (GET for GETDEL). *)
ClaimKeyKept(r, keys, otherwise) ==
    /\ IF req[r].arg \in keys
       THEN pending' = pending \cup {req[r].arg} /\ Goto(r, "checkUser")
       ELSE Goto(r, otherwise) /\ UNCHANGED pending
    /\ UNCHANGED <<account, live, index, result, pairs, clients>>

(* ... otherwise claimRefreshToken takes the hashed key, or the raw one of a
   legacy token, and leaves the pending marker, in one script. *)
ClaimKey(r, keys, otherwise) ==
    LET t == req[r].arg IN
    /\ IF t \in keys
       THEN /\ live' = live \ {t} /\ pending' = pending \cup {t}
            /\ Goto(r, "checkUser")
       ELSE /\ Goto(r, otherwise) /\ UNCHANGED <<live, pending>>
    /\ UNCHANGED <<account, index, result, pairs, clients>>

Claim(r)    == At(r, "claim") /\ ClaimKey(r, live \ Legacy, "claimRaw")
ClaimRaw(r) == At(r, "claimRaw") /\ ClaimKey(r, live \cap Legacy, "checkPending")

(* Someone else is rotating the token: wait for the result, a bounded time. *)
CheckPending(r) ==
    /\ At(r, "checkPending")
    /\ IF req[r].arg \in pending THEN Goto(r, "poll") ELSE Reject(r)
    /\ UNCHANGED <<account, redis, pairs, clients>>

(* Mutant: the waiter never counts its rounds. *)
PollForever(r) ==
    /\ At(r, "poll")
    /\ result[req[r].arg] # NoToken
    /\ Become(r, [req[r] EXCEPT !.pc = "reply", !.new = result[req[r].arg]])
    /\ UNCHANGED <<account, redis, pairs, clients>>

Poll(r) ==
    /\ At(r, "poll")
    /\ \/ /\ result[req[r].arg] # NoToken
          /\ Become(r, [req[r] EXCEPT !.pc = "reply", !.new = result[req[r].arg]])
       \/ /\ result[req[r].arg] = NoToken
          /\ IF req[r].polls + 1 < PollAttempts
             THEN Become(r, [req[r] EXCEPT !.polls = @ + 1])
             ELSE Reject(r)
    /\ UNCHANGED <<account, redis, pairs, clients>>

(* Mutant: the row is only asked to exist. *)
CheckUserAnyVersion(r) ==
    /\ At(r, "checkUser")
    /\ IF open
       THEN Become(r, [req[r] EXCEPT !.pc = "issueKey", !.seen = ver])
       ELSE Goto(r, "rejectClosed")
    /\ UNCHANGED <<account, redis, pairs, clients>>

(* The row must exist and still carry the version stored with the token. *)
CheckUser(r) ==
    /\ At(r, "checkUser")
    /\ IF open /\ ver = sv[req[r].arg]
       THEN Become(r, [req[r] EXCEPT !.pc = "issueKey", !.seen = ver])
       ELSE Goto(r, IF open THEN "rejectPending" ELSE "rejectClosed")
    /\ UNCHANGED <<account, redis, pairs, clients>>

RejectPending(r) ==
    /\ req[r].pc \in {"rejectPending", "rejectClosed"}
    /\ pending' = pending \ {req[r].arg}
    /\ IF At(r, "rejectPending") THEN Goto(r, "rejectIndex") ELSE Reject(r)
    /\ UNCHANGED <<account, live, index, result, pairs, clients>>

RejectIndex(r) ==
    /\ At(r, "rejectIndex")
    /\ index' = index \ {req[r].arg}
    /\ Reject(r)
    /\ UNCHANGED <<account, live, pending, result, pairs, clients>>

(* The rest of the try block, after issueTokens. *)
SaveResult(r) ==
    /\ At(r, "saveResult")
    /\ result' = [result EXCEPT ![req[r].arg] = req[r].new]
    /\ Goto(r, "unindexOld")
    /\ UNCHANGED <<account, live, index, pending, pairs, clients>>

UnindexOld(r) ==
    /\ At(r, "unindexOld")
    /\ index' = index \ {req[r].arg}
    /\ Goto(r, "clearPending")
    /\ UNCHANGED <<account, live, pending, result, pairs, clients>>

(* Mutant: the claimed key is put back whether or not the rotation worked. *)
ClearPendingAndRestore(r) ==
    /\ At(r, "clearPending")
    /\ pending' = pending \ {req[r].arg}
    /\ live' = live \cup {req[r].arg}
    /\ Goto(r, "reply")
    /\ UNCHANGED <<account, index, result, pairs, clients>>

ClearPending(r) ==
    /\ At(r, "clearPending")
    /\ pending' = pending \ {req[r].arg}
    /\ Goto(r, "reply")
    /\ UNCHANGED <<account, live, index, result, pairs, clients>>

(* Mutant: the catch block stores the new token instead of the claimed one. *)
RestoreNewKey(r) ==
    /\ At(r, "restoreKey")
    /\ live' = live \cup {req[r].new}
    /\ Goto(r, "restorePending")
    /\ UNCHANGED <<account, index, pending, result, pairs, clients>>

(* The catch block puts the claimed key back and drops the marker. *)
RestoreKey(r) ==
    /\ At(r, "restoreKey")
    /\ live' = live \cup {req[r].arg}
    /\ Goto(r, "restorePending")
    /\ UNCHANGED <<account, index, pending, result, pairs, clients>>

RestorePending(r) ==
    /\ At(r, "restorePending")
    /\ pending' = pending \ {req[r].arg}
    /\ Reject(r)
    /\ UNCHANGED <<account, live, index, result, pairs, clients>>

(* The response of login and refresh reaches the client. *)
Reply(r) ==
    /\ At(r, "reply")
    /\ IF req[r].new = NoToken
       THEN UNCHANGED <<held, succ>>
       ELSE /\ held' = held \cup {req[r].new}
            /\ succ' = IF req[r].op = "login" THEN succ
                       ELSE [succ EXCEPT ![req[r].arg] = @ \cup {req[r].new}]
    /\ Finish(r)
    /\ UNCHANGED <<account, redis, pairs, loggedOut>>

-----------------------------------------------------------------------------
(* logout: GETDEL of the hashed key, of the raw one, then the index entry. *)
StartLogout(r, t) ==
    /\ At(r, "idle") /\ "logout" \in Offered /\ t \in held
    /\ live' = IF t \in Legacy THEN live ELSE live \ {t}
    /\ Become(r, [Idle EXCEPT !.pc = IF t \in live \ Legacy THEN "logoutIndex" ELSE "logoutRaw",
                              !.op = "logout", !.arg = t])
    /\ UNCHANGED <<account, index, pending, result, pairs, clients>>

AnswerLogout(r) == /\ loggedOut' = loggedOut \cup {req[r].arg}
                   /\ Finish(r)
                   /\ UNCHANGED <<held, succ>>

LogoutRaw(r) ==
    /\ At(r, "logoutRaw")
    /\ IF req[r].arg \in live \cap Legacy
       THEN live' = live \ {req[r].arg} /\ Goto(r, "logoutIndex") /\ UNCHANGED clients
       ELSE AnswerLogout(r) /\ UNCHANGED live
    /\ UNCHANGED <<account, index, pending, result, pairs>>

LogoutIndex(r) ==
    /\ At(r, "logoutIndex")
    /\ index' = index \ {req[r].arg}
    /\ AnswerLogout(r)
    /\ UNCHANGED <<account, live, pending, result, pairs>>

-----------------------------------------------------------------------------
(* changePassword, and passwordResetConfirm after its code is checked: the
   row is read, then updated in one statement, then sessions are revoked. *)
StartChange(r) ==
    /\ At(r, "idle") /\ "change" \in Offered /\ open /\ VersionBudget
    /\ Become(r, [Idle EXCEPT !.pc = "commit", !.op = "change"])
    /\ UNCHANGED <<account, redis, pairs, clients>>

(* Mutant: the update leaves sessionVersion alone. *)
CommitSameVersion(r) ==
    /\ At(r, "commit")
    /\ IF open
       THEN pwd' = pwd + 1 /\ Goto(r, "members")
       ELSE Finish(r) /\ UNCHANGED pwd
    /\ UNCHANGED <<open, ver, redis, pairs, clients>>

Commit(r) ==
    /\ At(r, "commit")
    /\ IF open
       THEN pwd' = pwd + 1 /\ ver' = ver + 1 /\ Goto(r, "members")
       ELSE Finish(r) /\ UNCHANGED <<pwd, ver>>
    /\ UNCHANGED <<open, redis, pairs, clients>>

(* deleteAccount revokes the sessions first and deletes the row last. *)
StartDelete(r) ==
    /\ At(r, "idle") /\ "delete" \in Offered /\ open
    /\ Become(r, [Idle EXCEPT !.pc = "members", !.op = "delete"])
    /\ UNCHANGED <<account, redis, pairs, clients>>

(* revokeSessions: the index is read, then a pipeline deletes the keys it
   named, one by one, and the index itself. *)
Members(r) ==
    /\ At(r, "members")
    /\ Become(r, [req[r] EXCEPT !.pc = "drop", !.snap = index])
    /\ UNCHANGED <<account, redis, pairs, clients>>

DropKey(r) ==
    /\ At(r, "drop")
    /\ \E t \in req[r].snap :
         /\ live' = live \ {t}
         /\ Become(r, [req[r] EXCEPT !.snap = @ \ {t}])
    /\ UNCHANGED <<account, index, pending, result, pairs, clients>>

DropIndex(r) ==
    /\ At(r, "drop") /\ req[r].snap = {}
    /\ index' = {}
    /\ IF req[r].op = "delete" THEN Goto(r, "deleteRow") ELSE Finish(r)
    /\ UNCHANGED <<account, live, pending, result, pairs, clients>>

DeleteRow(r) ==
    /\ At(r, "deleteRow")
    /\ open' = FALSE
    /\ Finish(r)
    /\ UNCHANGED <<pwd, ver, redis, pairs, clients>>

-----------------------------------------------------------------------------
(* Failures and time *)

(* A Redis call of refresh's try block fails: the catch block restores.  The
   failed call may have had its effect: that is failing one step later. *)
FailInTry(r) ==
    /\ FaultyRedis /\ req[r].op = "refresh"
    /\ req[r].pc \in {"issueKey", "issueIndex", "saveResult", "unindexOld", "clearPending"}
    /\ Goto(r, "restoreKey")
    /\ UNCHANGED <<account, redis, pairs, clients>>

(* The process stops, the response is lost, or a call outside any try block
   fails: the request goes no further and leaves everything as it is. *)
Abort(r) ==
    /\ Aborts /\ ~ At(r, "idle")
    /\ Finish(r)
    /\ UNCHANGED <<account, redis, pairs, clients>>

(* Keys expire: refresh keys after 7 days, markers after 5 s, results after
   10 s.  The index gets an hour more than the newest pair, so it goes when
   no key is left, or, after a restored key, earlier. *)
ExpireKey(t) ==
    /\ t \in live /\ live' = live \ {t}
    /\ UNCHANGED <<account, index, pending, result, pairs, clients, req>>
ExpirePending(t) ==
    /\ t \in pending /\ pending' = pending \ {t}
    /\ UNCHANGED <<account, live, index, result, pairs, clients, req>>
ExpireResult(t) ==
    /\ result[t] # NoToken /\ result' = [result EXCEPT ![t] = NoToken]
    /\ UNCHANGED <<account, live, index, pending, pairs, clients, req>>
ExpireIndex ==
    /\ index # {} /\ (FaultyRedis \/ index \cap live = {})
    /\ index' = {}
    /\ UNCHANGED <<account, live, pending, result, pairs, clients, req>>

-----------------------------------------------------------------------------
(* A step the code takes on its own once a request is in. *)
Step(r) ==
    \/ IssueKey(r) \/ IssueIndex(r)
    \/ Claim(r) \/ ClaimRaw(r) \/ CheckPending(r) \/ Poll(r) \/ CheckUser(r)
    \/ RejectPending(r) \/ RejectIndex(r)
    \/ SaveResult(r) \/ UnindexOld(r) \/ ClearPending(r)
    \/ RestoreKey(r) \/ RestorePending(r) \/ Reply(r)
    \/ LogoutRaw(r) \/ LogoutIndex(r)
    \/ Commit(r) \/ Members(r) \/ DropKey(r) \/ DropIndex(r) \/ DeleteRow(r)

Start(r) ==
    \/ StartLogin(r) \/ StartChange(r) \/ StartDelete(r)
    \/ \E t \in Token : StartRefresh(r, t) \/ StartLogout(r, t)

Expire == ExpireIndex \/ \E t \in Token : ExpireKey(t) \/ ExpirePending(t) \/ ExpireResult(t)

Next == Expire \/ \E r \in Req : Start(r) \/ Step(r) \/ FailInTry(r) \/ Abort(r)

Spec == Init /\ [][Next]_vars

(* A handler that was started runs on: Node schedules every continuation. *)
Fairness == \A r \in Req : WF_vars(Step(r))
FairSpec == Spec /\ Fairness

-----------------------------------------------------------------------------
(* Properties *)

(* jwt.strategy.ts accepts a pair only if the sign-in it descends from proved
   the password the account has now: no rotation that raced a password change,
   and no login that read the old row, carries access past the change. *)
OnlyCurrentCredentialAccepted == \A t \in Token : Accepts(t) => cred[t] = pwd

(* A refresh token is claimed by one request at a time and is not claimable
   while one owns it, whatever fails, expires, logs out or is restored
   (claimRefreshToken, and refresh's catch block). *)
ClaimExclusive ==
    \A t \in Token :
      /\ t \in live => \A r \in Req : ~ Holds(r, t)
      /\ \A r, q \in Req : Holds(r, t) /\ Holds(q, t) => r = q

(* Every answer a client gets to a refresh of t is the same pair, whether it
   came from the rotation, from the cached result or from polling for it, as
   long as Redis does not fail in the middle of a rotation. *)
OneSuccessor == FaultyRedis \/ \A t \in Token : Cardinality(succ[t]) <= 1

(* The account behaves as SessionRegistry promises: every pair issued is worth
   what its parent is worth at that moment, and a password change or deletion
   ends all of them in the one step that writes the row, before any Redis key
   is deleted (auth.service.ts refresh, jwt.strategy.ts validate). *)
Registry == INSTANCE SessionRegistry WITH
                session  <- [t \in Token |-> IF t \in issued THEN root[t] ELSE NoToken],
                accepted <- {t \in Token : Accepts(t)}
ImplementsRegistry == Registry!Spec

(* Every request is answered, again and again: a poller gives up when the request it waits for
   died between the claim and the result. *)
RequestsTerminate == \A r \in Req : []<> At(r, "idle")

(* A refresh that begins after a password change, a deletion or the answered
   logout of its token is rejected (auth.service.spec.ts: "should reject a
   refresh token from a revoked session version"; auth.controller.ts: logout
   invalidates the stored refresh token). *)
RevokedRefreshRejected ==
    \A r \in Req : At(r, "reply") /\ req[r].began # "good" => req[r].new = NoToken
=============================================================================
