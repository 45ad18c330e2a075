--------------------------- MODULE SessionsProofs ---------------------------
(***************************************************************************)
(* What Sessions guarantees for every number of requests, pairs, password  *)
(* changes and poll attempts, with every operation offered, and with       *)
(* aborts and Redis faults allowed.                                        *)
(***************************************************************************)
EXTENDS Sessions, FiniteSetTheorems, TLAPS

RefreshPc == {"claim", "claimRaw", "checkPending", "poll", "checkUser",
              "rejectPending", "rejectClosed", "rejectIndex", "saveResult",
              "unindexOld", "clearPending", "restoreKey", "restorePending"}

(* What a request q has in hand at each step, S being the pairs issued. *)
Fits(q, S) ==
    /\ q \in Request
    /\ q.arg \in S \cup {NoToken} /\ q.new \in S \cup {NoToken}
    /\ q.op \in {"refresh", "logout"} => q.arg \in S
    /\ q.op = "login" => q.arg = NoToken
    /\ q.pc \in RefreshPc => q.op = "refresh"
    /\ q.pc \in {"logoutRaw", "logoutIndex"} => q.op = "logout"
    /\ q.pc \in {"issueKey", "issueIndex", "reply"} => q.op \in {"login", "refresh"}
    /\ q.pc \in {"issueIndex", "saveResult", "unindexOld", "clearPending"} => q.new \in S

(* The type invariant, apart from the requests; results were issued before. *)
Store ==
    /\ open \in BOOLEAN /\ pwd \in Nat /\ ver \in Nat
    /\ live \subseteq issued /\ index \subseteq Token /\ pending \subseteq Token
    /\ result \in [Token -> issued \cup {NoToken}]
    /\ issued \subseteq Token
    /\ sv \in [Token -> Nat]
    /\ root \in [Token -> Token] /\ cred \in [Token -> Nat]
    /\ held \subseteq issued /\ loggedOut \subseteq Token
    /\ succ \in [Token -> SUBSET Token]

Requests == req \in [Req -> Request] /\ \A r \in Req : Fits(req[r], issued)

Inv == Store /\ Requests

LEMMA InvTypeOK == Inv => TypeOK
  BY DEF Inv, Store, Requests, TypeOK

LEMMA IdleRecord ==
  /\ Idle \in Request /\ Idle.arg = NoToken /\ Idle.new = NoToken
  /\ {"issueKey", "commit", "members", "claim", "reply", "logoutIndex", "logoutRaw"} \subseteq Pc
  /\ {"login", "change", "delete", "refresh", "logout"} \subseteq Op
  BY TokenAssumption DEF Idle, Request, Pc, Op, Standing, RefreshPc

LEMMA IdleFits == ASSUME NEW S PROVE Fits(Idle, S)
  BY TokenAssumption DEF Fits, Idle, Request, Pc, Op, Standing, RefreshPc

(* A record stays fit while more pairs are issued. *)
LEMMA FitsGrows ==
  ASSUME NEW q, NEW S, NEW T, S \subseteq T, Fits(q, S)
  PROVE  Fits(q, T)
  BY DEF Fits

(* A step that moves one request to a fit record keeps all of them fit. *)
LEMMA BecomeFits ==
  ASSUME Requests, NEW r \in Req, NEW rec, Become(r, rec),
         Fits(rec, issued'), issued \subseteq issued'
  PROVE  Requests'
  <1>1. rec \in Request
    BY DEF Fits
  <1>2. req' \in [Req -> Request]
    BY <1>1 DEF Requests, Become
  <1>3. ASSUME NEW q \in Req PROVE Fits(req'[q], issued')
    <2>1. CASE q = r
      BY <2>1 DEF Requests, Become
    <2>2. CASE q # r
      BY <2>2, FitsGrows DEF Requests, Become
    <2> QED BY <2>1, <2>2
  <1> QED BY <1>2, <1>3 DEF Requests

(* The same, for the moves the actions are written with. *)
LEMMA GotoFits ==
  ASSUME Requests, NEW r \in Req, NEW c \in Pc, Goto(r, c), issued' = issued,
         c \in RefreshPc => req[r].op = "refresh",
         c \in {"logoutRaw", "logoutIndex"} => req[r].op = "logout",
         c \in {"issueKey", "issueIndex", "reply"} => req[r].op \in {"login", "refresh"},
         c \in {"issueIndex", "saveResult", "unindexOld", "clearPending"} => req[r].new \in issued
  PROVE  Requests'
  <1>1. Fits(req[r], issued)
    BY DEF Requests
  <1>2. Fits([req[r] EXCEPT !.pc = c], issued)
    BY <1>1 DEF Fits, Request
  <1> QED BY <1>2, BecomeFits DEF Goto

LEMMA AnswerFits ==
  ASSUME NEW S, S \subseteq Token, NEW q, Fits(q, S), q.op = "refresh",
         NEW t \in S \cup {NoToken}
  PROVE  Fits([q EXCEPT !.pc = "reply", !.new = t], S)
  <1> DEFINE a == [q EXCEPT !.pc = "reply", !.new = t]
  <1>1. q \in Request /\ t \in Token \cup {NoToken} /\ "reply" \in Pc
    BY DEF Fits, Pc
  <1>2. a \in Request
    BY <1>1 DEF Request
  <1>3. a.pc = "reply" /\ a.new = t /\ a.op = q.op /\ a.arg = q.arg
    BY <1>1 DEF Request
  <1> QED BY <1>2, <1>3 DEF Fits, RefreshPc

LEMMA RejectFits ==
  ASSUME Requests, NEW r \in Req, Reject(r), issued' = issued, req[r].op = "refresh"
  PROVE  Requests'
  <1>1. Fits(req[r], issued)
    BY DEF Requests
  <1> DEFINE a == [req[r] EXCEPT !.pc = "reply", !.new = NoToken]
  <1>2. req[r] \in Request /\ "reply" \in Pc
    BY <1>1 DEF Fits, Pc
  <1>3. a \in Request
    BY <1>2 DEF Request
  <1>4. a.pc = "reply" /\ a.new = NoToken /\ a.op = "refresh" /\ a.arg = req[r].arg
    BY <1>2 DEF Request
  <1>5. Become(r, a)
    BY DEF Reject
  <1> HIDE DEF a
  <1>6. Fits(a, issued)
    BY <1>1, <1>3, <1>4 DEF Fits, RefreshPc
  <1> QED BY <1>5, <1>6, BecomeFits

LEMMA FinishFits ==
  ASSUME Requests, NEW r \in Req, Finish(r), issued' = issued
  PROVE  Requests'
  BY IdleFits, BecomeFits DEF Finish

-----------------------------------------------------------------------------
LEMMA InitInv == Init => Inv
  <1> SUFFICES ASSUME Init PROVE Inv
    OBVIOUS
  <1>1. Store
    BY TokenAssumption DEF Init, Store
  <1>2. Requests
    BY IdleFits DEF Init, Requests, Fits
  <1> QED BY <1>1, <1>2 DEF Inv

LEMMA StartInv == ASSUME Inv, NEW r \in Req, Start(r) PROVE Inv'
  <1> USE DEF Inv
  <1>1. CASE StartLogin(r)
    <2>1. Fits([Idle EXCEPT !.pc = "issueKey", !.op = "login",
                            !.seen = ver, !.proof = pwd], issued)
      <3> DEFINE a == [Idle EXCEPT !.pc = "issueKey", !.op = "login",
                                   !.seen = ver, !.proof = pwd]
      <3>1. ver \in Nat /\ pwd \in Nat
        BY DEF Store
      <3>2. /\ a \in Request /\ a.pc = "issueKey" /\ a.op = "login"
            /\ a.arg = NoToken /\ a.new = NoToken
        BY <3>1, IdleRecord DEF Request
      <3> HIDE DEF a
      <3>3. Fits(a, issued)
        BY <3>2 DEF Fits, RefreshPc
      <3> QED BY <3>3 DEF a
    <2> QED BY <1>1, <2>1, BecomeFits DEF StartLogin, Store, account, redis, pairs, clients
  <1>2. CASE StartChange(r)
    <2>1. Fits([Idle EXCEPT !.pc = "commit", !.op = "change"], issued)
      BY IdleFits DEF Fits, Idle, Request, Pc, Op, RefreshPc
    <2> QED BY <1>2, <2>1, BecomeFits DEF StartChange, Store, account, redis, pairs, clients
  <1>3. CASE StartDelete(r)
    <2>1. Fits([Idle EXCEPT !.pc = "members", !.op = "delete"], issued)
      BY IdleFits DEF Fits, Idle, Request, Pc, Op, RefreshPc
    <2> QED BY <1>3, <2>1, BecomeFits DEF StartDelete, Store, account, redis, pairs, clients
  <1>4. ASSUME NEW t \in Token, StartRefresh(r, t) PROVE Inv'
    <2>1. t \in issued /\ result[t] \in issued \cup {NoToken} /\ StandingOf(t) \in Standing
      BY <1>4 DEF StartRefresh, Store, StandingOf, Standing
    <2>2. ASSUME NEW c \in {"claim", "reply"}
          PROVE  Fits([Idle EXCEPT !.pc = c, !.op = "refresh", !.arg = t,
                                   !.new = result[t], !.began = StandingOf(t)], issued)
      <3> DEFINE g == StandingOf(t)
                 a == [Idle EXCEPT !.pc = c, !.op = "refresh", !.arg = t,
                                   !.new = result[t], !.began = g]
      <3>1. t \in Token /\ result[t] \in Token \cup {NoToken} /\ g \in Standing
        BY <2>1 DEF Store
      <3> HIDE DEF g
      <3>2. a \in Request /\ a.pc = c /\ a.op = "refresh" /\ a.arg = t /\ a.new = result[t]
        BY <2>2, <3>1, IdleRecord DEF Request
      <3> HIDE DEF a
      <3>3. Fits(a, issued)
        BY <2>1, <2>2, <3>2 DEF Fits, RefreshPc
      <3> QED BY <3>3 DEF a, g
    <2>3. Requests'
      BY <1>4, <2>2, BecomeFits DEF StartRefresh, pairs
    <2> QED BY <1>4, <2>3 DEF StartRefresh, Store, account, redis, pairs, clients
  <1>5. ASSUME NEW t \in Token, StartLogout(r, t) PROVE Inv'
    <2>1. t \in issued
      BY <1>5 DEF StartLogout, Store
    <2>2. ASSUME NEW c \in {"logoutIndex", "logoutRaw"}
          PROVE  Fits([Idle EXCEPT !.pc = c, !.op = "logout", !.arg = t], issued)
      <3> DEFINE a == [Idle EXCEPT !.pc = c, !.op = "logout", !.arg = t]
      <3>1. t \in Token
        BY <2>1 DEF Store
      <3>2. a \in Request /\ a.pc = c /\ a.op = "logout" /\ a.arg = t /\ a.new = NoToken
        BY <2>2, <3>1, IdleRecord DEF Request
      <3> HIDE DEF a
      <3>3. Fits(a, issued)
        BY <2>1, <2>2, <3>2 DEF Fits, RefreshPc
      <3> QED BY <3>3 DEF a
    <2>3. Requests'
      BY <1>5, <2>2, BecomeFits DEF StartLogout, pairs
    <2> QED BY <1>5, <2>3 DEF StartLogout, Store, account, redis, pairs, clients
  <1> QED BY <1>1, <1>2, <1>3, <1>4, <1>5 DEF Start

(* The steps that draw or hand over a pair. *)
LEMMA IssueInv ==
  ASSUME Inv, NEW r \in Req, IssueKey(r) \/ IssueIndex(r) \/ SaveResult(r) \/ Reply(r)
  PROVE  Inv'
  <1> USE DEF Inv
  <1>a. Fits(req[r], issued)
    BY DEF Requests
  <1>1. CASE IssueKey(r)
    <2>1. PICK t \in Token \ issued : IssueKey(r)!2!(t)
      BY <1>1 DEF IssueKey
    <2>2. req[r].pc = "issueKey" /\ issued' = issued \cup {t}
      BY <1>1, <2>1 DEF IssueKey, At
    <2>3. Fits([req[r] EXCEPT !.pc = "issueIndex", !.new = t], issued')
      BY <1>a, <2>2 DEF Fits, Request, Pc, RefreshPc
    <2>4. Requests'
      BY <2>1, <2>2, <2>3, BecomeFits
    <2>5. req[r].arg \in Token \cup {NoToken} /\ req[r].seen \in Nat /\ req[r].proof \in Nat
      BY <1>a DEF Fits, Request
    <2>6. root' \in [Token -> Token] /\ cred' \in [Token -> Nat] /\ sv' \in [Token -> Nat]
      BY <2>1, <2>5 DEF Store
    <2>7. /\ live' = live \cup {t}
          /\ UNCHANGED <<account, index, pending, result, clients>>
      BY <1>1, <2>1 DEF IssueKey
    <2> QED BY <2>2, <2>4, <2>6, <2>7 DEF Store, account, clients
  <1>2. CASE IssueIndex(r)
    <2>1. req[r].pc = "issueIndex" /\ req[r].op \in {"login", "refresh"} /\ req[r].new \in issued
      BY <1>a, <1>2 DEF IssueIndex, At, Fits
    <2>2. Requests'
      BY <1>2, <2>1, GotoFits DEF IssueIndex, pairs, Pc, RefreshPc
    <2> QED BY <1>2, <2>1, <2>2 DEF IssueIndex, Store, account, pairs, clients
  <1>3. CASE SaveResult(r)
    <2>1. req[r].op = "refresh" /\ req[r].new \in issued /\ req[r].arg \in issued
      BY <1>a, <1>3 DEF SaveResult, At, Fits, RefreshPc
    <2>2. Requests'
      BY <1>3, <2>1, GotoFits DEF SaveResult, pairs, Pc, RefreshPc
    <2> QED BY <1>3, <2>1, <2>2 DEF SaveResult, Store, account, pairs, clients
  <1>4. CASE Reply(r)
    <2>1. req[r].new \in issued \cup {NoToken} /\ req[r].arg \in Token \cup {NoToken}
      BY <1>a DEF Fits, Request
    <2>2. held' \subseteq issued /\ succ' \in [Token -> SUBSET Token]
      BY <1>4, <2>1 DEF Reply, Store
    <2>3. Requests'
      BY <1>4, FinishFits DEF Reply, pairs
    <2>4. UNCHANGED <<account, redis, pairs, loggedOut>>
      BY <1>4 DEF Reply
    <2> QED BY <2>2, <2>3, <2>4 DEF Store, account, redis, pairs
  <1> QED BY <1>1, <1>2, <1>3, <1>4

(* The steps of a refresh around it: claiming, waiting, checking the row,
   rejecting, cleaning up and restoring. *)
LEMMA RefreshInv ==
  ASSUME Inv, NEW r \in Req,
         \/ Claim(r) \/ ClaimRaw(r) \/ CheckPending(r) \/ Poll(r) \/ CheckUser(r)
         \/ RejectPending(r) \/ RejectIndex(r) \/ UnindexOld(r) \/ ClearPending(r)
         \/ RestoreKey(r) \/ RestorePending(r)
  PROVE  Inv'
  <1> USE DEF Inv
  <1>a. Fits(req[r], issued)
    BY DEF Requests
  <1>b. req[r].op = "refresh" /\ req[r].arg \in issued
    BY <1>a DEF Fits, RefreshPc, At, Claim, ClaimRaw, CheckPending, Poll, CheckUser,
       RejectPending, RejectIndex, UnindexOld, ClearPending, RestoreKey, RestorePending
  <1>1. CASE Claim(r)
    <2>1. Requests'
      BY <1>1, <1>b, GotoFits DEF Claim, ClaimKey, pairs, Pc, RefreshPc
    <2> QED BY <1>1, <1>b, <2>1 DEF Claim, ClaimKey, Store, account, redis, pairs, clients
  <1>2. CASE ClaimRaw(r)
    <2>1. Requests'
      BY <1>2, <1>b, GotoFits DEF ClaimRaw, ClaimKey, pairs, Pc, RefreshPc
    <2> QED BY <1>2, <1>b, <2>1 DEF ClaimRaw, ClaimKey, Store, account, redis, pairs, clients
  <1>3. CASE CheckPending(r)
    <2>1. Requests'
      BY <1>3, <1>b, GotoFits, RejectFits DEF CheckPending, pairs, Pc, RefreshPc
    <2> QED BY <1>3, <1>b, <2>1 DEF CheckPending, Store, account, redis, pairs, clients
  <1>4. CASE Poll(r)
    <2>1. CASE Become(r, [req[r] EXCEPT !.pc = "reply", !.new = result[req[r].arg]])
      <3>1. result[req[r].arg] \in issued \cup {NoToken}
        BY <1>b DEF Store
      <3>2. Fits([req[r] EXCEPT !.pc = "reply", !.new = result[req[r].arg]], issued)
        BY <1>a, <1>b, <3>1, AnswerFits DEF Store
      <3> QED BY <1>4, <2>1, <3>2, BecomeFits DEF Poll, Store, account, redis, pairs, clients
    <2>2. CASE Become(r, [req[r] EXCEPT !.polls = @ + 1])
      <3>1. Fits([req[r] EXCEPT !.polls = @ + 1], issued)
        BY <1>a DEF Fits, Request
      <3> QED BY <1>4, <2>2, <3>1, BecomeFits DEF Poll, Store, account, redis, pairs, clients
    <2>3. CASE Reject(r)
      BY <1>4, <1>b, <2>3, RejectFits DEF Poll, Store, account, redis, pairs, clients
    <2> QED BY <1>4, <2>1, <2>2, <2>3 DEF Poll
  <1>5. CASE CheckUser(r)
    <2>1. CASE Become(r, [req[r] EXCEPT !.pc = "issueKey", !.seen = ver])
      <3>1. Fits([req[r] EXCEPT !.pc = "issueKey", !.seen = ver], issued)
        <4> DEFINE a == [req[r] EXCEPT !.pc = "issueKey", !.seen = ver]
        <4>1. req[r] \in Request /\ ver \in Nat
          BY <1>a DEF Fits, Store
        <4>2. /\ a \in Request /\ a.pc = "issueKey" /\ a.op = req[r].op
              /\ a.arg = req[r].arg /\ a.new = req[r].new
          BY <4>1, IdleRecord DEF Request
        <4> HIDE DEF a
        <4>3. Fits(a, issued)
          BY <1>a, <1>b, <4>2 DEF Fits, RefreshPc
        <4> QED BY <4>3 DEF a
      <3> QED BY <1>5, <2>1, <3>1, BecomeFits DEF CheckUser, Store, account, redis, pairs, clients
    <2>2. CASE Goto(r, IF open THEN "rejectPending" ELSE "rejectClosed")
      <3>1. Requests'
        BY <1>5, <1>b, <2>2, GotoFits DEF CheckUser, pairs, Pc, RefreshPc
      <3> QED BY <1>5, <3>1 DEF CheckUser, Store, account, redis, pairs, clients
    <2> QED BY <1>5, <2>1, <2>2 DEF CheckUser
  <1>6. CASE RejectPending(r)
    <2>1. Requests'
      BY <1>6, <1>b, GotoFits, RejectFits DEF RejectPending, pairs, Pc, RefreshPc
    <2> QED BY <1>6, <1>b, <2>1 DEF RejectPending, Store, account, redis, pairs, clients
  <1>7. CASE RejectIndex(r)
    <2>1. Requests'
      BY <1>7, <1>b, RejectFits DEF RejectIndex, pairs, Pc, RefreshPc
    <2> QED BY <1>7, <1>b, <2>1 DEF RejectIndex, Store, account, redis, pairs, clients
  <1>8. CASE UnindexOld(r)
    <2>1. req[r].new \in issued
      BY <1>8, <1>a DEF UnindexOld, At, Fits
    <2>2. Requests'
      BY <1>8, <1>b, <2>1, GotoFits DEF UnindexOld, pairs, Pc, RefreshPc
    <2> QED BY <1>8, <2>2 DEF UnindexOld, Store, account, pairs, clients
  <1>9. CASE ClearPending(r)
    <2>1. Requests'
      BY <1>9, <1>b, GotoFits DEF ClearPending, pairs, Pc, RefreshPc
    <2> QED BY <1>9, <1>b, <2>1 DEF ClearPending, Store, account, redis, pairs, clients
  <1>10. CASE RestoreKey(r)
    <2>1. Requests'
      BY <1>10, <1>b, GotoFits DEF RestoreKey, pairs, Pc, RefreshPc
    <2> QED BY <1>10, <1>b, <2>1 DEF RestoreKey, Store, account, redis, pairs, clients
  <1>11. CASE RestorePending(r)
    <2>1. Requests'
      BY <1>11, <1>b, RejectFits DEF RestorePending, pairs, Pc, RefreshPc
    <2> QED BY <1>11, <1>b, <2>1 DEF RestorePending, Store, account, redis, pairs, clients
  <1> QED BY <1>1, <1>2, <1>3, <1>4, <1>5, <1>6, <1>7, <1>8, <1>9, <1>10, <1>11

(* Logout, password change, deletion: nothing is issued. *)
LEMMA RevokeInv ==
  ASSUME Inv, NEW r \in Req,
         \/ LogoutRaw(r) \/ LogoutIndex(r) \/ Commit(r) \/ Members(r)
         \/ DropKey(r) \/ DropIndex(r) \/ DeleteRow(r)
  PROVE  Inv'
  <1> USE DEF Inv
  <1>a. Fits(req[r], issued)
    BY DEF Requests
  <1>1. CASE LogoutRaw(r)
    <2>1. req[r].op = "logout" /\ req[r].arg \in issued
      BY <1>1, <1>a DEF LogoutRaw, At, Fits
    <2>2. Requests'
      BY <1>1, <2>1, GotoFits, FinishFits DEF LogoutRaw, AnswerLogout, pairs, Pc, RefreshPc
    <2> QED BY <1>1, <2>1, <2>2 DEF LogoutRaw, AnswerLogout, Store, account, pairs, clients
  <1>2. CASE LogoutIndex(r)
    <2>1. req[r].op = "logout" /\ req[r].arg \in issued
      BY <1>2, <1>a DEF LogoutIndex, At, Fits
    <2>2. Requests'
      BY <1>2, FinishFits DEF LogoutIndex, AnswerLogout, pairs
    <2> QED BY <1>2, <2>1, <2>2 DEF LogoutIndex, AnswerLogout, Store, account, pairs
  <1>3. CASE Commit(r)
    <2>1. Requests'
      BY <1>3, GotoFits, FinishFits DEF Commit, pairs, Pc, RefreshPc
    <2> QED BY <1>3, <2>1 DEF Commit, Store, redis, pairs, clients
  <1>4. CASE Members(r)
    <2>1. Fits([req[r] EXCEPT !.pc = "drop", !.snap = index], issued)
      BY <1>a DEF Fits, Request, Pc, RefreshPc, Store
    <2> QED BY <1>4, <2>1, BecomeFits DEF Members, Store, account, redis, pairs, clients
  <1>5. CASE DropKey(r)
    <2>1. PICK t \in req[r].snap : DropKey(r)!2!(t)
      BY <1>5 DEF DropKey
    <2>2. Fits([req[r] EXCEPT !.snap = @ \ {t}], issued)
      BY <1>a DEF Fits, Request
    <2>3. Requests'
      BY <1>5, <2>1, <2>2, BecomeFits DEF DropKey, pairs
    <2> QED BY <1>5, <2>1, <2>3 DEF DropKey, Store, account, pairs, clients
  <1>6. CASE DropIndex(r)
    <2>1. Requests'
      BY <1>6, GotoFits, FinishFits DEF DropIndex, pairs, Pc, RefreshPc
    <2> QED BY <1>6, <2>1 DEF DropIndex, Store, account, pairs, clients
  <1>7. CASE DeleteRow(r)
    <2>1. Requests'
      BY <1>7, FinishFits DEF DeleteRow, pairs
    <2> QED BY <1>7, <2>1 DEF DeleteRow, Store, redis, pairs, clients
  <1> QED BY <1>1, <1>2, <1>3, <1>4, <1>5, <1>6, <1>7

LEMMA StepInv == ASSUME Inv, NEW r \in Req, Step(r) PROVE Inv'
  BY IssueInv, RefreshInv, RevokeInv DEF Step

LEMMA FailureInv == ASSUME Inv, NEW r \in Req, FailInTry(r) \/ Abort(r) PROVE Inv'
  <1> USE DEF Inv
  <1>1. Requests'
    BY GotoFits, FinishFits DEF FailInTry, Abort, pairs, Pc, RefreshPc
  <1> QED BY <1>1 DEF FailInTry, Abort, Store, account, redis, pairs, clients

LEMMA ExpireInv == ASSUME Inv, Expire PROVE Inv'
  BY DEF Inv, Store, Requests, Expire, ExpireIndex, ExpireKey, ExpirePending,
     ExpireResult, account, pairs, clients

LEMMA NextInv == Inv /\ [Next]_vars => Inv'
  <1> SUFFICES ASSUME Inv, [Next]_vars PROVE Inv'
    OBVIOUS
  <1>1. CASE UNCHANGED vars
    BY <1>1 DEF Inv, Store, Requests, vars, account, redis, pairs, clients
  <1>2. CASE Next
    BY <1>2, StartInv, StepInv, FailureInv, ExpireInv DEF Next
  <1> QED BY <1>1, <1>2

THEOREM InvHolds == Spec => []Inv
  BY InitInv, NextInv, PTL DEF Spec

(* Every reachable state is well typed; in particular a refresh key or a
   delivered pair always belongs to a pair issueTokens has made. *)
THEOREM TypeCorrect == Spec => []TypeOK
  BY InvHolds, InvTypeOK, PTL

-----------------------------------------------------------------------------
(* A request that moves to rec and does not claim owns no more than before. *)
OwnerPc == {"checkUser", "issueKey", "issueIndex", "saveResult", "unindexOld",
            "clearPending", "restoreKey"}

LEMMA KeepsOwners ==
  ASSUME Inv, NEW r \in Req, NEW rec, Become(r, rec),
         rec.op = "refresh" /\ rec.pc \in OwnerPc =>
           req[r].op = "refresh" /\ req[r].pc \in OwnerPc /\ rec.arg = req[r].arg
  PROVE  \A q \in Req, t \in Token : Holds(q, t)' => Holds(q, t)
  BY DEF Inv, Requests, Become, Holds, OwnerPc

LEMMA IdleFields == Idle.pc = "idle" /\ Idle.op = "none"
  BY DEF Idle

LEMMA StartOwners ==
  ASSUME Inv, NEW r \in Req, Start(r)
  PROVE  \A q \in Req, t \in Token : Holds(q, t)' => Holds(q, t)
  BY KeepsOwners DEF Start, StartLogin, StartChange, StartDelete, StartRefresh, StartLogout, Idle, OwnerPc

LEMMA RefreshOwners ==
  ASSUME Inv, NEW r \in Req,
         \/ IssueKey(r) \/ IssueIndex(r) \/ CheckPending(r) \/ Poll(r) \/ CheckUser(r)
         \/ RejectPending(r) \/ RejectIndex(r) \/ SaveResult(r) \/ UnindexOld(r)
         \/ ClearPending(r) \/ RestoreKey(r) \/ RestorePending(r) \/ Reply(r)
         \/ FailInTry(r) \/ Abort(r)
  PROVE  \A q \in Req, t \in Token : Holds(q, t)' => Holds(q, t)
  <1>a. req[r] \in Request
    BY DEF Inv, Requests
  <1>1. CASE \/ IssueKey(r) \/ IssueIndex(r) \/ CheckPending(r) \/ Poll(r) \/ CheckUser(r)
    BY <1>1, <1>a, KeepsOwners DEF IssueKey, IssueIndex, CheckPending, Poll,
       CheckUser, At, Goto, Reject, Request, OwnerPc
  <1>2. CASE \/ RejectPending(r) \/ RejectIndex(r) \/ SaveResult(r) \/ UnindexOld(r)
             \/ ClearPending(r) \/ RestoreKey(r) \/ RestorePending(r) \/ Reply(r)
    BY <1>2, <1>a, KeepsOwners, IdleFields DEF RejectPending, RejectIndex,
       SaveResult, UnindexOld, ClearPending, RestoreKey, RestorePending, Reply,
       At, Goto, Finish, Reject, Request, OwnerPc
  <1>3. CASE FailInTry(r) \/ Abort(r)
    BY <1>3, <1>a, KeepsOwners, IdleFields DEF FailInTry, Abort, At, Goto, Finish,
       Request, OwnerPc
  <1> QED BY <1>1, <1>2, <1>3

LEMMA RevokeOwners ==
  ASSUME Inv, NEW r \in Req,
         \/ LogoutRaw(r) \/ LogoutIndex(r) \/ Commit(r) \/ Members(r)
         \/ DropKey(r) \/ DropIndex(r) \/ DeleteRow(r)
  PROVE  \A q \in Req, t \in Token : Holds(q, t)' => Holds(q, t)
  <1>a. req[r] \in Request
    BY DEF Inv, Requests
  <1> QED BY <1>a, KeepsOwners, IdleFields DEF LogoutRaw, LogoutIndex, AnswerLogout,
          Commit, Members, DropKey, DropIndex, DeleteRow, At, Goto, Finish, Request, OwnerPc

(* Only a claim makes an owner, and it takes the key away in the same step;
   only a restoration brings a key back, and it ends the ownership. *)
LEMMA ClaimExclusiveStep ==
  ASSUME Inv, ClaimExclusive, [Next]_vars
  PROVE  ClaimExclusive'
  <1>1. CASE UNCHANGED vars
    BY <1>1 DEF vars, redis, ClaimExclusive, Holds
  <1>2. ASSUME live' \subseteq live,
               \A q \in Req, t \in Token : Holds(q, t)' => Holds(q, t)
        PROVE  ClaimExclusive'
    BY <1>2 DEF ClaimExclusive
  <1>3. CASE Expire
    <2>1. live' \subseteq live /\ req' = req
      BY <1>3 DEF Expire, ExpireIndex, ExpireKey, ExpirePending, ExpireResult
    <2> QED BY <1>2, <2>1 DEF Holds
  <1>4. ASSUME NEW r \in Req, Start(r) PROVE ClaimExclusive'
    <2>1. live' \subseteq live
      BY <1>4 DEF Start, StartLogin, StartChange, StartDelete, StartRefresh,
         StartLogout, redis
    <2> QED BY <1>2, <1>4, <2>1, StartOwners
  <1>5. ASSUME NEW r \in Req, Claim(r) \/ ClaimRaw(r) PROVE ClaimExclusive'
    <2>1. req[r] \in Request /\ req[r].arg \in Token /\ req[r].pc \in {"claim", "claimRaw"}
      BY <1>5 DEF Inv, Store, Requests, Fits, Claim, ClaimRaw, At, RefreshPc
    <2>2. ASSUME NEW t \in live, t = req[r].arg, live' = live \ {t}, Goto(r, "checkUser")
          PROVE  ClaimExclusive'
      <3>1. \A q \in Req : ~ Holds(q, t)
        BY <2>1, <2>2 DEF ClaimExclusive
      <3>2. \A q \in Req, s \in Token : Holds(q, s)' => Holds(q, s) \/ (q = r /\ s = t)
        BY <2>1, <2>2 DEF Goto, Become, Holds, Inv, Requests, Request
      <3> QED BY <2>2, <3>1, <3>2 DEF ClaimExclusive
    <2>3. ASSUME live' = live, NEW c \in {"claimRaw", "checkPending"}, Goto(r, c)
          PROVE  ClaimExclusive'
      BY <1>2, <2>1, <2>3, KeepsOwners DEF Goto, Request, OwnerPc
    <2> QED BY <1>5, <2>1, <2>2, <2>3 DEF Claim, ClaimRaw, ClaimKey
  <1>6. ASSUME NEW r \in Req, IssueKey(r) PROVE ClaimExclusive'
    <2>1. PICK t \in Token \ issued : live' = live \cup {t}
      BY <1>6 DEF IssueKey
    <2>2. \A q \in Req : ~ Holds(q, t)
      BY <2>1 DEF Holds, Inv, Requests, Fits
    <2> QED BY <1>6, <2>1, <2>2, RefreshOwners DEF ClaimExclusive
  <1>7. ASSUME NEW r \in Req, RestoreKey(r) PROVE ClaimExclusive'
    <2>1. req[r] \in Request /\ Holds(r, req[r].arg) /\ req[r].arg \in Token
      BY <1>7 DEF RestoreKey, At, Holds, Inv, Store, Requests, Fits, RefreshPc
    <2>2. live' = live \cup {req[r].arg} /\ \A t \in Token : ~ Holds(r, t)'
      BY <1>7, <2>1 DEF RestoreKey, Goto, Become, Holds, Inv, Requests, Request
    <2>3. \A q \in Req : Holds(q, req[r].arg) => q = r
      BY <2>1 DEF ClaimExclusive
    <2> QED BY <1>7, <2>1, <2>2, <2>3, RefreshOwners DEF ClaimExclusive
  <1>8. ASSUME NEW r \in Req,
               \/ IssueIndex(r) \/ CheckPending(r) \/ Poll(r) \/ CheckUser(r)
               \/ RejectPending(r) \/ RejectIndex(r) \/ SaveResult(r) \/ UnindexOld(r)
               \/ ClearPending(r) \/ RestorePending(r) \/ Reply(r)
               \/ FailInTry(r) \/ Abort(r)
        PROVE  ClaimExclusive'
    <2>1. live' \subseteq live
      BY <1>8 DEF IssueIndex, CheckPending, Poll, CheckUser, RejectPending,
         RejectIndex, SaveResult, UnindexOld, ClearPending, RestorePending, Reply,
         FailInTry, Abort, redis
    <2> QED BY <1>2, <1>8, <2>1, RefreshOwners
  <1>9. ASSUME NEW r \in Req,
               \/ LogoutRaw(r) \/ LogoutIndex(r) \/ Commit(r) \/ Members(r)
               \/ DropKey(r) \/ DropIndex(r) \/ DeleteRow(r)
        PROVE  ClaimExclusive'
    <2>1. live' \subseteq live
      BY <1>9 DEF LogoutRaw, LogoutIndex, Commit, Members, DropKey, DropIndex,
         DeleteRow, redis
    <2> QED BY <1>2, <1>9, <2>1, RevokeOwners
  <1> QED BY <1>1, <1>3, <1>4, <1>5, <1>6, <1>7, <1>8, <1>9 DEF Next, Step

(* At most one request owns a refresh token, and while one does its key is
   gone: for every number of requests, with Redis faults and aborts. *)
THEOREM ClaimExclusiveHolds == Spec => []ClaimExclusive
  <1>1. Init => ClaimExclusive
    BY IdleFields DEF Init, ClaimExclusive, Holds
  <1> QED BY <1>1, ClaimExclusiveStep, InvHolds, PTL DEF Spec

-----------------------------------------------------------------------------
(* The pairs that a client got, or may still get, for a refresh of t. *)
Answers(t, x) ==
    \/ x \in succ[t] \/ result[t] = x
    \/ \E q \in Req : req[q].op = "refresh" /\ req[q].arg = t /\ req[q].new = x

(* q has claimed t and not drawn the pair that replaces it. *)
Claimed(q, t) == q.op = "refresh" /\ q.arg = t /\ q.pc \in {"checkUser", "issueKey"}

(* There is one of them, and none before the one claim of t drew it; without
   a fault nothing puts a claimed key back. *)
Single ==
    /\ \A t, x, y \in Token : Answers(t, x) /\ Answers(t, y) => x = y
    /\ \A t \in Token : (t \in live \/ t \notin issued \/ \E q \in Req : Claimed(req[q], t)) =>
                          \A x \in Token : ~ Answers(t, x)
    /\ \A r \in Req : req[r].pc # "restoreKey"

LEMMA SingleKept ==
  ASSUME Single, live' \subseteq live, issued' = issued,
         \A t, x \in Token : Answers(t, x)' => Answers(t, x),
         \A q \in Req, t \in Token : Claimed(req[q], t)' => Claimed(req[q], t),
         \A q \in Req : req'[q].pc # "restoreKey"
  PROVE  Single'
  BY DEF Single

(* A step of one request that draws nothing and claims nothing. *)
LEMMA RecordSingle ==
  ASSUME Inv, Single, NEW r \in Req, NEW rec \in Request, Become(r, rec),
         live' \subseteq live, issued' = issued,
         \A t, x \in Token : x \in succ'[t] \/ result'[t] = x => Answers(t, x),
         rec.op = "refresh" /\ rec.arg \in Token /\ rec.new \in Token
           => Answers(rec.arg, rec.new),
         \A t \in Token : Claimed(rec, t) => Claimed(req[r], t),
         rec.pc # "restoreKey"
  PROVE  Single'
  <1>1. req'[r] = rec /\ \A q \in Req \ {r} : req'[q] = req[q]
    BY DEF Become, Inv, Requests
  <1>2. \A t, x \in Token : Answers(t, x)' => Answers(t, x)
    BY <1>1 DEF Answers
  <1>3. \A q \in Req, t \in Token : Claimed(req[q], t)' => Claimed(req[q], t)
    BY <1>1 DEF Claimed
  <1>4. \A q \in Req : req'[q].pc # "restoreKey"
    BY <1>1 DEF Single
  <1> QED BY <1>2, <1>3, <1>4, SingleKept

(* In particular one that leaves its token and its pair as they are. *)
LEMMA MoveSingle ==
  ASSUME Inv, Single, NEW r \in Req, NEW rec \in Request, Become(r, rec),
         live' \subseteq live, issued' = issued,
         \A t, x \in Token : x \in succ'[t] \/ result'[t] = x => Answers(t, x),
         \/ rec.op # "refresh" \/ rec.new = NoToken
         \/ req[r].op = "refresh" /\ rec.arg = req[r].arg /\ rec.new = req[r].new,
         \/ rec.op # "refresh" \/ rec.pc \notin {"checkUser", "issueKey"}
         \/ req[r].pc = "checkUser" /\ req[r].op = "refresh" /\ rec.arg = req[r].arg,
         rec.pc # "restoreKey"
  PROVE  Single'
  <1>1. rec.op = "refresh" /\ rec.arg \in Token /\ rec.new \in Token
          => Answers(rec.arg, rec.new)
    BY TokenAssumption DEF Answers
  <1>2. \A t \in Token : Claimed(rec, t) => Claimed(req[r], t)
    BY DEF Claimed
  <1> QED BY <1>1, <1>2, RecordSingle

LEMMA SameAnswers ==
  ASSUME succ' = succ, result' = result
  PROVE  \A t, x \in Token : x \in succ'[t] \/ result'[t] = x => Answers(t, x)
  BY DEF Answers

LEMMA StartSingle ==
  ASSUME Inv, Single, NEW r \in Req, Start(r)
  PROVE  Single'
  <1>1. CASE StartLogin(r) \/ StartChange(r) \/ StartDelete(r)
    <2>1. PICK rec \in Request : Become(r, rec) /\ rec.op # "refresh" /\ rec.pc # "restoreKey"
      <3>1. CASE StartLogin(r)
        <4> DEFINE a == [Idle EXCEPT !.pc = "issueKey", !.op = "login",
                                     !.seen = ver, !.proof = pwd]
        <4>1. a \in Request /\ a.op = "login" /\ a.pc = "issueKey"
          BY IdleRecord DEF Inv, Store, Request
        <4>2. Become(r, a)
          BY <3>1 DEF StartLogin
        <4> HIDE DEF a
        <4> QED BY <4>1, <4>2
      <3>2. CASE StartChange(r)
        <4> DEFINE a == [Idle EXCEPT !.pc = "commit", !.op = "change"]
        <4>1. a \in Request /\ a.op = "change" /\ a.pc = "commit"
          BY IdleRecord DEF Request
        <4>2. Become(r, a)
          BY <3>2 DEF StartChange
        <4> HIDE DEF a
        <4> QED BY <4>1, <4>2
      <3>3. CASE StartDelete(r)
        <4> DEFINE a == [Idle EXCEPT !.pc = "members", !.op = "delete"]
        <4>1. a \in Request /\ a.op = "delete" /\ a.pc = "members"
          BY IdleRecord DEF Request
        <4>2. Become(r, a)
          BY <3>3 DEF StartDelete
        <4> HIDE DEF a
        <4> QED BY <4>1, <4>2
      <3> QED BY <1>1, <3>1, <3>2, <3>3
    <2>2. UNCHANGED <<live, issued, succ, result>>
      BY <1>1 DEF StartLogin, StartChange, StartDelete, redis, pairs, clients
    <2> QED BY <2>1, <2>2, MoveSingle, SameAnswers
  <1>2. ASSUME NEW t \in Token, StartRefresh(r, t) PROVE Single'
    <2> DEFINE c == IF result[t] = NoToken THEN "claim" ELSE "reply"
               g == StandingOf(t)
               a == [Idle EXCEPT !.pc = c, !.op = "refresh", !.arg = t,
                                 !.new = result[t], !.began = g]
    <2>1. g \in Standing /\ result[t] \in Token \cup {NoToken} /\ c \in {"claim", "reply"}
      BY DEF Standing, StandingOf, Inv, Store
    <2>2. Become(r, a) /\ UNCHANGED <<live, issued, succ, result>>
      BY <1>2 DEF StartRefresh, redis, pairs, clients
    <2> HIDE DEF c, g
    <2>3. a \in Request /\ a.pc = c /\ a.op = "refresh" /\ a.arg = t /\ a.new = result[t]
      BY <2>1, IdleRecord DEF Request
    <2> HIDE DEF a
    <2>4. Answers(a.arg, a.new)
      BY <2>3 DEF Answers
    <2>5. \A s \in Token : ~ Claimed(a, s)
      BY <2>1, <2>3 DEF Claimed
    <2>6. a.pc # "restoreKey"
      BY <2>1, <2>3
    <2> QED BY <2>2, <2>3, <2>4, <2>5, <2>6, RecordSingle, SameAnswers
  <1>3. ASSUME NEW t \in Token, StartLogout(r, t) PROVE Single'
    <2> DEFINE c == IF t \in live \ Legacy THEN "logoutIndex" ELSE "logoutRaw"
               a == [Idle EXCEPT !.pc = c, !.op = "logout", !.arg = t]
    <2>1. c \in {"logoutIndex", "logoutRaw"}
      OBVIOUS
    <2>2. Become(r, a) /\ UNCHANGED <<issued, succ, result>> /\ live' \subseteq live
      BY <1>3 DEF StartLogout, pairs, clients
    <2> HIDE DEF c
    <2>3. a \in Request /\ a.pc = c /\ a.op = "logout"
      BY <2>1, IdleRecord DEF Request
    <2> HIDE DEF a
    <2>4. a.op # "refresh" /\ a.pc # "restoreKey"
      BY <2>1, <2>3
    <2> QED BY <2>2, <2>3, <2>4, MoveSingle, SameAnswers
  <1> QED BY <1>1, <1>2, <1>3 DEF Start

(* The claim of t: nobody has an answer for it yet. *)
LEMMA ClaimSingle ==
  ASSUME Inv, Single, NEW r \in Req, Claim(r) \/ ClaimRaw(r)
  PROVE  Single'
  <1>1. /\ req[r] \in Request /\ req[r].op = "refresh" /\ req[r].arg \in issued
        /\ UNCHANGED <<issued, succ, result>>
    BY DEF Inv, Requests, Fits, RefreshPc, Claim, ClaimRaw, ClaimKey, At, pairs, clients
  <1>2. issued \subseteq Token
    BY DEF Inv, Store
  <1>3. ASSUME NEW c \in {"claimRaw", "checkPending"}, Goto(r, c), live' = live
        PROVE  Single'
    <2> DEFINE a == [req[r] EXCEPT !.pc = c]
    <2>1. /\ a \in Request /\ a.pc = c /\ a.op = req[r].op /\ a.arg = req[r].arg
          /\ a.new = req[r].new
      BY <1>1 DEF Request, Pc
    <2>2. Become(r, a)
      BY <1>3 DEF Goto
    <2> HIDE DEF a
    <2> QED BY <1>1, <1>3, <2>1, <2>2, MoveSingle, SameAnswers
  <1>4. ASSUME req[r].arg \in live, live' = live \ {req[r].arg}, Goto(r, "checkUser")
        PROVE  Single'
    <2> DEFINE t == req[r].arg
               a == [req[r] EXCEPT !.pc = "checkUser"]
    <2>1. a.pc = "checkUser" /\ a.op = "refresh" /\ a.arg = t /\ a.new = req[r].new
      BY <1>1 DEF Request
    <2>2. req'[r] = a /\ \A q \in Req \ {r} : req'[q] = req[q]
      BY <1>4 DEF Goto, Become, Inv, Requests
    <2> HIDE DEF a
    <2>3. \A s, x \in Token : Answers(s, x)' => Answers(s, x)
      BY <1>1, <2>1, <2>2 DEF Answers
    <2>4. \A q \in Req, s \in Token : Claimed(req[q], s)' => Claimed(req[q], s) \/ s = t
      BY <2>1, <2>2 DEF Claimed
    <2>5. \A q \in Req : req'[q].pc # "restoreKey"
      BY <2>1, <2>2 DEF Single
    <2>6. \A x \in Token : ~ Answers(t, x)
      BY <1>1, <1>2, <1>4 DEF Single
    <2> QED BY <1>1, <1>2, <1>4, <2>3, <2>4, <2>5, <2>6 DEF Single
  <1> QED BY <1>1, <1>3, <1>4 DEF Claim, ClaimRaw, ClaimKey

(* The one pair drawn for t: its claim is over, and no other request has one. *)
LEMMA IssueSingle ==
  ASSUME Inv, Single, ClaimExclusive, NEW r \in Req, IssueKey(r)
  PROVE  Single'
  <1>1. PICK t \in Token \ issued :
          /\ issued' = issued \cup {t} /\ live' = live \cup {t}
          /\ Become(r, [req[r] EXCEPT !.pc = "issueIndex", !.new = t])
    BY DEF IssueKey
  <1>2. req[r].pc = "issueKey" /\ succ' = succ /\ result' = result
    BY DEF IssueKey, At, clients
  <1>3. /\ req[r] \in Request /\ req[r].op \in {"login", "refresh"}
        /\ req[r].op = "refresh" => req[r].arg \in issued
    BY <1>2 DEF Inv, Requests, Fits
  <1>i. issued \subseteq Token
    BY DEF Inv, Store
  <1> DEFINE a == [req[r] EXCEPT !.pc = "issueIndex", !.new = t]
  <1>4. a.pc = "issueIndex" /\ a.op = req[r].op /\ a.arg = req[r].arg /\ a.new = t
    BY <1>3 DEF Request
  <1>5. req'[r] = a /\ \A q \in Req \ {r} : req'[q] = req[q]
    BY <1>1 DEF Become, Inv, Requests
  <1> HIDE DEF a
  <1>6. \A s, x \in Token :
          Answers(s, x)' => Answers(s, x) \/ (req[r].op = "refresh" /\ s = req[r].arg /\ x = t)
    BY <1>2, <1>4, <1>5 DEF Answers
  <1>7. \A q \in Req, s \in Token : Claimed(req[q], s)' => q # r /\ Claimed(req[q], s)
    BY <1>4, <1>5 DEF Claimed
  <1>8. req[r].op = "refresh" =>
          /\ \A x \in Token : ~ Answers(req[r].arg, x)
          /\ \A q \in Req \ {r} : ~ Claimed(req[q], req[r].arg)
          /\ req[r].arg \notin live
    <2>1. req[r].op = "refresh" => Claimed(req[r], req[r].arg) /\ Holds(r, req[r].arg)
      BY <1>2 DEF Claimed, Holds
    <2>2. \A q \in Req, s \in Token : Claimed(req[q], s) => Holds(q, s)
      BY DEF Claimed, Holds
    <2>3. req[r].op = "refresh" => req[r].arg \in Token
      BY <1>3, <1>i
    <2> QED BY <2>1, <2>2, <2>3 DEF Single, ClaimExclusive
  <1>9. \A q \in Req : req'[q].pc # "restoreKey"
    BY <1>4, <1>5 DEF Single
  <1>10. \A s, x, y \in Token : Answers(s, x)' /\ Answers(s, y)' => x = y
    BY <1>6, <1>8 DEF Single
  <1>11. ASSUME NEW s \in Token,
                s \in live' \/ s \notin issued' \/ \E q \in Req : Claimed(req[q], s)'
         PROVE  \A x \in Token : ~ Answers(s, x)'
    <2>1. \A x \in Token : ~ Answers(s, x)
      BY <1>1, <1>7, <1>11 DEF Single
    <2>2. ~ (req[r].op = "refresh" /\ s = req[r].arg)
      BY <1>1, <1>3, <1>7, <1>8, <1>11
    <2> QED BY <1>6, <2>1, <2>2
  <1> QED BY <1>9, <1>10, <1>11 DEF Single

(* A move within a refresh that keeps its pair, or a rejection, which has none. *)
LEMMA GotoSingle ==
  ASSUME Inv, Single, NEW r \in Req, NEW c \in Pc, Goto(r, c),
         live' \subseteq live, issued' = issued,
         \A t, x \in Token : x \in succ'[t] \/ result'[t] = x => Answers(t, x),
         c \notin {"checkUser", "issueKey", "restoreKey"}
  PROVE  Single'
  <1> DEFINE a == [req[r] EXCEPT !.pc = c]
  <1>1. req[r] \in Request
    BY DEF Inv, Requests
  <1>2. /\ a \in Request /\ a.pc = c /\ a.op = req[r].op /\ a.arg = req[r].arg
        /\ a.new = req[r].new
    BY <1>1 DEF Request
  <1>3. Become(r, a)
    BY DEF Goto
  <1> HIDE DEF a
  <1> QED BY <1>2, <1>3, MoveSingle

LEMMA AnswerSingle ==
  ASSUME Inv, Single, NEW r \in Req, req[r].op = "refresh",
         NEW x \in {NoToken, result[req[r].arg]},
         Become(r, [req[r] EXCEPT !.pc = "reply", !.new = x]),
         live' \subseteq live, UNCHANGED <<issued, succ, result>>
  PROVE  Single'
  <1> DEFINE a == [req[r] EXCEPT !.pc = "reply", !.new = x]
  <1>1. req[r] \in Request /\ req[r].arg \in Token /\ x \in Token \cup {NoToken}
    BY DEF Inv, Requests, Store, Fits
  <1>2. /\ a \in Request /\ a.pc = "reply" /\ a.op = "refresh" /\ a.arg = req[r].arg
        /\ a.new = x
    BY <1>1, IdleRecord DEF Request
  <1> HIDE DEF a
  <1>3. a.arg \in Token /\ a.new \in Token => Answers(a.arg, a.new)
    BY <1>2, TokenAssumption DEF Answers
  <1>4. \A t \in Token : ~ Claimed(a, t)
    BY <1>2 DEF Claimed
  <1> QED BY <1>2, <1>3, <1>4, RecordSingle, SameAnswers DEF a

LEMMA FinishSingle ==
  ASSUME Inv, Single, NEW r \in Req, Finish(r), live' \subseteq live, issued' = issued,
         \A t, x \in Token : x \in succ'[t] \/ result'[t] = x => Answers(t, x)
  PROVE  Single'
  BY IdleRecord, IdleFields, MoveSingle DEF Finish

LEMMA RefreshSingle ==
  ASSUME ~ FaultyRedis, Inv, Single, NEW r \in Req,
         \/ IssueIndex(r) \/ CheckPending(r) \/ Poll(r) \/ CheckUser(r)
         \/ RejectPending(r) \/ RejectIndex(r) \/ SaveResult(r) \/ UnindexOld(r)
         \/ ClearPending(r) \/ RestoreKey(r) \/ RestorePending(r) \/ Reply(r)
         \/ FailInTry(r) \/ Abort(r)
  PROVE  Single'
  <1>r. req[r] \in Request /\ Fits(req[r], issued)
    BY DEF Inv, Requests
  <1>1. CASE IssueIndex(r) \/ UnindexOld(r) \/ ClearPending(r)
    <2>1. UNCHANGED <<live, issued, succ, result>>
      BY <1>1 DEF IssueIndex, UnindexOld, ClearPending, pairs, clients
    <2>2. \E c \in {"reply", "saveResult", "clearPending"} : Goto(r, c)
      BY <1>1 DEF IssueIndex, UnindexOld, ClearPending
    <2> QED BY <2>1, <2>2, GotoSingle, SameAnswers DEF Pc
  <1>2. CASE CheckPending(r) \/ RejectPending(r) \/ RejectIndex(r) \/ RestorePending(r)
    <2>1. UNCHANGED <<live, issued, succ, result>> /\ req[r].op = "refresh"
      BY <1>2, <1>r DEF CheckPending, RejectPending, RejectIndex, RestorePending, redis, pairs,
         clients, At, Fits, RefreshPc
    <2>2. Reject(r) \/ \E c \in {"poll", "rejectIndex"} : Goto(r, c)
      BY <1>2 DEF CheckPending, RejectPending, RejectIndex, RestorePending
    <2>3. ASSUME Reject(r) PROVE Single'
      BY <2>1, <2>3, AnswerSingle DEF Reject
    <2> QED BY <2>1, <2>2, <2>3, GotoSingle, SameAnswers DEF Pc
  <1>3. CASE Poll(r)
    <2>1. UNCHANGED <<live, issued, succ, result>> /\ req[r].op = "refresh" /\ req[r].pc = "poll"
      BY <1>3, <1>r DEF Poll, redis, pairs, clients, At, Fits, RefreshPc
    <2>2. CASE Become(r, [req[r] EXCEPT !.pc = "reply", !.new = result[req[r].arg]])
      BY <2>1, <2>2, AnswerSingle
    <2>3. CASE Become(r, [req[r] EXCEPT !.polls = @ + 1])
      <3> DEFINE a == [req[r] EXCEPT !.polls = @ + 1]
      <3>1. /\ a \in Request /\ a.pc = "poll" /\ a.op = req[r].op /\ a.arg = req[r].arg
            /\ a.new = req[r].new
        BY <1>r, <2>1 DEF Request
      <3>2. Become(r, a)
        BY <2>3
      <3> HIDE DEF a
      <3> QED BY <2>1, <3>1, <3>2, MoveSingle, SameAnswers
    <2>4. CASE Reject(r)
      BY <2>1, <2>4, AnswerSingle DEF Reject
    <2> QED BY <1>3, <2>2, <2>3, <2>4 DEF Poll
  <1>4. CASE CheckUser(r)
    <2>1. /\ UNCHANGED <<live, issued, succ, result>> /\ req[r].op = "refresh"
          /\ req[r].pc = "checkUser"
      BY <1>4, <1>r DEF CheckUser, redis, pairs, clients, At, Fits, RefreshPc
    <2>2. CASE Become(r, [req[r] EXCEPT !.pc = "issueKey", !.seen = ver])
      <3> DEFINE a == [req[r] EXCEPT !.pc = "issueKey", !.seen = ver]
      <3>1. ver \in Nat
        BY DEF Inv, Store
      <3>2. /\ a \in Request /\ a.pc = "issueKey" /\ a.op = req[r].op
            /\ a.arg = req[r].arg /\ a.new = req[r].new
        BY <1>r, <3>1, IdleRecord DEF Request
      <3>3. Become(r, a)
        BY <2>2
      <3> HIDE DEF a
      <3> QED BY <2>1, <3>2, <3>3, MoveSingle, SameAnswers
    <2>3. CASE \E c \in {"rejectPending", "rejectClosed"} : Goto(r, c)
      BY <2>1, <2>3, GotoSingle, SameAnswers DEF Pc
    <2> QED BY <1>4, <2>2, <2>3 DEF CheckUser
  <1>5. CASE SaveResult(r)
    <2>1. req[r].pc = "saveResult" /\ req[r].op = "refresh" /\ req[r].arg \in Token
      BY <1>5, <1>r DEF SaveResult, At, Fits, RefreshPc, Inv, Store
    <2>2. /\ UNCHANGED <<live, issued, succ>> /\ Goto(r, "unindexOld")
          /\ result' = [result EXCEPT ![req[r].arg] = req[r].new]
      BY <1>5 DEF SaveResult, pairs, clients
    <2>3. \A t, x \in Token : x \in succ'[t] \/ result'[t] = x => Answers(t, x)
      BY <2>1, <2>2 DEF Answers, Inv, Store
    <2> QED BY <2>2, <2>3, GotoSingle DEF Pc
  <1>6. CASE Reply(r)
    <2>1. /\ UNCHANGED <<live, issued, result>> /\ Finish(r)
          /\ req[r].pc = "reply" /\ req[r].op \in {"login", "refresh"}
      BY <1>6, <1>r DEF Reply, redis, pairs, At, Fits
    <2>2. \/ succ' = succ
          \/ /\ req[r].op = "refresh"
             /\ succ' = [succ EXCEPT ![req[r].arg] = @ \cup {req[r].new}]
      BY <1>6, <2>1 DEF Reply
    <2>3. \A t, x \in Token : x \in succ'[t] \/ result'[t] = x => Answers(t, x)
      BY <2>1, <2>2 DEF Answers, Inv, Store
    <2> QED BY <2>1, <2>3, FinishSingle
  <1>7. CASE RestoreKey(r) \/ FailInTry(r)
    BY <1>7 DEF RestoreKey, FailInTry, Single, At
  <1>8. CASE Abort(r)
    BY <1>8, FinishSingle, SameAnswers DEF Abort, redis, pairs, clients
  <1> QED BY <1>1, <1>2, <1>3, <1>4, <1>5, <1>6, <1>7, <1>8

LEMMA RevokeSingle ==
  ASSUME Inv, Single, NEW r \in Req,
         \/ LogoutRaw(r) \/ LogoutIndex(r) \/ Commit(r) \/ Members(r)
         \/ DropKey(r) \/ DropIndex(r) \/ DeleteRow(r)
  PROVE  Single'
  <1>1. live' \subseteq live /\ UNCHANGED <<issued, succ, result>>
    BY DEF LogoutRaw, LogoutIndex, AnswerLogout, Commit, Members, DropKey, DropIndex, DeleteRow,
       redis, pairs, clients
  <1>2. CASE LogoutRaw(r) \/ LogoutIndex(r) \/ Commit(r) \/ DropIndex(r) \/ DeleteRow(r)
    <2>1. Finish(r) \/ \E c \in {"logoutIndex", "members", "deleteRow"} : Goto(r, c)
      BY <1>2 DEF LogoutRaw, LogoutIndex, AnswerLogout, Commit, DropIndex, DeleteRow
    <2> QED BY <1>1, <2>1, FinishSingle, GotoSingle, SameAnswers DEF Pc
  <1>3. CASE Members(r) \/ DropKey(r)
    <2>1. PICK S \in SUBSET Token : Become(r, [req[r] EXCEPT !.pc = "drop", !.snap = S])
      <3>1. req[r] \in Request /\ index \in SUBSET Token
        BY DEF Inv, Requests, Store
      <3>2. CASE Members(r)
        BY <3>1, <3>2 DEF Members
      <3>3. CASE DropKey(r)
        <4>1. PICK t \in req[r].snap : Become(r, [req[r] EXCEPT !.snap = @ \ {t}])
          BY <3>3 DEF DropKey
        <4>2. [req[r] EXCEPT !.snap = @ \ {t}] = [req[r] EXCEPT !.pc = "drop", !.snap = @ \ {t}]
          BY <3>1, <3>3 DEF DropKey, At, Request
        <4> QED BY <3>1, <4>1, <4>2 DEF Request
      <3> QED BY <1>3, <3>2, <3>3
    <2> DEFINE a == [req[r] EXCEPT !.pc = "drop", !.snap = S]
    <2>2. /\ a \in Request /\ a.pc = "drop" /\ a.op = req[r].op /\ a.arg = req[r].arg
          /\ a.new = req[r].new
      <3>1. req[r] \in Request /\ "drop" \in Pc
        BY DEF Inv, Requests, Pc
      <3> QED BY <3>1 DEF Request
    <2>3. Become(r, a)
      BY <2>1
    <2> HIDE DEF a
    <2> QED BY <1>1, <2>2, <2>3, MoveSingle, SameAnswers
  <1> QED BY <1>2, <1>3

LEMMA SingleStep ==
  ASSUME ~ FaultyRedis, Inv, Single, ClaimExclusive, [Next]_vars
  PROVE  Single'
  <1>1. CASE UNCHANGED vars \/ Expire
    <2>1. /\ live' \subseteq live /\ UNCHANGED <<issued, succ, req>>
          /\ \A t \in Token : result'[t] \in {result[t], NoToken}
      BY <1>1 DEF vars, redis, pairs, clients, Expire, ExpireIndex, ExpireKey, ExpirePending,
         ExpireResult, Inv, Store
    <2>2. \A t, x \in Token : Answers(t, x)' => Answers(t, x)
      BY <2>1, TokenAssumption DEF Answers
    <2> QED BY <2>1, <2>2, SingleKept DEF Claimed, Single
  <1> QED BY <1>1, StartSingle, ClaimSingle, IssueSingle, RefreshSingle, RevokeSingle
          DEF Next, Step

(* Every answer to a refresh of one token is the same pair, for any number of
   requests, retries, pollers, logouts and aborts, while Redis does not fail
   within a rotation. *)
THEOREM OneSuccessorHolds == Spec => []OneSuccessor
  <1>1. Init => Single
    BY TokenAssumption, IdleFields, IdleRecord DEF Init, Single, Answers, Claimed
  <1>2. CASE FaultyRedis
    BY <1>2, PTL DEF OneSuccessor
  <1>3. CASE ~ FaultyRedis
    <2>1. Inv /\ Single /\ ClaimExclusive /\ [Next]_vars => Single'
      BY <1>3, SingleStep
    <2>2. Inv /\ Single => OneSuccessor
      <3> SUFFICES ASSUME Inv, Single, NEW t \in Token PROVE Cardinality(succ[t]) <= 1
        BY DEF OneSuccessor
      <3>1. succ[t] \subseteq Token
        BY DEF Inv, Store
      <3>2. \A x, y \in succ[t] : x = y
        BY <3>1 DEF Single, Answers
      <3>3. CASE succ[t] = {}
        BY <3>3, FS_EmptySet
      <3>4. ASSUME NEW x \in succ[t] PROVE Cardinality(succ[t]) <= 1
        <4>1. succ[t] = {x}
          BY <3>2, <3>4
        <4>2. Cardinality(succ[t]) = 1
          BY <4>1, FS_Singleton
        <4> QED BY <4>2
      <3> QED BY <3>3, <3>4
    <2>3. Spec => []Single
      BY <1>1, <2>1, InvHolds, ClaimExclusiveHolds, PTL DEF Spec
    <2> QED BY <2>2, <2>3, InvHolds, PTL
  <1> QED BY <1>2, <1>3

-----------------------------------------------------------------------------
(* A pair carries the version of the password its sign-in proved, and so does
   a request about to issue one; no version is ahead of the row's. *)
Earned(q) ==
    q.pc = "issueKey" =>
      /\ q.seen <= ver
      /\ IF q.arg = NoToken THEN q.proof = q.seen ELSE q.seen = sv[q.arg]

Cred ==
    /\ ver = pwd
    /\ \A t \in issued : cred[t] = sv[t] /\ sv[t] <= ver
    /\ \A r \in Req : Earned(req[r])

LEMMA CredCurrent == Cred => OnlyCurrentCredentialAccepted
  BY DEF Cred, OnlyCurrentCredentialAccepted, Accepts

(* A step that issues nothing, leaves the row alone and brings no request to
   issueKey keeps Cred. *)
LEMMA CredKept ==
  ASSUME Inv, Cred, UNCHANGED <<pwd, ver>>, UNCHANGED pairs, NEW r \in Req,
         NEW rec, Become(r, rec), rec.pc # "issueKey"
  PROVE  Cred'
  <1>1. \A q \in Req : Earned(req[q])'
    BY DEF Inv, Requests, Become, Cred, Earned, pairs
  <1> QED BY <1>1 DEF Cred, pairs

LEMMA CredRefresh ==
  ASSUME Inv, Cred, NEW r \in Req,
         \/ IssueIndex(r) \/ Claim(r) \/ ClaimRaw(r) \/ CheckPending(r) \/ Poll(r)
         \/ RejectPending(r) \/ RejectIndex(r) \/ SaveResult(r) \/ UnindexOld(r)
         \/ ClearPending(r) \/ RestoreKey(r) \/ RestorePending(r) \/ Reply(r)
         \/ FailInTry(r) \/ Abort(r)
  PROVE  Cred'
  <1>a. req[r] \in Request
    BY DEF Inv, Requests
  <1>1. CASE \/ IssueIndex(r) \/ Claim(r) \/ ClaimRaw(r) \/ CheckPending(r) \/ Poll(r)
    BY <1>1, <1>a, CredKept DEF IssueIndex, Claim, ClaimRaw, ClaimKey, CheckPending,
       Poll, At, Goto, Reject, Request, account
  <1>2. CASE \/ RejectPending(r) \/ RejectIndex(r) \/ SaveResult(r) \/ UnindexOld(r)
             \/ ClearPending(r) \/ RestoreKey(r) \/ RestorePending(r) \/ Reply(r)
    BY <1>2, <1>a, CredKept, IdleFields DEF RejectPending, RejectIndex, SaveResult,
       UnindexOld, ClearPending, RestoreKey, RestorePending, Reply, Goto, Finish,
       Reject, Request, account
  <1>3. CASE FailInTry(r) \/ Abort(r)
    BY <1>3, <1>a, CredKept, IdleFields DEF FailInTry, Abort, Goto, Finish, Request, account
  <1> QED BY <1>1, <1>2, <1>3

LEMMA CredRevoke ==
  ASSUME Inv, Cred, NEW r \in Req,
         \/ LogoutRaw(r) \/ LogoutIndex(r) \/ Members(r) \/ DropKey(r)
         \/ DropIndex(r) \/ DeleteRow(r) \/ StartChange(r) \/ StartDelete(r)
         \/ \E t \in Token : StartRefresh(r, t) \/ StartLogout(r, t)
  PROVE  Cred'
  <1>a. req[r] \in Request
    BY DEF Inv, Requests
  <1>1. CASE \/ LogoutRaw(r) \/ LogoutIndex(r) \/ Members(r) \/ DropKey(r)
             \/ DropIndex(r) \/ DeleteRow(r)
    BY <1>1, <1>a, CredKept, IdleFields DEF LogoutRaw, LogoutIndex, AnswerLogout,
       Members, DropKey, DropIndex, DeleteRow, At, Goto, Finish, Request, account
  <1>2. CASE \/ StartChange(r) \/ StartDelete(r)
             \/ \E t \in Token : StartRefresh(r, t) \/ StartLogout(r, t)
    BY <1>2, CredKept DEF StartChange, StartDelete, StartRefresh, StartLogout,
       Idle, account
  <1> QED BY <1>1, <1>2

LEMMA CredStep ==
  ASSUME Inv, Cred, [Next]_vars
  PROVE  Cred'
  <1>1. CASE UNCHANGED vars \/ Expire
    <2>1. UNCHANGED <<account, pairs, req>>
      BY <1>1 DEF vars, Expire, ExpireIndex, ExpireKey, ExpirePending, ExpireResult
    <2> QED BY <2>1 DEF Cred, Earned, account, pairs
  <1>2. ASSUME NEW r \in Req, StartLogin(r) PROVE Cred'
    <2>1. \A q \in Req : Earned(req[q])'
      BY <1>2 DEF StartLogin, Become, Idle, Cred, Earned, Inv, Store, Requests, account, pairs
    <2> QED BY <1>2, <2>1 DEF StartLogin, Cred, account, pairs
  <1>3. ASSUME NEW r \in Req, CheckUser(r) PROVE Cred'
    <2>a. req[r] \in Request /\ req[r].arg \in Token /\ UNCHANGED <<account, pairs>>
      BY <1>3 DEF Inv, Store, Requests, Fits, CheckUser, At, RefreshPc
    <2>1. CASE open /\ ver = sv[req[r].arg]
      <3>1. Become(r, [req[r] EXCEPT !.pc = "issueKey", !.seen = ver])
        BY <1>3, <2>1 DEF CheckUser
      <3>2. ASSUME NEW q \in Req PROVE Earned(req[q])'
        <4>1. CASE q = r
          <5>1. req'[r].seen = ver /\ req'[r].arg = req[r].arg
            BY <2>a, <3>1 DEF Become, Request, Inv, Requests
          <5> QED BY <2>a, <2>1, <4>1, <5>1, TokenAssumption
                  DEF Earned, account, pairs, Inv, Store
        <4>2. CASE q # r
          BY <2>a, <3>1, <4>2 DEF Become, Cred, Earned, Inv, Requests, account, pairs
        <4> QED BY <4>1, <4>2
      <3> QED BY <2>a, <3>2 DEF Cred, account, pairs
    <2>2. CASE ~ (open /\ ver = sv[req[r].arg])
      BY <1>3, <2>a, <2>2, CredKept DEF CheckUser, Goto, Request, account
    <2> QED BY <2>1, <2>2
  <1>4. ASSUME NEW r \in Req, IssueKey(r) PROVE Cred'
    <2>1. PICK t \in Token \ issued : IssueKey(r)!2!(t)
      BY <1>4 DEF IssueKey
    <2>2. /\ req[r] \in Request /\ req[r].seen <= ver /\ req[r].arg \in issued \cup {NoToken}
          /\ IF req[r].arg = NoToken THEN req[r].proof = req[r].seen
                                     ELSE req[r].seen = sv[req[r].arg]
          /\ NoToken \notin issued
      BY <1>4, TokenAssumption DEF IssueKey, At, Inv, Store, Requests, Fits, Cred, Earned
    <2>3. UNCHANGED <<pwd, ver>> /\ issued' = issued \cup {t}
      BY <1>4, <2>1 DEF IssueKey, account
    <2>4. /\ cred'[t] = sv'[t] /\ sv'[t] = req[r].seen
          /\ \A s \in issued : cred'[s] = cred[s] /\ sv'[s] = sv[s]
      BY <2>1, <2>2 DEF Inv, Store, Cred
    <2>5. \A s \in issued' : cred'[s] = sv'[s] /\ sv'[s] <= ver
      BY <2>2, <2>3, <2>4 DEF Cred
    <2>6. ASSUME NEW q \in Req PROVE Earned(req[q])'
      <3>1. CASE q = r
        BY <2>1, <2>2, <3>1 DEF Become, Earned, Request, Inv, Requests
      <3>2. CASE q # r
        <4>1. req'[q] = req[q] /\ req[q].arg \in issued \cup {NoToken} /\ Earned(req[q])
          BY <2>1, <3>2 DEF Become, Inv, Requests, Fits, Cred
        <4> QED BY <4>1, <2>3, <2>4 DEF Earned
      <3> QED BY <3>1, <3>2
    <2> QED BY <2>3, <2>5, <2>6 DEF Cred
  <1>5. ASSUME NEW r \in Req, Commit(r) PROVE Cred'
    <2>a. req[r] \in Request /\ UNCHANGED pairs
      BY <1>5 DEF Inv, Requests, Commit
    <2>1. CASE open
      <3>1. pwd' = pwd + 1 /\ ver' = ver + 1 /\ Goto(r, "members")
        BY <1>5, <2>1 DEF Commit
      <3>2. ASSUME NEW q \in Req PROVE Earned(req[q])'
        <4>1. CASE q = r
          BY <2>a, <3>1, <4>1 DEF Goto, Become, Earned, Request, Inv, Requests
        <4>2. CASE q # r
          <5>1. req'[q] = req[q] /\ Earned(req[q]) /\ req[q].seen \in Nat
            BY <3>1, <4>2 DEF Goto, Become, Cred, Inv, Requests, Request
          <5> QED BY <2>a, <3>1, <5>1 DEF Earned, pairs, Inv, Store
        <4> QED BY <4>1, <4>2
      <3>3. \A t \in issued : sv[t] \in Nat /\ cred[t] = sv[t] /\ sv[t] <= ver
        BY DEF Cred, Inv, Store
      <3> QED BY <2>a, <3>1, <3>2, <3>3 DEF Cred, pairs, Inv, Store
    <2>2. CASE ~ open
      BY <1>5, <2>2, CredKept, IdleFields DEF Commit, Finish
    <2> QED BY <2>1, <2>2
  <1> QED BY <1>1, <1>2, <1>3, <1>4, <1>5, CredRefresh, CredRevoke DEF Next, Start, Step

LEMMA CredHolds == Spec => []Cred
  <1>1. Init => Cred
    <2> SUFFICES ASSUME Init PROVE Cred
      OBVIOUS
    <2>1. \A t \in issued : cred[t] = 0 /\ sv[t] = 0
      BY TokenAssumption DEF Init
    <2>2. \A r \in Req : Earned(req[r])
      BY IdleFields DEF Init, Earned
    <2> QED BY <2>1, <2>2 DEF Init, Cred
  <1> QED BY <1>1, CredStep, InvHolds, PTL DEF Spec

(* No interleaving of rotations, logins and password changes leaves an
   accepted pair whose sign-in proved an older password. *)
THEOREM OnlyCurrentCredentialHolds == Spec => []OnlyCurrentCredentialAccepted
  BY CredHolds, CredCurrent, PTL

-----------------------------------------------------------------------------
(* Sessions implements SessionRegistry. *)
LEMMA RegistryInit == Init => Registry!Init
  BY TokenAssumption DEF Init, Registry!Init, Accepts

(* Everything the mapping reads. *)
LEMMA RegistryStutters ==
  ASSUME UNCHANGED <<open, ver, issued, sv, root>>
  PROVE  UNCHANGED Registry!rvars
  BY DEF Registry!rvars, Accepts

LEMMA IssueRefines ==
  ASSUME Inv, Cred, NEW r \in Req, IssueKey(r)
  PROVE  Registry!Next
  <1>1. PICK t \in Token \ issued : IssueKey(r)!2!(t)
    BY DEF IssueKey
  <1> DEFINE old == req[r].arg
  <1>2. /\ old \in issued \cup {NoToken} /\ NoToken \notin Token /\ issued \subseteq Token
        /\ old # NoToken => req[r].seen = sv[old]
    BY TokenAssumption DEF IssueKey, At, Inv, Store, Requests, Fits, Cred, Earned
  <1>3. UNCHANGED <<open, ver>> /\ issued' = issued \cup {t}
    BY <1>1 DEF IssueKey, account
  <1>4. /\ sv' = [sv EXCEPT ![t] = req[r].seen] /\ sv \in [Token -> Nat]
        /\ root' = [root EXCEPT ![t] = IF old = NoToken THEN t ELSE root[old]]
        /\ root \in [Token -> Token]
    BY <1>1 DEF Inv, Store
  <1>5. /\ \A s \in Token \ {t} : Accepts(s)' <=> Accepts(s)
        /\ ~ Accepts(t) /\ (Accepts(t)' <=> open /\ req[r].seen = ver)
    BY <1>3, <1>4 DEF Accepts
  <1> HIDE DEF old
  <1>6. CASE old = NoToken
    <2>1. Registry!SignIn(t)
      BY <1>2, <1>3, <1>4, <1>5, <1>6 DEF Registry!SignIn, Registry!Granted
    <2> QED BY <2>1 DEF Registry!Next
  <1>7. CASE old # NoToken
    <2>1. Accepts(old) <=> Accepts(t)'
      BY <1>2, <1>5, <1>7 DEF Accepts
    <2>2. old \in Token /\ old \in issued /\ root[old] \in Token
      BY <1>2, <1>4, <1>7
    <2>3. Registry!Renew(old, t)
      BY <1>2, <1>3, <1>4, <1>5, <1>7, <2>1, <2>2 DEF Registry!Renew, Registry!Granted
    <2> QED BY <2>2, <2>3 DEF Registry!Next
  <1> QED BY <1>6, <1>7

LEMMA CommitRefines ==
  ASSUME Inv, Cred, NEW r \in Req, Commit(r)
  PROVE  Registry!Next \/ UNCHANGED Registry!rvars
  <1>1. CASE open
    <2>1. UNCHANGED <<open, pairs>> /\ ver' = ver + 1
      BY <1>1 DEF Commit
    <2>2. \A t \in Token : ~ Accepts(t)'
      BY <2>1 DEF Accepts, Cred, Inv, Store, pairs
    <2> QED BY <1>1, <2>1, <2>2 DEF Registry!Next, Registry!RevokeAll, pairs
  <1>2. CASE ~ open
    BY <1>2, RegistryStutters DEF Commit, pairs
  <1> QED BY <1>1, <1>2

LEMMA DeleteRefines ==
  ASSUME Inv, NEW r \in Req, DeleteRow(r)
  PROVE  Registry!Next \/ UNCHANGED Registry!rvars
  <1>1. UNCHANGED pairs /\ UNCHANGED ver /\ open' = FALSE
    BY DEF DeleteRow
  <1>2. CASE open
    BY <1>1, <1>2 DEF Registry!Next, Registry!Close, Accepts, pairs
  <1>3. CASE ~ open
    BY <1>1, <1>3, RegistryStutters DEF pairs, Inv, Store
  <1> QED BY <1>2, <1>3

LEMMA RegistryStep ==
  ASSUME Inv, Cred, [Next]_vars
  PROVE  [Registry!Next]_(Registry!rvars)
  <1>1. CASE UNCHANGED vars \/ Expire
    <2>1. UNCHANGED <<account, pairs>>
      BY <1>1 DEF vars, Expire, ExpireIndex, ExpireKey, ExpirePending, ExpireResult
    <2> QED BY <2>1, RegistryStutters DEF account, pairs
  <1>2. ASSUME NEW r \in Req, Start(r) \/ FailInTry(r) \/ Abort(r)
        PROVE  UNCHANGED Registry!rvars
    <2>1. UNCHANGED <<account, pairs>>
      BY <1>2 DEF Start, StartLogin, StartChange, StartDelete, StartRefresh,
         StartLogout, FailInTry, Abort
    <2> QED BY <2>1, RegistryStutters DEF account, pairs
  <1>3. ASSUME NEW r \in Req, Step(r), ~ IssueKey(r), ~ Commit(r), ~ DeleteRow(r)
        PROVE  UNCHANGED Registry!rvars
    <2>1. UNCHANGED <<account, pairs>>
      BY <1>3 DEF Step, IssueIndex, Claim, ClaimRaw, ClaimKey, CheckPending, Poll,
         CheckUser, RejectPending, RejectIndex, SaveResult, UnindexOld, ClearPending,
         RestoreKey, RestorePending, Reply, LogoutRaw, LogoutIndex, Members, DropKey,
         DropIndex
    <2> QED BY <2>1, RegistryStutters DEF account, pairs
  <1> QED BY <1>1, <1>2, <1>3, IssueRefines, CommitRefines, DeleteRefines DEF Next

(* The account keeps SessionRegistry's promise: every pair is worth what its
   parent was worth when it was issued, and one step ends all of them. *)
THEOREM RegistryImplemented == Spec => ImplementsRegistry
  BY RegistryInit, RegistryStep, InvHolds, CredHolds, PTL
     DEF Spec, ImplementsRegistry, Registry!Spec
=============================================================================
