---------------------------- MODULE CodesProofs ----------------------------
(***************************************************************************)
(* Proofs about Codes, for any requests, codes, life times, attempts and   *)
(* bounds: type correctness, and that a code is used once.                 *)
(***************************************************************************)
EXTENDS Codes, FiniteSetTheorems, TLAPS

KeysOK ==
    /\ flow \in {"signup", "reset"}
    /\ otp \in [code : Code \cup {NoCode}, left : 0..OtpTtl]
    /\ fail \in [n : Nat, left : 0..OtpTtl] /\ cool \in 0..CoolTtl
    /\ (otp.code = NoCode <=> otp.left = 0) /\ (fail.n = 0 <=> fail.left = 0)

GhostOK ==
    /\ issued \subseteq Code /\ spent \subseteq issued
    /\ guesses \in Nat /\ crashed \in 0..MaxCrashes
    /\ otp.code \in issued \cup {NoCode}

(* A job that waits or runs carries a code that was drawn, and attempts. *)
MailOK ==
    /\ inbox \subseteq issued
    /\ job \in [st : {"none", "waiting", "active", "failed"}, code : Code \cup {NoCode},
                left : 0..Attempts]
    /\ worker \in {"idle", "check", "send"}
    /\ job.st \in {"waiting", "active"} => job.code \in issued /\ job.left # 0
    /\ worker # "idle" => job.st = "active"

Sending == {"setOtp", "setCool", "remove", "add"}
Using   == {"update", "delOtp", "delFail", "token"}

(* What a request's code is: drawn, when it is to be sent or was right; never
   stored again once the request has deleted it. *)
Holds(rq) ==
    /\ rq.pc \in Sending => rq.code \in issued /\ ~ rq.use
    /\ rq.use => rq.code \in issued
    /\ rq.pc = "update" => rq.use
    /\ rq.pc = "setOtp" => rq.code # otp.code /\ rq.code \notin spent
    /\ rq.pc \in {"delFail", "token"} /\ rq.use => rq.code # otp.code

(* A code about to be stored is no one else's. *)
Single ==
    \A q, r \in Req : req[q].pc = "setOtp" /\ q # r =>
        ~ (req[r].pc = "setOtp" \/ req[r].use) \/ req[r].code # req[q].code

Inv == /\ KeysOK /\ GhostOK /\ MailOK /\ req \in [Req -> Request]
       /\ (\A r \in Req : Holds(req[r])) /\ Single /\ SpentIsGone

-----------------------------------------------------------------------------
LEMMA InitInv == Init => Inv
BY CodesAssumption
   DEF Init, Inv, KeysOK, GhostOK, MailOK, Holds, Single, SpentIsGone, Request, Idle,
       NoOtp, NoFail, NoJob, Sending

LEMMA IdleHolds == Idle \in Request /\ Idle.pc = "idle" /\ ~ Idle.use /\ Holds(Idle)
BY DEF Idle, Request, Holds, Sending

LEMMA Becomes ==
  ASSUME Inv, NEW r \in Req, NEW rec \in Request, Become(r, rec)
  PROVE  /\ req' \in [Req -> Request] /\ req'[r] = rec
         /\ \A q \in Req \ {r} : req'[q] = req[q]
BY DEF Inv, Become

(* A step of one request that stores no code: the others hold what they held. *)
LEMMA OneStep ==
  ASSUME Inv, NEW r \in Req, NEW rec \in Request, Become(r, rec),
         KeysOK', GhostOK', MailOK', issued \subseteq issued',
         otp'.code \in {otp.code, NoCode}, spent' = spent,
         rec.pc \in Sending => rec.code \in issued' /\ ~ rec.use,
         rec.use => rec.code \in issued' /\ rec.pc # "setOtp",
         rec.use => \A q \in Req \ {r} : req[q].pc = "setOtp" => req[q].code # rec.code,
         rec.pc = "update" => rec.use,
         rec.pc = "setOtp" => rec.code \notin issued,
         rec.pc \in {"delFail", "token"} /\ rec.use => rec.code # otp'.code
  PROVE  Inv'
<1>0. /\ req' \in [Req -> Request] /\ req'[r] = rec
      /\ \A q \in Req \ {r} : req'[q] = req[q]
  BY Becomes
<1>1. NoCode \notin issued /\ NoCode \notin spent
  BY CodesAssumption DEF Inv, GhostOK
<1>2. ASSUME NEW q \in Req \ {r} PROVE Holds(req[q])'
  <2>1. req'[q] = req[q] /\ Holds(req[q])  BY <1>0, <1>2 DEF Inv
  <2> QED  BY <2>1, <1>1 DEF Holds, Sending
<1>3. Holds(req[r])'
  <2>1. rec.pc = "setOtp" => rec.code # otp'.code /\ rec.code \notin spent
    BY <1>1, CodesAssumption DEF Inv, GhostOK, KeysOK, Sending
  <2> QED  BY <1>0, <2>1 DEF Holds
<1>4. Single'
  <2> SUFFICES ASSUME NEW q \in Req, NEW s \in Req, q # s, req'[q].pc = "setOtp",
                      req'[s].pc = "setOtp" \/ req'[s].use
               PROVE  req'[s].code # req'[q].code
    BY DEF Single
  <2>1. CASE q # r /\ s # r  BY <1>0, <2>1 DEF Inv, Single
  <2>2. CASE q = r
    <3>1. rec.pc = "setOtp" /\ rec.code \notin issued /\ req'[s] = req[s]  BY <1>0, <2>2
    <3>2. Holds(req[s])  BY DEF Inv
    <3>3. req[s].code \in issued  BY <3>1, <3>2 DEF Holds, Sending
    <3> QED  BY <1>0, <2>2, <3>1, <3>3
  <2>3. CASE s = r
    <3>1. req'[q] = req[q] /\ Holds(req[q])  BY <1>0, <2>3 DEF Inv
    <3>2. req[q].code \in issued  BY <3>1 DEF Holds, Sending
    <3>3. CASE rec.use  BY <1>0, <2>3, <3>1, <3>3
    <3>4. CASE rec.pc = "setOtp"  BY <1>0, <2>3, <3>1, <3>2, <3>4
    <3> QED  BY <1>0, <2>3, <3>3, <3>4
  <2> QED  BY <2>1, <2>2, <2>3
<1>5. SpentIsGone'  BY <1>1 DEF Inv, SpentIsGone
<1> QED  BY <1>0, <1>2, <1>3, <1>4, <1>5 DEF Inv

(* A request that only moves on. *)
LEMMA Moves ==
  ASSUME Inv, NEW r \in Req,
         NEW pc \in {"setCool", "remove", "add", "update", "delOtp", "delFail", "token"}
  PROVE  /\ [req[r] EXCEPT !.pc = pc] \in Request
         /\ [req[r] EXCEPT !.pc = pc].pc = pc
         /\ [req[r] EXCEPT !.pc = pc].code = req[r].code
         /\ [req[r] EXCEPT !.pc = pc].use = req[r].use
BY DEF Inv, Request

-----------------------------------------------------------------------------
LEMMA SendInv ==
  ASSUME Inv, NEW r \in Req, StartSend(r) \/ SetCool(r) \/ RemoveJob(r) \/ AddJob(r)
  PROVE  Inv'
<1> USE CodesAssumption
<1>0. /\ Holds(req[r]) /\ req[r] \in Request /\ KeysOK /\ GhostOK /\ MailOK
  BY DEF Inv
<1>1. CASE StartSend(r)
  <2>1. PICK c \in Code \ issued :
          /\ issued' = issued \cup {c} /\ Become(r, [Idle EXCEPT !.pc = "setOtp", !.code = c])
    BY <1>1 DEF StartSend
  <2> DEFINE rec == [Idle EXCEPT !.pc = "setOtp", !.code = c]
  <2>2. rec \in Request /\ rec.pc = "setOtp" /\ rec.code = c /\ ~ rec.use
    BY DEF Idle, Request
  <2>3. UNCHANGED <<flow, keys, mail, ghost>>  BY <1>1 DEF StartSend
  <2>4. KeysOK' /\ GhostOK' /\ MailOK'
    BY <1>0, <2>1, <2>3 DEF KeysOK, GhostOK, MailOK, keys, mail, ghost
  <2>5. Become(r, rec)  BY <2>1
  <2> HIDE DEF rec
  <2> QED  BY <2>1, <2>2, <2>3, <2>4, <2>5, OneStep DEF keys, ghost
<1>2. CASE SetCool(r)
  <2> DEFINE rec == [req[r] EXCEPT !.pc = "remove"]
  <2>1. /\ rec \in Request /\ rec.pc = "remove" /\ rec.code = req[r].code
        /\ req[r].code \in issued /\ ~ req[r].use /\ rec.use = req[r].use
    BY <1>0, <1>2, Moves DEF SetCool, At, Holds, Sending
  <2>2. Become(r, rec) /\ UNCHANGED <<flow, otp, fail, issued, mail, ghost>>
    BY <1>2 DEF SetCool, Goto
  <2>3. KeysOK' /\ GhostOK' /\ MailOK'
    BY <1>0, <1>2 DEF SetCool, KeysOK, GhostOK, MailOK, mail, ghost
  <2> HIDE DEF rec
  <2> QED  BY <2>1, <2>2, <2>3, OneStep DEF ghost
<1>3. CASE RemoveJob(r)
  <2> DEFINE rec == [req[r] EXCEPT !.pc = "add"]
  <2>1. /\ rec \in Request /\ rec.pc = "add" /\ rec.code = req[r].code
        /\ req[r].code \in issued /\ ~ req[r].use /\ rec.use = req[r].use
    BY <1>0, <1>3, Moves DEF RemoveJob, At, Holds, Sending
  <2>2. Become(r, rec) /\ UNCHANGED <<flow, keys, issued, worker, inbox, ghost>>
    BY <1>3 DEF RemoveJob, Goto
  <2>3. KeysOK' /\ GhostOK'
    BY <1>0, <2>2 DEF KeysOK, GhostOK, keys, ghost
  <2>4. MailOK'
    BY <1>0, <1>3 DEF RemoveJob, MailOK, NoJob
  <2> HIDE DEF rec
  <2> QED  BY <2>1, <2>2, <2>3, <2>4, OneStep DEF keys, ghost
<1>4. CASE AddJob(r)
  <2>1. req[r].code \in issued /\ req[r].code \in Code
    BY <1>0, <1>4 DEF AddJob, At, Holds, Sending, GhostOK
  <2>2. Become(r, Idle) /\ UNCHANGED <<flow, keys, issued, worker, inbox, ghost>>
    BY <1>4 DEF AddJob, Finish
  <2>3. KeysOK' /\ GhostOK'
    BY <1>0, <2>2 DEF KeysOK, GhostOK, keys, ghost
  <2>4. MailOK'
    BY <1>0, <1>4, <2>1 DEF AddJob, MailOK, NoJob
  <2> QED  BY <2>2, <2>3, <2>4, IdleHolds, OneStep DEF keys, ghost, Sending
<1> QED  BY <1>1, <1>2, <1>3, <1>4

(* The code is stored: no one else sends it, uses it or has used it. *)
LEMMA SetOtpInv == ASSUME Inv, NEW r \in Req, SetOtp(r) PROVE Inv'
<1> USE CodesAssumption
<1> DEFINE rec == [req[r] EXCEPT !.pc = "setCool"]
<1>0. /\ Holds(req[r]) /\ req[r] \in Request /\ KeysOK /\ GhostOK /\ MailOK
      /\ req[r].pc = "setOtp" /\ req[r].code \in issued /\ req[r].code \in Code /\ ~ req[r].use
  BY DEF Inv, SetOtp, At, Holds, Sending, GhostOK
<1>1. /\ rec \in Request /\ rec.pc = "setCool" /\ rec.code = req[r].code /\ ~ rec.use
  BY <1>0, Moves
<1>2. /\ Become(r, rec) /\ guesses' = 0
      /\ UNCHANGED <<flow, fail, cool, issued, mail, spent, crashed>>
  BY DEF SetOtp, Goto
<1>3. otp' = [code |-> req[r].code, left |-> OtpTtl]  BY DEF SetOtp
<1> HIDE DEF rec
<1>4. /\ req' \in [Req -> Request] /\ req'[r] = rec
      /\ \A q \in Req \ {r} : req'[q] = req[q]
  BY <1>1, <1>2, Becomes
<1>5. KeysOK' /\ GhostOK' /\ MailOK'
  <2>1. KeysOK'  BY <1>0, <1>2, <1>3 DEF KeysOK
  <2>2. GhostOK'  BY <1>0, <1>2, <1>3 DEF GhostOK
  <2>3. MailOK'  BY <1>0, <1>2 DEF MailOK, mail
  <2> QED  BY <2>1, <2>2, <2>3
<1>6. ASSUME NEW q \in Req PROVE Holds(req[q])'
  <2>1. CASE q = r
    BY <1>0, <1>1, <1>2, <1>4, <2>1 DEF Holds, Sending
  <2>2. CASE q # r
    <3>1. req'[q] = req[q] /\ Holds(req[q])  BY <1>4, <2>2 DEF Inv
    <3>2. req[q].pc = "setOtp" \/ req[q].use => req[q].code # req[r].code
      BY <1>0, <2>2 DEF Inv, Single
    <3> QED  BY <1>2, <1>3, <3>1, <3>2 DEF Holds, ghost
  <2> QED  BY <2>1, <2>2
<1>7. Single'  BY <1>1, <1>4 DEF Inv, Single
<1>8. SpentIsGone'  BY <1>0, <1>2, <1>3 DEF SpentIsGone, Holds, ghost
<1> QED  BY <1>4, <1>5, <1>6, <1>7, <1>8 DEF Inv

-----------------------------------------------------------------------------
LEMMA GuessInv ==
  ASSUME Inv, NEW r \in Req, NEW guess \in inbox \cup {Wrong}, StartVerify(r, guess)
  PROVE  Inv'
<1> USE CodesAssumption
<1>0. /\ KeysOK /\ GhostOK /\ MailOK /\ otp.code \in issued /\ otp.code \in Code
      /\ UNCHANGED <<flow, keys, issued, mail, spent, crashed>>
  BY DEF Inv, StartVerify, GhostOK
<1>1. CASE guess = otp.code
  <2> DEFINE pc == IF flow = "signup" THEN "delOtp" ELSE "update"
             rec == [pc |-> pc, code |-> guess, use |-> TRUE]
  <2>1. pc \in {"delOtp", "update"}  OBVIOUS
  <2>2. Become(r, rec) /\ UNCHANGED guesses  BY <1>1 DEF StartVerify
  <2> HIDE DEF pc
  <2>3. /\ rec \in Request /\ rec.use /\ rec.code = otp.code
        /\ rec.pc \in {"delOtp", "update"}
    BY <1>0, <1>1, <2>1 DEF Request
  <2> HIDE DEF rec
  <2>4. KeysOK' /\ GhostOK' /\ MailOK'
    BY <1>0, <2>2 DEF KeysOK, GhostOK, MailOK, keys, mail
  <2>5. \A q \in Req : req[q].pc = "setOtp" => req[q].code # rec.code
    BY <2>3 DEF Inv, Holds
  <2> QED  BY <1>0, <2>2, <2>3, <2>4, <2>5, OneStep DEF keys, Sending
<1>2. CASE guess # otp.code
  <2> DEFINE rec == [Idle EXCEPT !.pc = "incr"]
  <2>1. rec \in Request /\ rec.pc = "incr" /\ ~ rec.use  BY DEF Idle, Request
  <2>2. Become(r, rec) /\ guesses' = guesses + 1
    BY <1>2 DEF StartVerify
  <2> HIDE DEF rec
  <2>3. guesses' \in Nat  BY <1>0, <2>2 DEF GhostOK
  <2>4. KeysOK' /\ GhostOK' /\ MailOK'
    BY <1>0, <2>3 DEF KeysOK, GhostOK, MailOK, keys, mail
  <2> QED  BY <1>0, <2>1, <2>2, <2>4, OneStep DEF keys, Sending
<1> QED  BY <1>1, <1>2

LEMMA IncrInv == ASSUME Inv, NEW r \in Req, Incr(r) PROVE Inv'
<1> USE CodesAssumption
<1>0. /\ Holds(req[r]) /\ KeysOK /\ GhostOK /\ MailOK
      /\ UNCHANGED <<flow, otp, cool, issued, mail, ghost>>
  BY DEF Inv, Incr
<1>1. fail' \in [n : Nat, left : 0..OtpTtl] /\ (fail'.n = 0 <=> fail'.left = 0)
  BY <1>0 DEF Incr, KeysOK
<1>2. KeysOK' /\ GhostOK' /\ MailOK'
  BY <1>0, <1>1 DEF KeysOK, GhostOK, MailOK, mail, ghost
<1>3. CASE Finish(r)
  BY <1>0, <1>2, <1>3, IdleHolds, OneStep DEF Finish, ghost, Sending
<1>4. CASE Goto(r, "delOtp")
  <2> DEFINE rec == [req[r] EXCEPT !.pc = "delOtp"]
  <2>1. rec \in Request /\ rec.pc = "delOtp" /\ rec.code = req[r].code /\ rec.use = req[r].use
    BY Moves
  <2>2. Become(r, rec)  BY <1>4 DEF Goto
  <2> HIDE DEF rec
  <2>3. rec.use => \A q \in Req \ {r} : req[q].pc = "setOtp" => req[q].code # rec.code
    BY <2>1 DEF Inv, Single
  <2>4. rec.use => rec.code \in issued  BY <1>0, <2>1 DEF Holds
  <2> QED  BY <1>0, <1>2, <2>1, <2>2, <2>3, <2>4, OneStep DEF ghost, Sending
<1> QED  BY <1>3, <1>4 DEF Incr

(* The deletions that follow a right code, or one guess too many. *)
LEMMA DeleteInv == ASSUME Inv, NEW r \in Req, Update(r) \/ DelOtp(r) \/ DelFail(r) PROVE Inv'
<1> USE CodesAssumption
<1>0. /\ Holds(req[r]) /\ req[r] \in Request /\ KeysOK /\ GhostOK /\ MailOK
      /\ req[r].use => req[r].code \in issued
      /\ req[r].use => \A q \in Req \ {r} : req[q].pc = "setOtp" => req[q].code # req[r].code
  BY DEF Inv, Single, Holds
<1>1. CASE Update(r)
  <2>1. PICK found \in BOOLEAN : Become(r, [req[r] EXCEPT !.pc = "delOtp", !.use = found])
    BY <1>1 DEF Update
  <2> DEFINE rec == [req[r] EXCEPT !.pc = "delOtp", !.use = found]
  <2>2. rec \in Request /\ rec.pc = "delOtp" /\ rec.code = req[r].code
    BY <1>0 DEF Request
  <2>3. req[r].use  BY <1>0, <1>1 DEF Update, At, Holds
  <2>4. Become(r, rec) /\ UNCHANGED <<flow, keys, issued, mail, ghost>>
    BY <1>1, <2>1 DEF Update
  <2> HIDE DEF rec
  <2>5. KeysOK' /\ GhostOK' /\ MailOK'
    BY <1>0, <2>4 DEF KeysOK, GhostOK, MailOK, keys, mail, ghost
  <2> QED  BY <1>0, <2>2, <2>3, <2>4, <2>5, OneStep DEF keys, ghost, Sending
<1>2. CASE DelOtp(r)
  <2> DEFINE rec == [req[r] EXCEPT !.pc = "delFail"]
  <2>1. rec \in Request /\ rec.pc = "delFail" /\ rec.code = req[r].code /\ rec.use = req[r].use
    BY Moves
  <2>2. Become(r, rec) /\ otp' = NoOtp /\ UNCHANGED <<flow, fail, cool, issued, mail, ghost>>
    BY <1>2 DEF DelOtp, Goto
  <2> HIDE DEF rec
  <2>3. KeysOK' /\ GhostOK' /\ MailOK'
    BY <1>0, <2>2 DEF KeysOK, GhostOK, MailOK, NoOtp, mail, ghost
  <2>4. otp'.code = NoCode /\ (req[r].use => req[r].code # NoCode)
    BY <1>0, <2>2 DEF NoOtp, GhostOK
  <2> QED  BY <1>0, <2>1, <2>2, <2>3, <2>4, OneStep DEF ghost, Sending
<1>3. CASE DelFail(r)
  <2> DEFINE rec == [req[r] EXCEPT !.pc = "token"]
  <2>1. rec \in Request /\ rec.pc = "token" /\ rec.code = req[r].code /\ rec.use = req[r].use
    BY Moves
  <2>2. Become(r, rec) /\ fail' = NoFail /\ UNCHANGED <<flow, otp, cool, issued, mail, ghost>>
    BY <1>3 DEF DelFail, Goto
  <2>3. req[r].pc = "delFail"  BY <1>3 DEF DelFail, At
  <2> HIDE DEF rec
  <2>4. KeysOK' /\ GhostOK' /\ MailOK'
    BY <1>0, <2>2 DEF KeysOK, GhostOK, MailOK, NoFail, mail, ghost
  <2>5. req[r].use => req[r].code # otp.code  BY <1>0, <2>3 DEF Holds
  <2> QED  BY <1>0, <2>1, <2>2, <2>4, <2>5, OneStep DEF ghost, Sending
<1> QED  BY <1>1, <1>2, <1>3

(* The answer: the code is gone already, and no one is about to store it. *)
LEMMA AnswerInv == ASSUME Inv, NEW r \in Req, Answer(r) PROVE Inv'
<1> USE CodesAssumption
<1>0. /\ Holds(req[r]) /\ KeysOK /\ GhostOK /\ MailOK /\ req[r].pc = "token"
      /\ UNCHANGED <<flow, keys, issued, mail, guesses, crashed>>
      /\ spent' = IF req[r].use THEN spent \cup {req[r].code} ELSE spent
  BY DEF Inv, Answer, At
<1>1. /\ req' \in [Req -> Request] /\ req'[r] = Idle
      /\ \A q \in Req \ {r} : req'[q] = req[q]
  BY IdleHolds, Becomes DEF Answer, Finish
<1>2. \A c \in spent' : c \in spent \/ (req[r].use /\ c = req[r].code)  BY <1>0
<1>3. req[r].use => req[r].code \in issued /\ req[r].code # otp.code  BY <1>0 DEF Holds
<1>4. KeysOK' /\ GhostOK' /\ MailOK'
  BY <1>0, <1>2, <1>3 DEF KeysOK, GhostOK, MailOK, keys, mail
<1>5. ASSUME NEW q \in Req PROVE Holds(req[q])'
  <2>1. CASE q = r
    BY <1>1, <2>1 DEF Holds, Idle, Sending
  <2>2. CASE q # r
    <3>1. req'[q] = req[q] /\ Holds(req[q])  BY <1>1, <2>2 DEF Inv
    <3>2. req[q].pc = "setOtp" /\ req[r].use => req[q].code # req[r].code
      BY <2>2 DEF Inv, Single
    <3> QED  BY <1>0, <1>2, <3>1, <3>2 DEF Holds, keys
  <2> QED  BY <2>1, <2>2
<1>6. Single'  BY <1>1 DEF Inv, Single, Idle
<1>7. SpentIsGone'  BY <1>0, <1>2, <1>3 DEF Inv, SpentIsGone, keys
<1> QED  BY <1>1, <1>4, <1>5, <1>6, <1>7 DEF Inv

-----------------------------------------------------------------------------
(* Time, the worker and a crash store no code. *)
LEMMA Background ==
  ASSUME Inv, UNCHANGED <<req, issued, spent>>, otp'.code \in {otp.code, NoCode},
         KeysOK', GhostOK', MailOK'
  PROVE  Inv'
<1>1. NoCode \notin issued /\ NoCode \notin spent
  BY CodesAssumption DEF Inv, GhostOK
<1>2. ASSUME NEW q \in Req PROVE Holds(req[q])'
  <2>1. Holds(req[q])  BY DEF Inv
  <2> QED  BY <1>1, <2>1 DEF Holds, Sending
<1>3. Single'  BY DEF Inv, Single
<1>4. SpentIsGone'  BY <1>1 DEF Inv, SpentIsGone
<1> QED  BY <1>2, <1>3, <1>4 DEF Inv

LEMMA MailInv == ASSUME Inv, WorkerStep \/ SendFails PROVE Inv'
<1> USE CodesAssumption
<1>0. KeysOK /\ GhostOK /\ MailOK  BY DEF Inv
<1>1. UNCHANGED <<flow, keys, issued, req, ghost>>
  BY DEF WorkerStep, TakeJob, Check, Send, SendFails
<1>2. KeysOK' /\ GhostOK'  BY <1>0, <1>1 DEF KeysOK, GhostOK, keys, ghost
<1>3. MailOK'
  <2>1. CASE TakeJob  BY <1>0, <2>1 DEF TakeJob, MailOK
  <2>2. CASE Check  BY <1>0, <2>2 DEF Check, MailOK, NoJob
  <2>3. CASE Send  BY <1>0, <2>3 DEF Send, MailOK, NoJob
  <2>4. CASE SendFails
    <3>1. /\ worker = "send" /\ worker' = "idle" /\ UNCHANGED <<issued, inbox>>
          /\ job' = [job EXCEPT !.st = IF job.left > 1 THEN "waiting" ELSE "failed",
                                !.left = job.left - 1]
      BY <1>0, <2>4 DEF SendFails, MailOK
    <3>2. job.left \in 1..Attempts /\ job.code \in issued  BY <1>0, <3>1 DEF MailOK
    <3>3. /\ job'.left = job.left - 1 /\ job'.code = job.code
          /\ job'.st = IF job.left > 1 THEN "waiting" ELSE "failed"
      BY <1>0, <3>1 DEF MailOK
    <3>4. job.left - 1 \in 0..Attempts  BY <3>2
    <3>5. job' \in [st : {"none", "waiting", "active", "failed"}, code : Code \cup {NoCode},
                    left : 0..Attempts]
      BY <1>0, <3>1, <3>4 DEF MailOK
    <3> QED  BY <1>0, <3>1, <3>2, <3>3, <3>5 DEF MailOK
  <2> QED  BY <2>1, <2>2, <2>3, <2>4 DEF WorkerStep
<1> QED  BY <1>1, <1>2, <1>3, Background DEF keys, ghost

LEMMA TickInv == ASSUME Inv, Tick PROVE Inv'
<1> USE CodesAssumption
<1>0. KeysOK /\ GhostOK /\ MailOK /\ UNCHANGED <<flow, issued, mail, req, ghost>>
  BY DEF Inv, Tick
<1>1. /\ otp' \in [code : Code \cup {NoCode}, left : 0..OtpTtl]
      /\ (otp'.code = NoCode <=> otp'.left = 0) /\ otp'.code \in {otp.code, NoCode}
  BY <1>0 DEF Tick, KeysOK, NoOtp
<1>2. fail' \in [n : Nat, left : 0..OtpTtl] /\ (fail'.n = 0 <=> fail'.left = 0)
  BY <1>0 DEF Tick, KeysOK, NoFail
<1>3. cool' \in 0..CoolTtl  BY <1>0 DEF Tick, KeysOK, Less
<1>4. KeysOK' /\ GhostOK' /\ MailOK'
  BY <1>0, <1>1, <1>2, <1>3 DEF KeysOK, GhostOK, MailOK, mail, ghost
<1> QED  BY <1>0, <1>1, <1>4, Background DEF ghost

LEMMA CrashInv == ASSUME Inv, NEW r \in Req, Crash(r) PROVE Inv'
<1>1. /\ UNCHANGED <<flow, keys, issued, mail, guesses, spent>> /\ Become(r, Idle)
      /\ crashed' \in 0..MaxCrashes
  BY CodesAssumption DEF Crash, Finish, Inv, GhostOK
<1>2. KeysOK' /\ GhostOK' /\ MailOK'
  BY <1>1 DEF Inv, KeysOK, GhostOK, MailOK, keys, mail
<1> QED  BY <1>1, <1>2, IdleHolds, OneStep DEF keys, Sending

LEMMA NextInv == Inv /\ [Next]_vars => Inv'
<1> SUFFICES ASSUME Inv, [Next]_vars PROVE Inv'  OBVIOUS
<1>1. ASSUME NEW r \in Req, StartSend(r) \/ RequestStep(r) \/ Crash(r) PROVE Inv'
  BY <1>1, SendInv, SetOtpInv, IncrInv, DeleteInv, AnswerInv, CrashInv DEF RequestStep
<1>2. CASE UNCHANGED vars
  BY <1>2, Background DEF vars, keys, mail, ghost, Inv, KeysOK, GhostOK, MailOK
<1> QED  BY <1>1, <1>2, GuessInv, MailInv, TickInv DEF Next

LEMMA InvHolds == Spec => []Inv
BY InitInv, NextInv, PTL DEF Spec

-----------------------------------------------------------------------------
(* The limit on guesses.  A guess costs the counter a failure, unless its
   request is still busy with it or has stopped.  The counter starts again when
   a request that deleted an earlier code deletes it late, or when it was there
   before the code was stored and expires before the code does. *)
BusyPc == {"incr", "delOtp"}
Busy == {r \in Req : req[r].pc \in BusyPc}
Late == {r \in Req : req[r].pc = "delFail"}
Outlived == IF fail.left # 0 /\ fail.left < otp.left THEN MaxFails ELSE 0
Unused   == IF fail.n < MaxFails THEN MaxFails - fail.n ELSE 0
Rounds   == MaxFails * (Cardinality(Req) + 1)
Due      == MaxFails * Cardinality(Late)

Guesses ==
    /\ guesses <= Rounds + Cardinality(Req) + crashed
    /\ otp.code # NoCode =>
         guesses + Due + Outlived + Unused <= Rounds + Cardinality(Busy) + crashed

One(b) == IF b THEN 1 ELSE 0

LEMMA Times ==
  ASSUME NEW m \in Nat, NEW a \in Nat, NEW b \in Nat, a <= b
  PROVE  m * a \in Nat /\ m * a <= m * b /\ m * (a + 1) = m * a + m
BY SMT

(* Two sets of requests that differ in one request at most. *)
LEMMA CountOne ==
  ASSUME NEW S \in SUBSET Req, NEW T \in SUBSET Req, NEW r \in Req,
         \A q \in Req \ {r} : q \in S <=> q \in T
  PROVE  /\ Cardinality(S) \in Nat /\ Cardinality(T) \in Nat /\ Cardinality(Req) \in Nat
         /\ Cardinality(T) <= Cardinality(Req)
         /\ Cardinality(T) = Cardinality(S) + One(r \in T) - One(r \in S)
         /\ r \notin S => Cardinality(S) + 1 <= Cardinality(Req)
<1>1. /\ IsFiniteSet(Req) /\ IsFiniteSet(S) /\ IsFiniteSet(T)
      /\ Cardinality(S) <= Cardinality(Req) /\ Cardinality(T) <= Cardinality(Req)
  BY CodesAssumption, FS_Subset
<1>2. Cardinality(S) \in Nat /\ Cardinality(T) \in Nat /\ Cardinality(Req) \in Nat
  BY <1>1, FS_CardinalityType
<1>3. Cardinality(S \cup {r}) = IF r \in S THEN Cardinality(S) ELSE Cardinality(S) + 1
  BY <1>1, FS_AddElement
<1>4. Cardinality(S \ {r}) = IF r \in S THEN Cardinality(S) - 1 ELSE Cardinality(S)
  BY <1>1, FS_RemoveElement
<1>5. Cardinality(S \cup {r}) <= Cardinality(Req)
  <2>1. S \cup {r} \in SUBSET Req  OBVIOUS
  <2> QED  BY <2>1, CodesAssumption, FS_Subset
<1>6. Cardinality(T) = Cardinality(S) + One(r \in T) - One(r \in S)
  <2>1. CASE r \in T
    <3>1. T = S \cup {r}  BY <2>1
    <3> QED  BY <1>2, <1>3, <2>1, <3>1 DEF One
  <2>2. CASE r \notin T
    <3>1. T = S \ {r}  BY <2>2
    <3> QED  BY <1>2, <1>4, <2>2, <3>1 DEF One
  <2> QED  BY <2>1, <2>2
<1>7. r \notin S => Cardinality(S) + 1 <= Cardinality(Req)  BY <1>3, <1>5
<1> QED  BY <1>1, <1>2, <1>6, <1>7

(* The counts after one request has moved. *)
LEMMA Counts ==
  ASSUME Inv, NEW r \in Req, NEW rec \in Request, Become(r, rec)
  PROVE  /\ Cardinality(Busy) \in Nat /\ Cardinality(Busy') \in Nat
         /\ Cardinality(Busy') = Cardinality(Busy) + One(rec.pc \in BusyPc)
                                                    - One(req[r].pc \in BusyPc)
         /\ Cardinality(Busy') <= Cardinality(Req) /\ Cardinality(Req) \in Nat
         /\ Cardinality(Late) \in Nat /\ Cardinality(Late') \in Nat
         /\ Cardinality(Late') = Cardinality(Late) + One(rec.pc = "delFail")
                                                    - One(req[r].pc = "delFail")
         /\ req[r].pc # "delFail" => Cardinality(Late) + 1 <= Cardinality(Req)
<1>1. /\ req'[r] = rec
      /\ \A q \in Req \ {r} : req'[q] = req[q]
  BY Becomes
<1>2. /\ Busy \in SUBSET Req /\ Busy' \in SUBSET Req
      /\ Late \in SUBSET Req /\ Late' \in SUBSET Req
      /\ r \in Busy <=> req[r].pc \in BusyPc
      /\ r \in Busy' <=> rec.pc \in BusyPc
      /\ r \in Late <=> req[r].pc = "delFail"
      /\ r \in Late' <=> rec.pc = "delFail"
      /\ \A q \in Req \ {r} : (q \in Busy <=> q \in Busy') /\ (q \in Late <=> q \in Late')
  BY <1>1 DEF Busy, Late
<1> QED  BY <1>2, CountOne DEF One

(* The step of a request that stores no code: the arithmetic that is left. *)
LEMMA GuessStep ==
  ASSUME Inv, Guesses, NEW r \in Req, NEW rec \in Request, Become(r, rec),
         guesses' \in Nat, crashed' \in Nat, Outlived' \in Nat, Unused' \in Nat,
         \/ otp'.code = NoCode /\ guesses' = guesses /\ crashed' >= crashed
         \/ /\ otp'.code = otp.code
            /\ guesses' + One(rec.pc = "delFail") * MaxFails + Outlived' + Unused'
                  + One(req[r].pc \in BusyPc) + crashed
               <= guesses + One(req[r].pc = "delFail") * MaxFails + Outlived + Unused
                  + One(rec.pc \in BusyPc) + crashed'
            /\ otp.code = NoCode => guesses' = guesses /\ crashed' >= crashed
  PROVE  Guesses'
<1>1. /\ MaxFails \in Nat /\ guesses \in Nat /\ crashed \in Nat
      /\ Outlived \in Nat /\ Unused \in Nat
  BY CodesAssumption DEF Inv, GhostOK, KeysOK, Outlived, Unused
<1>2. /\ Cardinality(Busy) \in Nat /\ Cardinality(Busy') \in Nat
      /\ Cardinality(Busy') = Cardinality(Busy) + One(rec.pc \in BusyPc)
                                                 - One(req[r].pc \in BusyPc)
      /\ Cardinality(Busy') <= Cardinality(Req) /\ Cardinality(Req) \in Nat
      /\ Cardinality(Late) \in Nat /\ Cardinality(Late') \in Nat
      /\ Cardinality(Late') = Cardinality(Late) + One(rec.pc = "delFail")
                                                 - One(req[r].pc = "delFail")
  BY Counts
<1>3. Due \in Nat /\ Due' \in Nat /\ Rounds \in Nat /\ Rounds' = Rounds
  BY <1>1, <1>2, Times DEF Due, Rounds
<1>4. Due' = Due + One(rec.pc = "delFail") * MaxFails - One(req[r].pc = "delFail") * MaxFails
  <2>1. CASE One(rec.pc = "delFail") = One(req[r].pc = "delFail")
    BY <1>1, <1>2, <1>3, <2>1 DEF Due, One
  <2>2. CASE rec.pc = "delFail" /\ req[r].pc # "delFail"
    <3>1. Cardinality(Late') = Cardinality(Late) + 1  BY <1>2, <2>2 DEF One
    <3> QED  BY <1>1, <1>2, <1>3, <2>2, <3>1, Times DEF Due, One
  <2>3. CASE rec.pc # "delFail" /\ req[r].pc = "delFail"
    <3>1. Cardinality(Late) = Cardinality(Late') + 1  BY <1>2, <2>3 DEF One
    <3> QED  BY <1>1, <1>2, <1>3, <2>3, <3>1, Times DEF Due, One
  <2> QED  BY <2>1, <2>2, <2>3 DEF One
<1>5. /\ One(rec.pc = "delFail") * MaxFails \in Nat
      /\ One(req[r].pc = "delFail") * MaxFails \in Nat
      /\ One(rec.pc \in BusyPc) \in Nat /\ One(req[r].pc \in BusyPc) \in Nat
  BY <1>1 DEF One
<1>6. CASE otp'.code = NoCode
  BY <1>1, <1>2, <1>3, <1>6 DEF Guesses
<1>7. CASE otp'.code # NoCode
  BY <1>1, <1>2, <1>3, <1>4, <1>5, <1>7 DEF Guesses
<1> QED  BY <1>6, <1>7

(* A move between steps that neither guess nor delete the counter. *)
LEMMA QuietGuesses ==
  ASSUME Inv, Inv', Guesses, NEW r \in Req, NEW rec \in Request, Become(r, rec),
         rec.pc # "delFail", UNCHANGED <<otp, fail, guesses>>, crashed' \in Nat,
         One(req[r].pc \in BusyPc) + crashed <= One(rec.pc \in BusyPc) + crashed',
         crashed' >= crashed
  PROVE  Guesses'
<1>1. /\ guesses \in Nat /\ crashed \in Nat /\ MaxFails \in Nat
      /\ Outlived' = Outlived /\ Unused' = Unused /\ Outlived \in Nat /\ Unused \in Nat
  BY CodesAssumption DEF Inv, GhostOK, KeysOK, Outlived, Unused
<1>2. /\ One(rec.pc \in BusyPc) \in Nat /\ One(req[r].pc \in BusyPc) \in Nat
      /\ One(rec.pc = "delFail") * MaxFails = 0 /\ One(req[r].pc = "delFail") * MaxFails >= 0
      /\ One(req[r].pc = "delFail") * MaxFails \in Nat
  BY <1>1 DEF One
<1> QED  BY <1>1, <1>2, GuessStep

(* A code is stored: every late deletion to come and the expiry of an older
   counter is a round, but not one for the request that stores the code. *)
LEMMA Slack ==
  ASSUME NEW d \in Nat, NEW o \in Nat, NEW u \in Nat, NEW R \in Nat, NEW b \in Nat,
         NEW c \in Nat, d + o + u <= R
  PROVE  0 + d + o + u <= R + b + c
OBVIOUS

LEMMA SetOtpGuesses == ASSUME Inv, Inv', Guesses, NEW r \in Req, SetOtp(r) PROVE Guesses'
<1> DEFINE rec == [req[r] EXCEPT !.pc = "setCool"]
<1>1. /\ Become(r, rec) /\ guesses' = 0 /\ crashed' = crashed /\ req[r].pc = "setOtp"
  BY DEF SetOtp, Goto, At
<1>2. rec \in Request /\ rec.pc = "setCool"  BY Moves
<1> HIDE DEF rec
<1>3. /\ Cardinality(Busy') \in Nat /\ Cardinality(Req) \in Nat
      /\ Cardinality(Late) \in Nat /\ Cardinality(Late') = Cardinality(Late)
      /\ Cardinality(Late) + 1 <= Cardinality(Req)
  BY <1>1, <1>2, Counts DEF One
<1>4. /\ MaxFails \in Nat /\ crashed \in Nat /\ crashed' \in Nat
      /\ Outlived' \in 0..MaxFails /\ Unused' \in 0..MaxFails
  BY CodesAssumption DEF Inv, GhostOK, KeysOK, Outlived, Unused
<1>5. /\ Due' \in Nat /\ Rounds \in Nat /\ Rounds' = Rounds
      /\ Due' + MaxFails + MaxFails <= Rounds
  <2> DEFINE k == Cardinality(Late)
             n == Cardinality(Req)
  <2>1. k \in Nat /\ n \in Nat /\ k + 1 <= n  BY <1>3
  <2>2. Due' = MaxFails * k /\ Rounds = MaxFails * (n + 1) /\ Rounds' = Rounds
    BY <1>3 DEF Due, Rounds
  <2> HIDE DEF k, n
  <2>3. /\ MaxFails * k \in Nat /\ MaxFails * (k + 1) = MaxFails * k + MaxFails
        /\ MaxFails * (k + 1) <= MaxFails * n /\ MaxFails * n \in Nat
        /\ MaxFails * (n + 1) = MaxFails * n + MaxFails
    BY <1>4, <2>1, Times
  <2> QED  BY <1>4, <2>2, <2>3
<1>7. Due' + Outlived' + Unused' <= Rounds
  <2> DEFINE d == Due'
             o == Outlived'
             u == Unused'
  <2>1. /\ d \in Nat /\ o \in 0..MaxFails /\ u \in 0..MaxFails
        /\ d + MaxFails + MaxFails <= Rounds
    BY <1>4, <1>5
  <2> HIDE DEF d, o, u
  <2>2. /\ o \in Nat /\ o <= MaxFails /\ u \in Nat /\ u <= MaxFails
    BY <1>4, <2>1
  <2>3. d + o + u <= Rounds  BY <1>4, <1>5, <2>1, <2>2
  <2> QED  BY <2>3 DEF d, o, u
<1>8. guesses' + Due' + Outlived' + Unused' <= Rounds + Cardinality(Busy') + crashed'
  <2> DEFINE d == Due'
             o == Outlived'
             u == Unused'
             b == Cardinality(Busy')
  <2>1. d \in Nat /\ Rounds \in Nat  BY <1>5
  <2>2. o \in Nat /\ u \in Nat  BY <1>4
  <2>3. b \in Nat /\ crashed' \in Nat  BY <1>3, <1>4
  <2>4. d + o + u <= Rounds  BY <1>7
  <2> HIDE DEF d, o, u, b
  <2>5. 0 + d + o + u <= Rounds + b + crashed'
    BY <2>1, <2>2, <2>3, <2>4, Slack
  <2> QED  BY <1>1, <2>5 DEF d, o, u, b
<1>9. guesses' <= Rounds + Cardinality(Req) + crashed'
  BY <1>1, <1>3, <1>4, <1>5
<1> QED  BY <1>5, <1>8, <1>9 DEF Guesses

LEMMA VerifyGuesses ==
  ASSUME Inv, Inv', Guesses, NEW r \in Req, NEW guess, StartVerify(r, guess)
  PROVE  Guesses'
<1>1. /\ UNCHANGED <<otp, fail, crashed>> /\ otp.code # NoCode /\ req[r].pc = "idle"
  BY DEF StartVerify, keys, At
<1>2. /\ guesses \in Nat /\ crashed \in Nat /\ MaxFails \in Nat
      /\ Outlived' = Outlived /\ Unused' = Unused /\ Outlived \in Nat /\ Unused \in Nat
  BY <1>1, CodesAssumption DEF Inv, GhostOK, KeysOK, Outlived, Unused
<1>3. CASE guess = otp.code
  <2> DEFINE pc  == IF flow = "signup" THEN "delOtp" ELSE "update"
             rec == [pc |-> pc, code |-> guess, use |-> TRUE]
  <2>1. Become(r, rec) /\ guesses' = guesses  BY <1>3 DEF StartVerify
  <2>2. rec \in Request /\ rec.pc # "delFail"
    BY <1>1, <1>3 DEF Request, Inv, KeysOK
  <2> HIDE DEF rec
  <2> QED  BY <1>1, <1>2, <2>1, <2>2, QuietGuesses DEF One, BusyPc
<1>4. CASE guess # otp.code
  <2> DEFINE rec == [Idle EXCEPT !.pc = "incr"]
  <2>1. Become(r, rec) /\ guesses' = guesses + 1  BY <1>4 DEF StartVerify
  <2>2. rec \in Request /\ rec.pc = "incr"  BY DEF Idle, Request
  <2> HIDE DEF rec
  <2>3. /\ One(rec.pc \in BusyPc) = 1 /\ One(req[r].pc \in BusyPc) = 0
        /\ One(rec.pc = "delFail") * MaxFails = 0 /\ One(req[r].pc = "delFail") * MaxFails = 0
    BY <1>1, <1>2, <2>2 DEF One, BusyPc
  <2> QED  BY <1>1, <1>2, <2>1, <2>2, <2>3, GuessStep
<1> QED  BY <1>3, <1>4

(* A failure is counted; the counter of a code that is there never begins
   with less time than the code has. *)
LEMMA IncrGuesses == ASSUME Inv, Inv', Guesses, NEW r \in Req, Incr(r) PROVE Guesses'
<1>1. /\ UNCHANGED <<otp, guesses, crashed>> /\ req[r].pc = "incr"
      /\ fail' = [n |-> fail.n + 1, left |-> IF fail.n = 0 THEN OtpTtl ELSE fail.left]
  BY DEF Incr, At, ghost
<1>2. /\ guesses \in Nat /\ crashed \in Nat /\ MaxFails \in Nat /\ fail.n \in Nat
      /\ otp.left \in 0..OtpTtl /\ OtpTtl \in Nat
  BY CodesAssumption DEF Inv, GhostOK, KeysOK
<1>3. Outlived' <= Outlived /\ Outlived \in Nat /\ Outlived' \in Nat
  BY <1>1, <1>2, CodesAssumption DEF Inv, KeysOK, Outlived
<1>4. /\ Unused \in Nat /\ Unused' \in Nat
      /\ Unused' = IF fail.n + 1 > MaxFails THEN Unused ELSE Unused - 1
  BY <1>1, <1>2 DEF Unused
<1>5. CASE fail.n + 1 > MaxFails
  <2> DEFINE rec == [req[r] EXCEPT !.pc = "delOtp"]
  <2>1. Become(r, rec)  BY <1>5 DEF Incr, Goto
  <2>2. rec \in Request /\ rec.pc = "delOtp"  BY Moves
  <2> HIDE DEF rec
  <2>3. /\ One(rec.pc \in BusyPc) = 1 /\ One(req[r].pc \in BusyPc) = 1
        /\ One(rec.pc = "delFail") * MaxFails = 0 /\ One(req[r].pc = "delFail") * MaxFails = 0
    BY <1>1, <1>2, <2>2 DEF One, BusyPc
  <2> QED  BY <1>1, <1>2, <1>3, <1>4, <1>5, <2>1, <2>2, <2>3, GuessStep
<1>6. CASE ~ (fail.n + 1 > MaxFails)
  <2>1. Become(r, Idle)  BY <1>6 DEF Incr, Finish
  <2>2. /\ One(Idle.pc \in BusyPc) = 0 /\ One(req[r].pc \in BusyPc) = 1
        /\ One(Idle.pc = "delFail") * MaxFails = 0 /\ One(req[r].pc = "delFail") * MaxFails = 0
    BY <1>1, <1>2, IdleHolds DEF One, BusyPc
  <2> QED  BY <1>1, <1>2, <1>3, <1>4, <1>6, <2>1, <2>2, IdleHolds, GuessStep
<1> QED  BY <1>5, <1>6

LEMMA DeleteGuesses ==
  ASSUME Inv, Inv', Guesses, NEW r \in Req, DelOtp(r) \/ DelFail(r)
  PROVE  Guesses'
<1>1. /\ UNCHANGED <<guesses, crashed>> /\ guesses \in Nat /\ crashed \in Nat
      /\ MaxFails \in Nat
      /\ Outlived' \in Nat /\ Unused' \in Nat /\ Outlived \in Nat /\ Unused \in Nat
  BY CodesAssumption DEF DelOtp, DelFail, Inv, GhostOK, KeysOK, ghost, Outlived, Unused
<1>2. CASE DelOtp(r)
  <2> DEFINE rec == [req[r] EXCEPT !.pc = "delFail"]
  <2>1. Become(r, rec) /\ otp'.code = NoCode  BY <1>2 DEF DelOtp, Goto, NoOtp
  <2>2. rec \in Request  BY Moves
  <2> HIDE DEF rec
  <2> QED  BY <1>1, <2>1, <2>2, GuessStep
<1>3. CASE DelFail(r)
  <2> DEFINE rec == [req[r] EXCEPT !.pc = "token"]
  <2>1. Become(r, rec) /\ otp' = otp /\ req[r].pc = "delFail" /\ fail' = NoFail
    BY <1>3 DEF DelFail, Goto, At
  <2>2. rec \in Request /\ rec.pc = "token"  BY Moves
  <2> HIDE DEF rec
  <2>3. /\ One(rec.pc \in BusyPc) = 0 /\ One(req[r].pc \in BusyPc) = 0
        /\ One(rec.pc = "delFail") * MaxFails = 0
        /\ One(req[r].pc = "delFail") * MaxFails = MaxFails
    BY <1>1, <2>1, <2>2 DEF One, BusyPc
  <2>4. Outlived' = 0 /\ Unused' <= MaxFails
    BY <1>1, <2>1 DEF NoFail, Outlived, Unused
  <2> QED  BY <1>1, <2>1, <2>2, <2>3, <2>4, GuessStep
<1> QED  BY <1>2, <1>3

(* Time: the counter expires before the code only if Outlived allowed for it. *)
LEMMA TickGuesses == ASSUME Inv, Inv', Guesses, Tick PROVE Guesses'
<1>1. /\ UNCHANGED <<req, guesses, crashed>> /\ Busy' = Busy /\ Due' = Due /\ Rounds' = Rounds
  BY DEF Tick, ghost, Busy, Late, Due, Rounds
<1>2. /\ guesses \in Nat /\ crashed \in Nat /\ MaxFails \in Nat /\ fail.n \in Nat
      /\ otp.left \in Nat /\ fail.left \in Nat
      /\ (otp.code = NoCode <=> otp.left = 0) /\ (fail.n = 0 <=> fail.left = 0)
  BY CodesAssumption DEF Inv, GhostOK, KeysOK
<1>3. ASSUME otp'.code # NoCode
      PROVE  /\ otp.code # NoCode /\ Outlived' + Unused' <= Outlived + Unused
             /\ Outlived' \in Nat /\ Unused' \in Nat /\ Outlived \in Nat /\ Unused \in Nat
  <2>1. otp.left > 1 /\ otp'.left = otp.left - 1 /\ otp.code # NoCode
    BY <1>2, <1>3 DEF Tick, NoOtp, Inv, KeysOK
  <2>2. CASE fail.left <= 1
    <3>1. fail' = NoFail  BY <2>2 DEF Tick
    <3> QED  BY <1>2, <2>1, <2>2, <3>1 DEF NoFail, Outlived, Unused
  <2>3. CASE fail.left > 1
    <3>1. fail'.n = fail.n /\ fail'.left = fail.left - 1
      BY <1>2, <2>3 DEF Tick, Inv, KeysOK
    <3> QED  BY <1>2, <2>1, <2>3, <3>1 DEF Outlived, Unused
  <2> QED  BY <1>2, <2>2, <2>3
<1>4. Cardinality(Busy) \in Nat /\ Due \in Nat /\ Rounds \in Nat
  <2>1. Busy \in SUBSET Req /\ Late \in SUBSET Req  BY DEF Busy, Late
  <2>2. Cardinality(Busy) \in Nat /\ Cardinality(Late) \in Nat /\ Cardinality(Req) \in Nat
    BY <2>1, CodesAssumption, FS_Subset, FS_CardinalityType
  <2> QED  BY <1>2, <2>2, Times DEF Due, Rounds
<1> QED  BY <1>1, <1>2, <1>3, <1>4 DEF Guesses

LEMMA InitGuesses == Init => Guesses
<1> SUFFICES ASSUME Init PROVE Guesses  OBVIOUS
<1>1. Cardinality(Req) \in Nat  BY CodesAssumption, FS_CardinalityType
<1>2. Rounds \in Nat  BY <1>1, CodesAssumption, Times DEF Rounds
<1> QED  BY <1>1, <1>2 DEF Guesses, Init, NoOtp

LEMMA NextGuesses == Inv /\ Inv' /\ Guesses /\ [Next]_vars => Guesses'
<1> SUFFICES ASSUME Inv, Inv', Guesses, [Next]_vars PROVE Guesses'  OBVIOUS
<1>0. /\ crashed \in Nat /\ crashed' \in Nat /\ MaxCrashes \in Nat
  BY CodesAssumption DEF Inv, GhostOK
<1>1. ASSUME NEW r \in Req, SetCool(r) \/ RemoveJob(r)
      PROVE  Guesses'
  <2>1. PICK pc \in {"remove", "add"} : Goto(r, pc)
    BY <1>1 DEF SetCool, RemoveJob
  <2> DEFINE rec == [req[r] EXCEPT !.pc = pc]
  <2>2. rec \in Request /\ rec.pc = pc  BY <2>1, Moves
  <2>3. /\ Become(r, rec) /\ UNCHANGED <<otp, fail, guesses, crashed>>
        /\ req[r].pc \in {"setCool", "remove"}
    BY <1>1, <2>1 DEF SetCool, RemoveJob, Goto, keys, ghost, At
  <2> HIDE DEF rec
  <2> QED  BY <1>0, <2>2, <2>3, QuietGuesses DEF One, BusyPc
<1>2. ASSUME NEW r \in Req, StartSend(r) PROVE Guesses'
  <2>1. PICK c \in Code \ issued : Become(r, [Idle EXCEPT !.pc = "setOtp", !.code = c])
    BY <1>2 DEF StartSend
  <2> DEFINE rec == [Idle EXCEPT !.pc = "setOtp", !.code = c]
  <2>2. rec \in Request /\ rec.pc = "setOtp"  BY DEF Idle, Request
  <2>3. /\ Become(r, rec) /\ UNCHANGED <<otp, fail, guesses, crashed>> /\ req[r].pc = "idle"
    BY <1>2, <2>1 DEF StartSend, keys, ghost, At
  <2> HIDE DEF rec
  <2> QED  BY <1>0, <2>2, <2>3, QuietGuesses DEF One, BusyPc
<1>3. ASSUME NEW r \in Req, Update(r) PROVE Guesses'
  <2>1. PICK found \in BOOLEAN : Become(r, [req[r] EXCEPT !.pc = "delOtp", !.use = found])
    BY <1>3 DEF Update
  <2> DEFINE rec == [req[r] EXCEPT !.pc = "delOtp", !.use = found]
  <2>2. rec \in Request /\ rec.pc = "delOtp"  BY DEF Inv, Request
  <2>3. /\ Become(r, rec) /\ UNCHANGED <<otp, fail, guesses, crashed>> /\ req[r].pc = "update"
    BY <1>3, <2>1 DEF Update, keys, ghost, At
  <2> HIDE DEF rec
  <2> QED  BY <1>0, <2>2, <2>3, QuietGuesses DEF One, BusyPc
<1>4. ASSUME NEW r \in Req, AddJob(r) \/ Answer(r) \/ Crash(r) PROVE Guesses'
  <2>1. /\ Become(r, Idle) /\ UNCHANGED <<otp, fail, guesses>>
        /\ \/ crashed' = crashed /\ req[r].pc \in {"add", "token"}
           \/ crashed' = crashed + 1
    BY <1>4 DEF AddJob, Answer, Crash, Finish, keys, ghost, At
  <2>2. Idle \in Request /\ Idle.pc = "idle"  BY DEF Idle, Request
  <2>3. One(Idle.pc \in BusyPc) = 0 /\ One(req[r].pc \in BusyPc) \in {0, 1}
    BY <2>2 DEF One, BusyPc
  <2>4. req[r].pc \in {"add", "token"} => One(req[r].pc \in BusyPc) = 0
    BY DEF One, BusyPc
  <2> QED  BY <1>0, <2>1, <2>2, <2>3, <2>4, QuietGuesses
<1>5. CASE WorkerStep \/ SendFails \/ UNCHANGED vars
  <2>1. UNCHANGED <<otp, fail, req, guesses, crashed>>
    BY <1>5 DEF WorkerStep, TakeJob, Check, Send, SendFails, vars, keys, ghost
  <2> QED  BY <2>1 DEF Guesses, Due, Late, Busy, Outlived, Unused, Rounds
<1> QED
  BY <1>1, <1>2, <1>3, <1>4, <1>5, SetOtpGuesses, VerifyGuesses, IncrGuesses, DeleteGuesses,
     TickGuesses DEF Next, RequestStep

-----------------------------------------------------------------------------
(* Every variable keeps its type; a key lives exactly while it has time left,
   and only codes that were drawn are queued and mailed. *)
THEOREM TypeCorrect == Spec => []TypeOK
<1>1. Inv => TypeOK  BY DEF Inv, KeysOK, GhostOK, MailOK, TypeOK
<1> QED  BY InvHolds, <1>1, PTL

(* A code whose use was answered is gone, whatever sends, guesses and crashes
   overlap (verifyEmailCode, passwordResetConfirm: compare, then delete). *)
THEOREM SpentIsGoneHolds == Spec => []SpentIsGone
BY InvHolds, PTL DEF Inv

(* However many requests guess at once, and whatever deletes the counter late,
   expires or stops, a code is compared with a bounded number of wrong guesses
   (OTP_MAX_FAILS). *)
THEOREM GuessesBoundedHolds == Spec => []GuessesBounded
<1>1. Guesses /\ Inv => GuessesBounded
  <2> SUFFICES ASSUME Guesses, Inv PROVE GuessesBounded  OBVIOUS
  <2> DEFINE n == Cardinality(Req)
  <2>1. n \in Nat  BY CodesAssumption, FS_CardinalityType
  <2>2. MaxFails \in Nat /\ guesses \in Nat /\ crashed \in Nat
    BY CodesAssumption DEF Inv, GhostOK
  <2>3. guesses <= MaxFails * (n + 1) + n + crashed  BY DEF Guesses, Rounds
  <2> HIDE DEF n
  <2>4. (MaxFails + 1) * (n + 1) = MaxFails * (n + 1) + n + 1 /\ MaxFails * (n + 1) \in Nat
    BY <2>1, <2>2
  <2>5. guesses <= (MaxFails + 1) * (n + 1) + crashed  BY <2>1, <2>2, <2>3, <2>4
  <2> QED  BY <2>5 DEF GuessesBounded, n
<1>2. Spec => []Guesses  BY InvHolds, InitGuesses, NextGuesses, PTL DEF Spec
<1> QED  BY InvHolds, <1>1, <1>2, PTL
=============================================================================
