-------------------------------- MODULE Codes --------------------------------
(***************************************************************************)
(* The one-time codes of one e-mail address: sendEmailCode and             *)
(* verifyEmailCode, or passwordResetRequest and passwordResetConfirm, which *)
(* follow the same protocol under other keys (auth.service.ts), over three *)
(* Redis keys with a time to live, and the queue and worker that mail the  *)
(* code (email-queue.service.ts, email.processor.ts, email.service.ts).    *)
(* Every await ends an action.  Codes are random: a new one is unused.     *)
(***************************************************************************)
EXTENDS Integers, FiniteSets

CONSTANTS
    Req,         \* requests in flight
    Code, NoCode,
    Wrong,       \* a guess that is no code
    MaxFails,    \* OTP_MAX_FAILS
    OtpTtl,      \* OTP_TTL, in ticks; also of the failure counter
    CoolTtl,     \* OTP_COOLDOWN_SECONDS, in ticks
    Attempts,    \* attempts of a mail job
    MaxCrashes   \* bound on the requests that stop half-way

ASSUME CodesAssumption ==
    /\ NoCode \notin Code /\ Wrong \notin Code /\ Wrong # NoCode /\ IsFiniteSet(Req)
    /\ MaxFails \in Nat /\ MaxCrashes \in Nat
    /\ OtpTtl \in Nat \ {0} /\ CoolTtl \in Nat \ {0} /\ Attempts \in Nat \ {0}

VARIABLES
    flow,      \* signup or reset
    otp,       \* ...:otp:<email>: the code and the ticks it has left
    fail,      \* ...:otp:fail:<email>
    cool,      \* ticks left of ...:otp:cooldown:<email>, 0 without the key
    issued,    \* codes drawn
    job,       \* the one mail job of the key
    worker,    \* the worker that runs it
    inbox,     \* codes mailed
    req,       \* the requests
    guesses,   \* ghost: wrong guesses compared with the code stored last
    spent,     \* ghost: codes whose use was answered
    crashed    \* ghost: requests that stopped

keys  == <<otp, fail, cool>>
mail  == <<job, worker, inbox>>
ghost == <<guesses, spent, crashed>>
vars  == <<flow, issued, keys, mail, req, ghost>>

NoOtp  == [code |-> NoCode, left |-> 0]
NoFail == [n |-> 0, left |-> 0]
NoJob  == [st |-> "none", code |-> NoCode, left |-> 0]
Request == [pc : {"idle", "setOtp", "setCool", "remove", "add", "incr", "update",
                  "delOtp", "delFail", "token"},
            code : Code \cup {NoCode},  \* the code to send or to use; none after a wrong guess
            use  : BOOLEAN]             \* the code was right
Idle == [pc |-> "idle", code |-> NoCode, use |-> FALSE]

TypeOK ==
    /\ flow \in {"signup", "reset"}
    /\ otp \in [code : Code \cup {NoCode}, left : 0..OtpTtl]
    /\ fail \in [n : Nat, left : 0..OtpTtl] /\ cool \in 0..CoolTtl
    /\ (otp.code = NoCode <=> otp.left = 0) /\ (fail.n = 0 <=> fail.left = 0)
    /\ issued \subseteq Code /\ inbox \subseteq issued /\ spent \subseteq issued
    /\ job \in [st : {"none", "waiting", "active", "failed"}, code : Code \cup {NoCode},
                left : 0..Attempts]
    /\ worker \in {"idle", "check", "send"}
    /\ req \in [Req -> Request]
    /\ guesses \in Nat /\ crashed \in 0..MaxCrashes

Init ==
    /\ flow \in {"signup", "reset"}
    /\ otp = NoOtp /\ fail = NoFail /\ cool = 0 /\ issued = {}
    /\ job = NoJob /\ worker = "idle" /\ inbox = {}
    /\ req = [r \in Req |-> Idle]
    /\ guesses = 0 /\ spent = {} /\ crashed = 0

At(r, pc) == req[r].pc = pc
Become(r, request) == req' = [req EXCEPT ![r] = request]
Goto(r, pc) == Become(r, [req[r] EXCEPT !.pc = pc])
Finish(r) == Become(r, Idle)

-----------------------------------------------------------------------------
(* sendEmailCode, passwordResetRequest of an account with a password: unless
   the cooldown is there a code is drawn ... *)
StartSend(r) ==
    /\ At(r, "idle") /\ cool = 0
    /\ \E c \in Code \ issued :
         issued' = issued \cup {c} /\ Become(r, [Idle EXCEPT !.pc = "setOtp", !.code = c])
    /\ UNCHANGED <<flow, keys, mail, ghost>>

(* ... and stored over the one before; the failures are left as they are. *)
SetOtp(r) ==
    /\ At(r, "setOtp")
    /\ otp' = [code |-> req[r].code, left |-> OtpTtl]
    /\ guesses' = 0
    /\ Goto(r, "setCool")
    /\ UNCHANGED <<flow, fail, cool, issued, mail, spent, crashed>>

SetCool(r) ==
    /\ At(r, "setCool")
    /\ cool' = CoolTtl
    /\ Goto(r, "remove")
    /\ UNCHANGED <<flow, otp, fail, issued, mail, ghost>>

(* enqueueOtp: a job of the key goes, unless a worker holds its lock. *)
RemoveJob(r) ==
    /\ At(r, "remove")
    /\ job' = IF job.st = "active" THEN job ELSE NoJob
    /\ Goto(r, "add")
    /\ UNCHANGED <<flow, keys, issued, worker, inbox, ghost>>

(* The queue ignores a job whose id it has. *)
AddJob(r) ==
    /\ At(r, "add")
    /\ job' = IF job.st # "none" THEN job
              ELSE [st |-> "waiting", code |-> req[r].code, left |-> Attempts]
    /\ Finish(r)
    /\ UNCHANGED <<flow, keys, issued, worker, inbox, ghost>>

-----------------------------------------------------------------------------
(* verifyEmailCode, passwordResetConfirm: the guess is compared with what is
   stored; a code is right if the client has had the mail. *)
StartVerify(r, guess) ==
    /\ At(r, "idle") /\ otp.code # NoCode
    /\ IF guess = otp.code
       THEN /\ Become(r, [pc |-> IF flow = "signup" THEN "delOtp" ELSE "update",
                          code |-> guess, use |-> TRUE])
            /\ UNCHANGED guesses
       ELSE /\ Become(r, [Idle EXCEPT !.pc = "incr"])
            /\ guesses' = guesses + 1
    /\ UNCHANGED <<flow, keys, issued, mail, spent, crashed>>

(* Mutant: the limit is never met. *)
IncrUnlimited(r) ==
    /\ At(r, "incr")
    /\ fail' = [n |-> fail.n + 1, left |-> IF fail.n = 0 THEN OtpTtl ELSE fail.left]
    /\ Finish(r)
    /\ UNCHANGED <<flow, otp, cool, issued, mail, ghost>>

(* incrWithTtlOnFirst; one failure too many ends the code. *)
Incr(r) ==
    /\ At(r, "incr")
    /\ fail' = [n |-> fail.n + 1, left |-> IF fail.n = 0 THEN OtpTtl ELSE fail.left]
    /\ IF fail.n + 1 > MaxFails THEN Goto(r, "delOtp") ELSE Finish(r)
    /\ UNCHANGED <<flow, otp, cool, issued, mail, ghost>>

(* A reset writes the password first and deletes the code with the sessions;
   an account that is gone only deletes. *)
Update(r) ==
    /\ At(r, "update")
    /\ \E found \in BOOLEAN : Become(r, [req[r] EXCEPT !.pc = "delOtp", !.use = found])
    /\ UNCHANGED <<flow, keys, issued, mail, ghost>>

(* Mutant: only a code that was guessed wrong too often is deleted. *)
DelOtpOnFailures(r) ==
    /\ At(r, "delOtp")
    /\ otp' = IF req[r].use THEN otp ELSE NoOtp
    /\ Goto(r, "delFail")
    /\ UNCHANGED <<flow, fail, cool, issued, mail, ghost>>

DelOtp(r) ==
    /\ At(r, "delOtp")
    /\ otp' = NoOtp
    /\ Goto(r, "delFail")
    /\ UNCHANGED <<flow, fail, cool, issued, mail, ghost>>

(* Mutant: the last delete forgets the counter's life time. *)
DelFailCount(r) ==
    /\ At(r, "delFail")
    /\ fail' = [fail EXCEPT !.n = 0]
    /\ Goto(r, "token")
    /\ UNCHANGED <<flow, otp, cool, issued, mail, ghost>>

DelFail(r) ==
    /\ At(r, "delFail")
    /\ fail' = NoFail
    /\ Goto(r, "token")
    /\ UNCHANGED <<flow, otp, cool, issued, mail, ghost>>

(* The answer; before it a sign-up gets its verify token. *)
Answer(r) ==
    /\ At(r, "token")
    /\ spent' = IF req[r].use THEN spent \cup {req[r].code} ELSE spent
    /\ Finish(r)
    /\ UNCHANGED <<flow, keys, issued, mail, guesses, crashed>>

-----------------------------------------------------------------------------
(* email.processor.ts: a job whose code is not the stored one is done ... *)
TakeJob ==
    /\ job.st = "waiting" /\ worker = "idle"
    /\ job' = [job EXCEPT !.st = "active"] /\ worker' = "check"
    /\ UNCHANGED <<flow, keys, issued, inbox, req, ghost>>

Check ==
    /\ worker = "check"
    /\ IF otp.code = job.code THEN worker' = "send" /\ UNCHANGED job
                              ELSE worker' = "idle" /\ job' = NoJob
    /\ UNCHANGED <<flow, keys, issued, inbox, req, ghost>>

(* Mutant: send swallows the error and the job counts as done. *)
SendSwallowed ==
    /\ worker = "send"
    /\ worker' = "idle" /\ job' = NoJob
    /\ UNCHANGED <<flow, keys, issued, inbox, req, ghost>>

(* ... otherwise it is sent; the job is removed. *)
Send ==
    /\ worker = "send"
    /\ inbox' = inbox \cup {job.code}
    /\ worker' = "idle" /\ job' = NoJob
    /\ UNCHANGED <<flow, keys, issued, req, ghost>>

(* SMTP fails, and the error is thrown: the job is tried again or kept. *)
SendFails ==
    /\ worker = "send"
    /\ worker' = "idle"
    /\ job' = [job EXCEPT !.st = IF job.left > 1 THEN "waiting" ELSE "failed", !.left = @ - 1]
    /\ UNCHANGED <<flow, keys, issued, inbox, req, ghost>>

-----------------------------------------------------------------------------
Crash(r) ==
    /\ ~ At(r, "idle") /\ crashed < MaxCrashes
    /\ crashed' = crashed + 1
    /\ Finish(r)
    /\ UNCHANGED <<flow, keys, issued, mail, guesses, spent>>

Less(n) == IF n = 0 THEN 0 ELSE n - 1
Tick ==
    /\ otp' = IF otp.left <= 1 THEN NoOtp ELSE [otp EXCEPT !.left = @ - 1]
    /\ fail' = IF fail.left <= 1 THEN NoFail ELSE [fail EXCEPT !.left = @ - 1]
    /\ cool' = Less(cool)
    /\ keys' # keys
    /\ UNCHANGED <<flow, issued, mail, req, ghost>>

RequestStep(r) ==
    \/ SetOtp(r) \/ SetCool(r) \/ RemoveJob(r) \/ AddJob(r)
    \/ Incr(r) \/ Update(r) \/ DelOtp(r) \/ DelFail(r) \/ Answer(r)
WorkerStep == TakeJob \/ Check \/ Send

Next ==
    \/ \E r \in Req : \/ StartSend(r) \/ RequestStep(r) \/ Crash(r)
                     \/ \E guess \in inbox \cup {Wrong} : StartVerify(r, guess)
    \/ WorkerStep \/ SendFails \/ Tick

Spec == Init /\ [][Next]_vars

(* The queue's worker runs, and an SMTP error is one of the worker's ways to
   go on. *)
Fairness == WF_vars(WorkerStep \/ SendFails)
FairSpec == Spec /\ Fairness

-----------------------------------------------------------------------------
(* Properties *)

(* The limit on wrong guesses holds for every code, with requests that
   overlap, a counter that outlives its code or is deleted late by a request
   about an earlier one, and requests that stop before they delete: each
   request in flight, and the expiry of the counter, can cost one round. *)
GuessesBounded ==
    guesses <= (MaxFails + 1) * (Cardinality(Req) + 1) + crashed

(* A code whose use was answered is gone: no later request can use it. *)
SpentIsGone == otp.code \notin spent

(* A queued code is mailed, unless it is no longer the code, or its job has used
   up its attempts (email.processor.ts: throw to retry), or another request is
   about to put its own job in its place. *)
QueuedCodeMailed ==
    \A c \in Code : (job.st = "waiting" /\ job.code = c) ~>
        \/ c \in inbox \/ otp.code # c
        \/ job.st = "failed" /\ job.code = c
        \/ \E r \in Req : At(r, "add")
=============================================================================
