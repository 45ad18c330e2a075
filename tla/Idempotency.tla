---------------------------- MODULE Idempotency ----------------------------
(***************************************************************************)
(* The Idempotency-Key interceptor: the requests of one principal, on any  *)
(* number of API processes, that carry keys.  A key stands for the whole   *)
(* namespace (method, path, principal, key hash), a body for its hash, and *)
(* the response a handler returned for a body is represented by the body.  *)
(* Every await of processIdempotent and pollForResult ends an action.      *)
(***************************************************************************)
EXTENDS Integers, FiniteSets

CONSTANTS
    Req, Key, Body,
    NoReq, NoKey, NoBody,
    MaxNewKeys,    \* MAX_NEW_KEYS_PER_HOUR
    PollAttempts,  \* LOCK_MAX_WAIT_MS / LOCK_POLL_INTERVAL_MS
    RetainHours,   \* TTL_SECONDS, in hours
    Crashes,       \* a process may stop between two awaits
    SlowHandlers,  \* a handler may outlive LOCK_TTL_SECONDS
    FaultyRedis    \* storing the result or releasing the lock may fail

ASSUME NullAssumption == NoReq \notin Req /\ NoKey \notin Key /\ NoBody \notin Body
ASSUME BoundAssumption == /\ MaxNewKeys \in Nat /\ PollAttempts \in Nat \ {0}
                          /\ RetainHours \in Nat \ {0}
ASSUME FaultAssumption == {Crashes, SlowHandlers, FaultyRedis} \subseteq BOOLEAN

VARIABLES
    cache,    \* idempotency:<ns>: the body whose response is stored
    age,      \* hours since the result was stored
    lock,     \* idempotency:lock:<ns>: set or not; the value names the setter (ghost)
    quota,    \* idempotency:quota:<principal>, saturating just above the limit
    req,      \* the requests
    admitted, \* ghost: handlers started since the quota window opened
    runs      \* ghost: handlers that succeeded since the key last held no
              \* result (bound: 2 stands for any larger number)

vars == <<cache, age, lock, quota, req, admitted, runs>>

Pc == {"idle", "lookup", "acquire", "poll", "quota", "handler", "store", "unlock", "reply"}
Request == [pc     : Pc,
            key    : Key \cup {NoKey},
            body   : Body \cup {NoBody},
            polls  : Nat,
            answer : Body \cup {NoBody}]  \* NoBody: an error

Idle == [pc |-> "idle", key |-> NoKey, body |-> NoBody, polls |-> 0, answer |-> NoBody]

TypeOK ==
    /\ cache \in [Key -> Body \cup {NoBody}]
    /\ age \in [Key -> 0..RetainHours]
    /\ lock \in [Key -> Req \cup {NoReq}]
    /\ quota \in 0..(MaxNewKeys + 1)
    /\ req \in [Req -> Request]
    /\ admitted \in Nat
    /\ runs \in [Key -> 0..2]

Init ==
    /\ cache = [k \in Key |-> NoBody] /\ age = [k \in Key |-> 0]
    /\ lock = [k \in Key |-> NoReq]
    /\ quota = 0 /\ admitted = 0
    /\ runs = [k \in Key |-> 0]
    /\ req = [r \in Req |-> Idle]

At(r, pc) == req[r].pc = pc
Become(r, request) == req' = [req EXCEPT ![r] = request]
Goto(r, pc) == Become(r, [req[r] EXCEPT !.pc = pc])
Reply(r, answer) == Become(r, [req[r] EXCEPT !.pc = "reply", !.answer = answer])

(* Mutant: the stored body is not compared. *)
ReplayAnyBody(r) == Reply(r, cache[req[r].key])

(* A stored result answers a request with the same body; another body is a
   conflict. *)
Replay(r) ==
    Reply(r, IF cache[req[r].key] = req[r].body THEN cache[req[r].key] ELSE NoBody)
-----------------------------------------------------------------------------
Start(r, k, b) ==
    /\ At(r, "idle")
    /\ Become(r, [Idle EXCEPT !.pc = "lookup", !.key = k, !.body = b])
    /\ UNCHANGED <<cache, age, lock, quota, admitted, runs>>

Lookup(r) ==
    /\ At(r, "lookup")
    /\ IF cache[req[r].key] = NoBody THEN Goto(r, "acquire") ELSE Replay(r)
    /\ UNCHANGED <<cache, age, lock, quota, admitted, runs>>

(* Mutant: SET without NX. *)
AcquireAlways(r) ==
    /\ At(r, "acquire")
    /\ lock' = [lock EXCEPT ![req[r].key] = r]
    /\ Goto(r, "quota")
    /\ UNCHANGED <<cache, age, quota, admitted, runs>>

(* SET NX: the lock goes to the first, the others poll for its result. *)
Acquire(r) ==
    LET k == req[r].key IN
    /\ At(r, "acquire")
    /\ IF lock[k] = NoReq
       THEN lock' = [lock EXCEPT ![k] = r] /\ Goto(r, "quota")
       ELSE Goto(r, "poll") /\ UNCHANGED lock
    /\ UNCHANGED <<cache, age, quota, admitted, runs>>

(* Mutant: the waiter has no deadline. *)
PollForever(r) ==
    /\ At(r, "poll")
    /\ cache[req[r].key] # NoBody
    /\ Replay(r)
    /\ UNCHANGED <<cache, age, lock, quota, admitted, runs>>

(* The poll interval passes first; then the result, another round, or 503. *)
Poll(r) ==
    /\ At(r, "poll")
    /\ \/ cache[req[r].key] # NoBody /\ Replay(r)
       \/ /\ cache[req[r].key] = NoBody
          /\ IF req[r].polls + 1 < PollAttempts
             THEN Become(r, [req[r] EXCEPT !.polls = @ + 1])
             ELSE Reply(r, NoBody)
    /\ UNCHANGED <<cache, age, lock, quota, admitted, runs>>

(* Mutant: the count before the INCR decides. *)
QuotaOldCount(r) ==
    /\ At(r, "quota")
    /\ quota' = IF quota > MaxNewKeys THEN quota ELSE quota + 1
    /\ IF quota > MaxNewKeys
       THEN Goto(r, "unlock") /\ UNCHANGED admitted
       ELSE Goto(r, "handler") /\ admitted' = admitted + 1
    /\ UNCHANGED <<cache, age, lock, runs>>

(* One atomic INCR counts the new key, and the count decides. *)
Quota(r) ==
    /\ At(r, "quota")
    /\ quota' = IF quota > MaxNewKeys THEN quota ELSE quota + 1
    /\ IF quota' > MaxNewKeys
       THEN Goto(r, "unlock") /\ UNCHANGED admitted
       ELSE Goto(r, "handler") /\ admitted' = admitted + 1
    /\ UNCHANGED <<cache, age, lock, runs>>

Handler(r) ==
    LET k == req[r].key IN
    /\ At(r, "handler")
    /\ \/ /\ Goto(r, "store")
          /\ runs' = [runs EXCEPT ![k] = IF @ = 2 THEN 2 ELSE @ + 1]
       \/ Goto(r, "unlock") /\ UNCHANGED runs           \* the handler throws
    /\ UNCHANGED <<cache, age, lock, quota, admitted>>

Store(r) ==
    LET k == req[r].key IN
    /\ At(r, "store")
    /\ \/ /\ cache' = [cache EXCEPT ![k] = req[r].body]
          /\ age' = [age EXCEPT ![k] = 0]
          /\ Become(r, [req[r] EXCEPT !.pc = "unlock", !.answer = req[r].body])
       \/ FaultyRedis /\ Goto(r, "unlock") /\ UNCHANGED <<cache, age>>
    /\ UNCHANGED <<lock, quota, admitted, runs>>

(* finally: DEL of the lock, whoever set it; a failure is swallowed. *)
Unlock(r) ==
    /\ At(r, "unlock")
    /\ \/ lock' = [lock EXCEPT ![req[r].key] = NoReq]
       \/ FaultyRedis /\ UNCHANGED lock
    /\ Goto(r, "reply")
    /\ UNCHANGED <<cache, age, quota, admitted, runs>>

Return(r) ==
    /\ At(r, "reply")
    /\ Become(r, Idle)
    /\ UNCHANGED <<cache, age, lock, quota, admitted, runs>>

-----------------------------------------------------------------------------
(* The part of processIdempotent the lock is there for. *)
InSection(r, k) == req[r].key = k /\ req[r].pc \in {"quota", "handler", "store", "unlock"}

(* The process stops: the lock and what the handler did stay. *)
Crash(r) ==
    /\ Crashes /\ ~ At(r, "idle")
    /\ Become(r, Idle)
    /\ UNCHANGED <<cache, age, lock, quota, admitted, runs>>

(* Mutant: the lock is set without EX. *)
ExpireLockNever(k) == k \notin Key /\ UNCHANGED vars

(* The lock's 30 s pass: only the handler itself can take that long. *)
ExpireLock(k) ==
    /\ lock[k] # NoReq
    /\ InSection(lock[k], k) => SlowHandlers /\ At(lock[k], "handler")
    /\ lock' = [lock EXCEPT ![k] = NoReq]
    /\ UNCHANGED <<cache, age, quota, req, admitted, runs>>

(* Mutant: a result survives the hour it should expire in. *)
HourTooMany ==
    /\ \E k \in Key : cache[k] # NoBody /\ age[k] <= RetainHours
    /\ age' = [k \in Key |-> IF cache[k] # NoBody /\ age[k] <= RetainHours
                            THEN age[k] + 1 ELSE age[k]]
    /\ UNCHANGED <<cache, lock, quota, req, admitted, runs>>

(* Results age by the hour and expire after TTL_SECONDS. *)
Hour ==
    /\ \E k \in Key : cache[k] # NoBody /\ age[k] < RetainHours
    /\ age' = [k \in Key |-> IF cache[k] # NoBody /\ age[k] < RetainHours
                            THEN age[k] + 1 ELSE age[k]]
    /\ UNCHANGED <<cache, lock, quota, req, admitted, runs>>

ExpireResult(k) ==
    /\ cache[k] # NoBody /\ age[k] = RetainHours
    /\ cache' = [cache EXCEPT ![k] = NoBody]
    /\ age' = [age EXCEPT ![k] = 0]
    /\ runs' = [runs EXCEPT ![k] = 0]
    /\ UNCHANGED <<lock, quota, req, admitted>>

(* The quota window began at its first INCR and closes an hour later. *)
ExpireQuota ==
    /\ quota > 0
    /\ quota' = 0 /\ admitted' = 0
    /\ UNCHANGED <<cache, age, lock, req, runs>>

-----------------------------------------------------------------------------
Step(r) == \/ Lookup(r) \/ Acquire(r) \/ Poll(r) \/ Quota(r) \/ Handler(r)
           \/ Store(r) \/ Unlock(r) \/ Return(r)

Next == \/ \E r \in Req : \/ Step(r) \/ Crash(r)
                          \/ \E k \in Key, b \in Body : Start(r, k, b)
        \/ \E k \in Key : ExpireLock(k) \/ ExpireResult(k)
        \/ Hour \/ ExpireQuota

Spec == Init /\ [][Next]_vars

(* Handlers end, Node runs every continuation, and Redis expires its keys. *)
Fairness == /\ \A r \in Req : WF_vars(Step(r))
            /\ \A k \in Key : WF_vars(ExpireLock(k))
FairSpec == Spec /\ Fairness

-----------------------------------------------------------------------------
(* Properties *)

(* Two requests with one key never execute its handler at the same time
   (processIdempotent, "동시 요청 보호"): the lock survives until its setter is
   done or gone, whatever crashes. *)
HandlersExclusive ==
    \A k \in Key : \A r, q \in Req : InSection(r, k) /\ InSection(q, k) => r = q

(* A client never receives the response computed for another body, even when
   the body that held the key when it began polling differs from the one whose
   result ends up stored. *)
AnswersOwnBody ==
    \A r \in Req : At(r, "reply") => req[r].answer \in {req[r].body, NoBody}

(* No more than MAX_NEW_KEYS_PER_HOUR handlers start in a quota window, with
   requests of different keys counting at once and crashing after counting. *)
QuotaBound == admitted <= MaxNewKeys

(* A key is never wedged: a lock whose setter crashed, or failed to delete it,
   goes by its TTL. *)
LockReleased == \A k \in Key : []<> (lock[k] = NoReq)

(* Waiters do not wait on each other or on the dead: every request ends. *)
RequestsAnswered == \A r \in Req : []<> At(r, "idle")

(* While a key's result is retained its handler has succeeded at most once
   (idempotency.interceptor.ts: a repeated request is answered with the stored
   response, a concurrent one waits for it). *)
AtMostOnce == \A k \in Key : cache[k] # NoBody => runs[k] <= 1
=============================================================================
