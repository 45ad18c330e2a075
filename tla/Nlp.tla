--------------------------------- MODULE Nlp ---------------------------------
(***************************************************************************)
(* Text analysis of one user: analyze writes a job and sends a message     *)
(* (nlp.service.ts, sqs.service.ts), SQS hands it to Lambda workers at     *)
(* least once, and a worker runs the analysis and records its outcome      *)
(* (lambda/nlp-worker).  Every await ends an action.                       *)
(***************************************************************************)
EXTENDS Integers, FiniteSets

CONSTANTS
    Req,          \* requests in flight
    MaxJobs,      \* bound on the jobs
    Worker,       \* Lambda invocations
    Limit,        \* jobs in a day (100)
    MaxReceive,   \* receives before SQS moves a message to its dead-letter queue
    MaxFaults     \* bound on the calls that fail and on crashes

ASSUME NlpAssumption ==
    /\ IsFiniteSet(Req) /\ MaxJobs \in Nat
    /\ Limit \in Nat \ {0} /\ MaxReceive \in Nat \ {0} /\ MaxFaults \in Nat

VARIABLES
    job,      \* nlp_jobs: the status, "none" without the row
    recent,   \* jobs created in the last 24 hours, which outlast a message
    used,     \* ids drawn so far
    msg,      \* the job's message: in the queue, in flight, deleted or dead
    recv,     \* times it was received
    req, work,
    sent,     \* ghost: jobs whose id the client has
    faults    \* faults so far

sqs  == <<msg, recv>>
vars == <<job, recent, used, sqs, req, work, sent, faults>>
api  == <<recent, used, req, sent>>

Job == 1..MaxJobs
NoJob == 0
Status == {"none", "pending", "processing", "done", "failed"}
Request == [pc : {"idle", "create", "send", "undo"}, job : Job \cup {NoJob}]
Work == [pc : {"idle", "guard", "analyze", "done", "cache", "failed", "ack"},
         job : Job \cup {NoJob}]
Idle == [pc |-> "idle", job |-> NoJob]

TypeOK ==
    /\ job \in [Job -> Status] /\ used \in 0..MaxJobs /\ recent \subseteq 1..used
    /\ msg \in [Job -> {"none", "queued", "taken", "deleted", "dead"}]
    /\ recv \in [Job -> 0..MaxReceive]
    /\ req \in [Req -> Request] /\ work \in [Worker -> Work]
    /\ sent \subseteq 1..used /\ faults \in 0..MaxFaults

Init ==
    /\ job = [j \in Job |-> "none"] /\ recent = {} /\ used = 0
    /\ msg = [j \in Job |-> "none"] /\ recv = [j \in Job |-> 0]
    /\ req = [r \in Req |-> Idle] /\ work = [w \in Worker |-> Idle]
    /\ sent = {} /\ faults = 0

At(r, pc) == req[r].pc = pc
Goto(r, pc) == req' = [req EXCEPT ![r].pc = pc]
Finish(r) == req' = [req EXCEPT ![r] = Idle]
On(w, pc) == work[w].pc = pc
Pass(w, pc) == work' = [work EXCEPT ![w].pc = pc]
Rest(w) == work' = [work EXCEPT ![w] = Idle]
Fault == faults < MaxFaults /\ faults' = faults + 1

-----------------------------------------------------------------------------
Rows == {j \in recent : job[j] # "none"}

(* Mutant: only jobs that wait count. *)
CountPending(r) ==
    /\ At(r, "idle") /\ Cardinality({j \in Rows : job[j] = "pending"}) < Limit
    /\ Goto(r, "create")
    /\ UNCHANGED <<job, recent, used, sqs, work, sent, faults>>

(* analyze: the jobs of the last day are counted; at the limit it ends. *)
Count(r) ==
    /\ At(r, "idle") /\ Cardinality(Rows) < Limit
    /\ Goto(r, "create")
    /\ UNCHANGED <<job, recent, used, sqs, work, sent, faults>>

Create(r) ==
    /\ At(r, "create")
    /\ used < MaxJobs
    /\ used' = used + 1
    /\ job' = [job EXCEPT ![used'] = "pending"]
    /\ recent' = recent \cup {used'}
    /\ req' = [req EXCEPT ![r] = [pc |-> "send", job |-> used']]
    /\ UNCHANGED <<sqs, work, sent, faults>>

(* sendMessage, and the answer with the id. *)
Send(r) ==
    /\ At(r, "send")
    /\ msg' = [msg EXCEPT ![req[r].job] = "queued"]
    /\ sent' = sent \cup {req[r].job}
    /\ Finish(r)
    /\ UNCHANGED <<job, recent, used, recv, work, faults>>

(* The call fails, the message sent or not; the row is deleted ... *)
SendFails(r) ==
    /\ At(r, "send") /\ Fault
    /\ \E state \in {"none", "queued"} : msg' = [msg EXCEPT ![req[r].job] = state]
    /\ Goto(r, "undo")
    /\ UNCHANGED <<job, recent, used, recv, work, sent>>

(* ... if that works; its error is swallowed. *)
Undo(r) ==
    /\ At(r, "undo")
    /\ \/ job' = [job EXCEPT ![req[r].job] = "none"] /\ UNCHANGED faults
       \/ Fault /\ UNCHANGED job
    /\ Finish(r)
    /\ UNCHANGED <<recent, used, sqs, work, sent>>

StopApi(r) ==
    /\ ~ At(r, "idle") /\ Fault
    /\ Finish(r)
    /\ UNCHANGED <<job, recent, used, sqs, work, sent>>

DayPasses(j) ==
    /\ j \in recent /\ msg[j] \notin {"queued", "taken"} /\ recent' = recent \ {j}
    /\ UNCHANGED <<job, used, sqs, req, work, sent, faults>>

-----------------------------------------------------------------------------
(* SQS hands a message out, and again when it was not deleted in time, until
   it has been received too often. *)
Take(w, j) ==
    /\ On(w, "idle") /\ msg[j] = "queued"
    /\ msg' = [msg EXCEPT ![j] = "taken"] /\ recv' = [recv EXCEPT ![j] = @ + 1]
    /\ work' = [work EXCEPT ![w] = [pc |-> "guard", job |-> j]]
    /\ UNCHANGED <<job, api, faults>>

Reappear(j) ==
    /\ msg[j] = "taken"
    /\ msg' = [msg EXCEPT ![j] = IF recv[j] = MaxReceive THEN "dead" ELSE "queued"]
    /\ UNCHANGED <<job, recv, api, work, faults>>

(* Mutant: a message that comes back finds its job processing and skips it. *)
GuardPending(w) ==
    /\ On(w, "guard")
    /\ LET j == work[w].job
       IN IF job[j] = "pending"
          THEN job' = [job EXCEPT ![j] = "processing"] /\ Pass(w, "analyze")
          ELSE Pass(w, "ack") /\ UNCHANGED job
    /\ UNCHANGED <<sqs, api, faults>>

(* Mutant: the row is updated whatever its status. *)
GuardAny(w) ==
    /\ On(w, "guard")
    /\ LET j == work[w].job
       IN IF job[j] # "none"
          THEN job' = [job EXCEPT ![j] = "processing"] /\ Pass(w, "analyze")
          ELSE Pass(w, "ack") /\ UNCHANGED job
    /\ UNCHANGED <<sqs, api, faults>>

(* processRecord: one update claims a job that is not settled. *)
Guard(w) ==
    /\ On(w, "guard")
    /\ LET j == work[w].job
       IN IF job[j] \in {"pending", "processing"}
          THEN job' = [job EXCEPT ![j] = "processing"] /\ Pass(w, "analyze")
          ELSE Pass(w, "ack") /\ UNCHANGED job
    /\ UNCHANGED <<sqs, api, faults>>

Analyze(w) ==
    /\ On(w, "analyze")
    /\ \/ Pass(w, "done") /\ UNCHANGED faults
       \/ Fault /\ Pass(w, "failed")
    /\ UNCHANGED <<job, sqs, api>>

(* An update of a row that is gone throws. *)
WriteDone(w) ==
    /\ On(w, "done")
    /\ LET j == work[w].job
       IN \/ job[j] # "none" /\ job' = [job EXCEPT ![j] = "done"]
             /\ Pass(w, "cache") /\ UNCHANGED faults
          \/ job[j] = "none" /\ Pass(w, "failed") /\ UNCHANGED <<job, faults>>
          \/ Fault /\ Pass(w, "failed") /\ UNCHANGED job
    /\ UNCHANGED <<sqs, api>>

(* nlp:result:<job>, which nothing here reads.  Redis is inside the same try: its failure fails the job that is done. *)
Cache(w) ==
    /\ On(w, "cache")
    /\ \/ Pass(w, "ack") /\ UNCHANGED faults
       \/ Fault /\ Pass(w, "failed")
    /\ UNCHANGED <<job, sqs, api>>

(* The catch block, then a batch item failure: the message is not deleted. *)
WriteFailed(w) ==
    /\ On(w, "failed")
    /\ LET j == work[w].job
       IN \/ job' = [job EXCEPT ![j] = IF @ = "none" THEN "none" ELSE "failed"] /\ UNCHANGED faults
          \/ Fault /\ UNCHANGED job
    /\ Rest(w)
    /\ UNCHANGED <<sqs, api>>

(* Every other record is deleted from the queue. *)
Ack(w) ==
    /\ On(w, "ack")
    /\ msg' = [msg EXCEPT ![work[w].job] = IF @ = "dead" THEN @ ELSE "deleted"]
    /\ Rest(w)
    /\ UNCHANGED <<job, recv, api, faults>>

StopWorker(w) ==
    /\ ~ On(w, "idle") /\ Fault
    /\ Rest(w)
    /\ UNCHANGED <<job, sqs, api>>

ApiStep(r) == Create(r) \/ Send(r) \/ SendFails(r) \/ Undo(r)
WorkStep(w) == Guard(w) \/ Analyze(w) \/ WriteDone(w) \/ Cache(w) \/ WriteFailed(w) \/ Ack(w)

Next ==
    \/ \E r \in Req : Count(r) \/ ApiStep(r) \/ StopApi(r)
    \/ \E w \in Worker : WorkStep(w) \/ StopWorker(w) \/ \E j \in Job : Take(w, j)
    \/ \E j \in Job : Reappear(j) \/ DayPasses(j)

Spec == Init /\ [][Next]_vars

(* SQS and the workers go on while there is something to do.  A message is
   received a bounded number of times, so that none can be overtaken for ever. *)
System == \/ \E w \in Worker : WorkStep(w) \/ \E j \in Job : Take(w, j)
          \/ \E j \in Job : Reappear(j)
Fairness == WF_vars(System)
FairSpec == Spec /\ Fairness

-----------------------------------------------------------------------------
(* Properties *)

(* The daily limit is exceeded by at most the requests that counted at once,
   the jobs about to be created included (nlp.service.ts: count, then create). *)
LimitBound ==
    Cardinality(Rows) + Cardinality({r \in Req : At(r, "create")}) <= Limit + Cardinality(Req) - 1

(* A message is deleted only when its job is settled or gone: a worker that
   stopped half-way, or ran twice, never leaves a job open without a message. *)
AckedIsSettled ==
    \A j \in Job : msg[j] = "deleted" => job[j] \notin {"pending", "processing"}

(* A settled job is never opened again by a message that comes back
   (index.ts: 이미 done/failed인 경우 건너뜀). *)
NeverReopened ==
    [][\A j \in Job : job[j] \in {"done", "failed"} => job'[j] \notin {"pending", "processing"}]_vars

(* A job whose id the client has comes to an end, or its message to the
   dead-letter queue. *)
AnsweredJobEnds ==
    \A j \in Job : []<> (j \in sent => job[j] \in {"done", "failed"} \/ msg[j] = "dead")

(* What index.ts says of the error it throws: SQS tries a failed job again
   until its message is dead. *)
FailedIsRetried == \A j \in Job : job[j] = "failed" => msg[j] # "deleted"
=============================================================================
