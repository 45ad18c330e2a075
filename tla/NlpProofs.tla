------------------------------ MODULE NlpProofs ------------------------------
(***************************************************************************)
(* Proofs about Nlp, for any number of requests, workers, jobs, receives   *)
(* and faults: type correctness, no open job without a message, no settled *)
(* job opened again, and the bound on the jobs of a day.                   *)
(***************************************************************************)
EXTENDS Nlp, FiniteSetTheorems, TLAPS

Open == {"pending", "processing"}

(* A number not drawn yet stands for nothing. *)
Fresh == \A j \in Job : j > used => job[j] = "none" /\ msg[j] = "none" /\ recv[j] = 0

(* A job whose message is being sent has none yet, and is sent by one request. *)
Requests ==
    /\ \A r \in Req : req[r].pc \in {"send", "undo"} => req[r].job \in 1..used
    /\ \A r \in Req : req[r].pc = "send" => msg[req[r].job] = "none"
    /\ \A q, r \in Req : req[q].pc = "send" /\ req[r].pc = "send"
                           /\ req[q].job = req[r].job => q = r

(* A worker about to delete a message has seen its job settled, or settled it. *)
Workers ==
    /\ \A w \in Worker : work[w].pc # "idle" => work[w].job \in 1..used
    /\ \A w \in Worker : work[w].pc \in {"cache", "ack"} => job[work[w].job] \notin Open

(* A message that a worker works on has been sent. *)
Received == \A w \in Worker : work[w].pc # "idle" => msg[work[w].job] # "none"

Receives == \A j \in Job : /\ msg[j] = "none" => recv[j] = 0
                           /\ msg[j] = "queued" => recv[j] < MaxReceive

Inv == TypeOK /\ Fresh /\ Requests /\ Workers /\ Received /\ Receives /\ AckedIsSettled

-----------------------------------------------------------------------------
LEMMA Drawn == ASSUME TypeOK PROVE used \in Nat /\ used <= MaxJobs /\ 1..used \subseteq Job
BY NlpAssumption DEF TypeOK, Job

LEMMA InitInv == Init => Inv
BY NlpAssumption DEF Init, Inv, TypeOK, Fresh, Requests, Workers, Received, Receives, AckedIsSettled,
                     Idle, Request, Work, Job, NoJob, Status, Open

(* The states a request and a worker move to have their types. *)
LEMMA ReqMoves ==
  ASSUME req \in [Req -> Request], NEW r \in Req
  PROVE  /\ \A pc \in {"create", "undo"} : Goto(r, pc) => req' \in [Req -> Request]
         /\ Finish(r) => req' \in [Req -> Request]
         /\ \A j \in Job : [req EXCEPT ![r] = [pc |-> "send", job |-> j]] \in [Req -> Request]
BY DEF Request, Goto, Finish, Idle

LEMMA WorkMoves ==
  ASSUME work \in [Worker -> Work], NEW w \in Worker
  PROVE  /\ \A pc \in {"analyze", "done", "cache", "failed", "ack"} :
              Pass(w, pc) => work' \in [Worker -> Work]
         /\ Rest(w) => work' \in [Worker -> Work]
         /\ \A j \in Job : [work EXCEPT ![w] = [pc |-> "guard", job |-> j]] \in [Worker -> Work]
BY DEF Work, Pass, Rest, Idle

(* The API's side: a request writes its own job, and sends its own message. *)
LEMMA ApiType ==
  ASSUME Inv, NEW r \in Req, Count(r) \/ ApiStep(r) \/ StopApi(r)
  PROVE  TypeOK'
<1>0. req[r].pc \in {"send", "undo"} => req[r].job \in 1..used /\ req[r].job \in Job
  BY Drawn DEF Inv, Requests
<1> USE NlpAssumption, Drawn, ReqMoves DEF Inv, TypeOK, Job, Status, At, Fault
<1>1. CASE Count(r)  BY <1>1 DEF Count, sqs
<1>2. CASE Create(r)
  <2>1. used' \in 1..MaxJobs /\ used' = used + 1  BY <1>2 DEF Create
  <2>2. recent' \subseteq 1..used' /\ sent' \subseteq 1..used'  BY <2>1, <1>2 DEF Create
  <2> QED  BY <2>1, <2>2, <1>2 DEF Create, sqs
<1>3. CASE Send(r)  BY <1>0, <1>3 DEF Send
<1>4. CASE SendFails(r)
  <2>1. faults' \in 0..MaxFaults  BY <1>4 DEF SendFails
  <2> QED  BY <2>1, <1>0, <1>4 DEF SendFails
<1>5. CASE Undo(r)
  <2>1. faults' \in 0..MaxFaults  BY <1>5 DEF Undo
  <2> QED  BY <2>1, <1>0, <1>5 DEF Undo, sqs
<1>6. CASE StopApi(r)
  <2>1. faults' \in 0..MaxFaults  BY <1>6 DEF StopApi
  <2> QED  BY <2>1, <1>6 DEF StopApi, sqs
<1> QED  BY <1>1, <1>2, <1>3, <1>4, <1>5, <1>6 DEF ApiStep

LEMMA ApiInv ==
  ASSUME Inv, NEW r \in Req, Count(r) \/ ApiStep(r) \/ StopApi(r)
  PROVE  Inv'
<1>1. TypeOK'  BY ApiType
<1> USE NlpAssumption, Drawn DEF Inv, Fresh, Requests, Workers, Received, Receives, AckedIsSettled, Open
<1>2. CASE Count(r)
  BY <1>1, <1>2 DEF Count, sqs, At, Goto, TypeOK
<1>3. CASE Create(r)
  <2>0. used \in Nat /\ used' = used + 1 /\ used < MaxJobs
    BY <1>3, Drawn DEF Create
  <2>1. used' = used + 1 /\ used' \in Job /\ 1..used' = 1..used \cup {used'}
    BY <2>0 DEF Job
  <2>2. job' = [job EXCEPT ![used'] = "pending"] /\ UNCHANGED <<msg, recv, work>>
    BY <1>3 DEF Create, sqs
  <2>3. /\ job[used'] = "none" /\ msg[used'] = "none" /\ recv[used'] = 0
        /\ \A j \in 1..used : job'[j] = job[j]
    BY <2>1, <2>2 DEF TypeOK, Job
  <2>4. /\ req'[r].pc = "send" /\ req'[r].job = used'
        /\ \A q \in Req \ {r} : req'[q] = req[q]
    BY <1>3 DEF Create, TypeOK
  <2>5. Fresh' /\ Receives'  BY <2>1, <2>2, <2>3 DEF TypeOK, Job
  <2>6. Requests'
    <3>1. \A q \in Req : req'[q].pc \in {"send", "undo"} => req'[q].job \in 1..used'
      BY <2>1, <2>4
    <3>2. \A q \in Req : req'[q].pc = "send" => msg'[req'[q].job] = "none"
      BY <2>2, <2>3, <2>4
    <3>3. \A q \in Req \ {r} : req'[q].pc = "send" => req'[q].job # used'
      BY <2>1, <2>4 DEF TypeOK
    <3> QED  BY <3>1, <3>2, <3>3, <2>4
  <2>7. Workers' /\ Received'
    <3>1. Received'  BY <2>2 DEF Received
    <3> QED  BY <3>1, <2>1, <2>2, <2>3
  <2>8. AckedIsSettled'  BY <2>1, <2>2, <2>3 DEF TypeOK
  <2> QED  BY <1>1, <2>5, <2>6, <2>7, <2>8
<1>4. CASE Send(r)
  <2>1. /\ req[r].pc = "send" /\ req[r].job \in 1..used /\ req[r].job \in Job
        /\ msg[req[r].job] = "none"
    BY <1>4 DEF Send, At
  <2>2. /\ req'[r].pc = "idle"
        /\ \A q \in Req \ {r} : req'[q] = req[q]
    BY <1>4 DEF Send, Finish, Idle, TypeOK
  <2>3. /\ msg'[req[r].job] = "queued"
        /\ \A j \in Job \ {req[r].job} : msg'[j] = msg[j]
        /\ UNCHANGED <<job, used, recv, work>>
    BY <2>1, <1>4 DEF Send, TypeOK
  <2>4. recv[req[r].job] = 0 /\ MaxReceive \in Nat \ {0}  BY <2>1
  <2>5. Fresh' /\ Receives' /\ AckedIsSettled'  BY <2>1, <2>3, <2>4 DEF Job
  <2>6. Requests'  BY <2>1, <2>2, <2>3
  <2>7. Workers' /\ Received'  BY <2>1, <2>3 DEF Received
  <2> QED  BY <1>1, <2>5, <2>6, <2>7
<1>5. CASE SendFails(r)
  <2>1. /\ req[r].pc = "send" /\ req[r].job \in 1..used /\ req[r].job \in Job
        /\ msg[req[r].job] = "none"
    BY <1>5 DEF SendFails, At
  <2>2. /\ req'[r].pc = "undo" /\ req'[r].job = req[r].job
        /\ \A q \in Req \ {r} : req'[q] = req[q]
    BY <1>5 DEF SendFails, Goto, TypeOK, Request
  <2>3. /\ msg'[req[r].job] \in {"none", "queued"}
        /\ \A j \in Job \ {req[r].job} : msg'[j] = msg[j]
        /\ UNCHANGED <<job, used, recv, work>>
    <3>1. PICK state \in {"none", "queued"} : msg' = [msg EXCEPT ![req[r].job] = state]
      BY <1>5 DEF SendFails
    <3> QED  BY <2>1, <3>1, <1>5 DEF SendFails, TypeOK
  <2>4. recv[req[r].job] = 0 /\ MaxReceive \in Nat \ {0}  BY <2>1
  <2>5. Fresh' /\ Receives' /\ AckedIsSettled'  BY <2>1, <2>3, <2>4 DEF Job
  <2>6. Requests'  BY <2>1, <2>2, <2>3
  <2>7. Workers' /\ Received'  BY <2>1, <2>3 DEF Received
  <2> QED  BY <1>1, <2>5, <2>6, <2>7
<1>6. CASE Undo(r)
  <2>1. req[r].pc = "undo" /\ req[r].job \in 1..used /\ req[r].job \in Job
    BY <1>6 DEF Undo, At
  <2>2. /\ req'[r].pc = "idle"
        /\ \A q \in Req \ {r} : req'[q] = req[q]
    BY <1>6 DEF Undo, Finish, Idle, TypeOK
  <2>3. /\ job'[req[r].job] \in {"none", job[req[r].job]}
        /\ \A j \in Job \ {req[r].job} : job'[j] = job[j]
        /\ UNCHANGED <<msg, recv, used, work>>
    BY <2>1, <1>6 DEF Undo, sqs, TypeOK
  <2>4. Fresh' /\ Receives' /\ AckedIsSettled'  BY <2>1, <2>3
  <2>5. Requests'  BY <2>2, <2>3
  <2>6. Workers' /\ Received'
    <3>1. \A w \in Worker : work[w].pc # "idle" => work[w].job \in Job  BY DEF Job
    <3> QED  BY <2>1, <2>3, <3>1
  <2> QED  BY <1>1, <2>4, <2>5, <2>6
<1>7. CASE StopApi(r)
  <2>1. /\ req'[r].pc = "idle"
        /\ \A q \in Req \ {r} : req'[q] = req[q]
    BY <1>7 DEF StopApi, Finish, Idle, TypeOK
  <2>2. UNCHANGED <<job, msg, recv, used, work>>  BY <1>7 DEF StopApi, sqs
  <2> QED  BY <1>1, <2>1, <2>2
<1> QED  BY <1>2, <1>3, <1>4, <1>5, <1>6, <1>7 DEF ApiStep

(* The workers' side: a settled job is not opened, and a message is deleted
   after its job is settled. *)
LEMMA WorkType ==
  ASSUME Inv, NEW w \in Worker, WorkStep(w) \/ StopWorker(w) \/ \E j \in Job : Take(w, j)
  PROVE  TypeOK'
<1>0. work[w].pc # "idle" => work[w].job \in Job
  BY Drawn DEF Inv, Workers
<1> USE NlpAssumption, WorkMoves DEF Inv, TypeOK, Status, On, Fault, sqs, api
<1>1. CASE Guard(w)  BY <1>0, <1>1 DEF Guard
<1>2. CASE Analyze(w)
  <2>1. faults' \in 0..MaxFaults  BY <1>2 DEF Analyze
  <2> QED  BY <2>1, <1>2 DEF Analyze
<1>3. CASE WriteDone(w)
  <2>1. faults' \in 0..MaxFaults  BY <1>3 DEF WriteDone
  <2>2. job' \in [Job -> Status]  BY <1>3 DEF WriteDone
  <2>3. work' \in [Worker -> Work]  BY <1>3 DEF WriteDone
  <2> QED  BY <2>1, <2>2, <2>3, <1>3 DEF WriteDone
<1>4. CASE Cache(w)
  <2>1. faults' \in 0..MaxFaults  BY <1>4 DEF Cache
  <2> QED  BY <2>1, <1>4 DEF Cache
<1>5. CASE WriteFailed(w)
  <2>1. faults' \in 0..MaxFaults  BY <1>5 DEF WriteFailed
  <2> QED  BY <2>1, <1>5 DEF WriteFailed
<1>6. CASE Ack(w)  BY <1>6 DEF Ack
<1>7. CASE StopWorker(w)
  <2>1. faults' \in 0..MaxFaults  BY <1>7 DEF StopWorker
  <2> QED  BY <2>1, <1>7 DEF StopWorker
<1>8. CASE \E j \in Job : Take(w, j)
  <2>1. PICK j \in Job : Take(w, j)  BY <1>8
  <2>2. recv' \in [Job -> 0..MaxReceive]  BY <2>1 DEF Take, Receives
  <2> QED  BY <2>1, <2>2 DEF Take
<1> QED  BY <1>1, <1>2, <1>3, <1>4, <1>5, <1>6, <1>7, <1>8 DEF WorkStep

(* A step of a worker keeps the invariant if it opens no settled job. *)
LEMMA WorkerStep ==
  ASSUME Inv, TypeOK', NEW w \in Worker, UNCHANGED api,
         \A v \in Worker \ {w} : work'[v] = work[v],
         \A j \in Job : job[j] \notin Open => job'[j] \notin Open,
         \A j \in Job : job[j] = "none" => job'[j] = "none",
         work'[w].pc # "idle" => work'[w].job \in 1..used,
         work'[w].pc # "idle" => msg'[work'[w].job] # "none",
         work'[w].pc \in {"cache", "ack"} => job'[work'[w].job] \notin Open,
         \A j \in Job : msg'[j] # msg[j] => (msg'[j] = "taken" \/ job'[j] \notin Open),
         \A j \in Job : msg'[j] # msg[j] => msg[j] # "none" /\ msg'[j] \in {"taken", "deleted"},
         \A j \in Job : recv'[j] # recv[j] => msg[j] # "none" /\ msg'[j] # msg[j]
  PROVE  Inv'
<1>0. UNCHANGED <<used, req>>  BY DEF api
<1>1. \A v \in Worker : v # w /\ work[v].pc # "idle" => work[v].job \in Job
  BY Drawn DEF Inv, Workers
<1>2. Fresh'  BY <1>0 DEF Inv, Fresh
<1>3. Requests'
  <2>1. \A r \in Req : req[r].pc = "send" => msg'[req[r].job] = "none"
    BY Drawn DEF Inv, Requests
  <2> QED  BY <1>0, <2>1 DEF Inv, Requests
<1>4. Workers'
  <2>1. \A v \in Worker : work'[v].pc # "idle" => work'[v].job \in 1..used'
    BY <1>0 DEF Inv, Workers
  <2>2. \A v \in Worker : work'[v].pc \in {"cache", "ack"} => job'[work'[v].job] \notin Open
    BY <1>1 DEF Inv, Workers
  <2> QED  BY <2>1, <2>2 DEF Workers
<1>5. Received'
  <2>1. \A v \in Worker : work'[v].pc # "idle" => msg'[work'[v].job] # "none"
    BY <1>1, Drawn DEF Inv, Received
  <2> QED  BY <2>1 DEF Received
<1>7. Receives'  BY DEF Inv, Receives
<1>6. AckedIsSettled'  BY DEF Inv, AckedIsSettled, Open
<1> QED  BY <1>2, <1>3, <1>4, <1>5, <1>6, <1>7 DEF Inv

LEMMA WorkInv ==
  ASSUME Inv, NEW w \in Worker, WorkStep(w) \/ StopWorker(w) \/ \E j \in Job : Take(w, j)
  PROVE  Inv'
<1>0. /\ TypeOK'
      /\ work[w].pc # "idle" => work[w].job \in Job /\ work[w].job \in 1..used
                                 /\ msg[work[w].job] # "none"
      /\ work[w].pc \in {"cache", "ack"} => job[work[w].job] \notin Open
      /\ job \in [Job -> Status] /\ work \in [Worker -> Work]
      /\ msg \in [Job -> {"none", "queued", "taken", "deleted", "dead"}]
      /\ recv \in [Job -> 0..MaxReceive]
  BY WorkType, Drawn DEF Inv, TypeOK, Workers, Received
<1> USE DEF Open, On, Pass, Rest, sqs, Idle
<1>2. CASE Guard(w)
  <2>1. /\ UNCHANGED api /\ UNCHANGED <<msg, recv>>
        /\ \A v \in Worker \ {w} : work'[v] = work[v]
        /\ \A j \in Job : job[j] \notin Open => job'[j] = job[j]
        /\ work'[w].job = work[w].job
        /\ \/ work'[w].pc = "analyze"
           \/ work'[w].pc = "ack" /\ job'[work[w].job] \notin Open
    BY <1>0, <1>2 DEF Guard, Work
  <2> QED  BY <1>0, <1>2, <2>1, WorkerStep DEF Guard
<1>3. CASE Analyze(w)
  <2>1. /\ UNCHANGED api /\ UNCHANGED <<msg, recv, job>>
        /\ \A v \in Worker \ {w} : work'[v] = work[v]
        /\ work'[w].job = work[w].job /\ work'[w].pc \in {"done", "failed"}
    BY <1>0, <1>3 DEF Analyze, Work
  <2> QED  BY <1>0, <1>3, <2>1, WorkerStep DEF Analyze
<1>4. CASE WriteDone(w)
  <2>1. /\ UNCHANGED api /\ UNCHANGED <<msg, recv>>
        /\ \A v \in Worker \ {w} : work'[v] = work[v]
        /\ \A j \in Job : job[j] = "none" => job'[j] = "none"
        /\ \A j \in Job : job[j] \notin Open => job'[j] \notin Open
        /\ work'[w].job = work[w].job
        /\ \/ work'[w].pc = "failed"
           \/ work'[w].pc = "cache" /\ job'[work[w].job] \notin Open
    <3>1. CASE Pass(w, "cache") /\ job' = [job EXCEPT ![work[w].job] = "done"]
                 /\ job[work[w].job] # "none"
      BY <1>0, <1>4, <3>1 DEF WriteDone, Work, api
    <3>2. CASE Pass(w, "failed") /\ UNCHANGED job
      BY <1>0, <1>4, <3>2 DEF WriteDone, Work, api
    <3> QED  BY <1>4, <3>1, <3>2 DEF WriteDone
  <2> QED  BY <1>0, <1>4, <2>1, WorkerStep DEF WriteDone
<1>5. CASE Cache(w)
  <2>1. /\ UNCHANGED api /\ UNCHANGED <<msg, recv, job>>
        /\ \A v \in Worker \ {w} : work'[v] = work[v]
        /\ work'[w].job = work[w].job /\ work'[w].pc \in {"ack", "failed"}
    BY <1>0, <1>5 DEF Cache, Work
  <2> QED  BY <1>0, <1>5, <2>1, WorkerStep DEF Cache
<1>6. CASE WriteFailed(w)
  <2>1. /\ UNCHANGED api /\ UNCHANGED <<msg, recv>>
        /\ \A v \in Worker \ {w} : work'[v] = work[v]
        /\ \A j \in Job : job[j] = "none" => job'[j] = "none"
        /\ \A j \in Job : job[j] \notin Open => job'[j] \notin Open
        /\ work'[w].pc = "idle"
    BY <1>0, <1>6 DEF WriteFailed, Work
  <2> QED  BY <1>0, <2>1, WorkerStep
<1>7. CASE Ack(w)
  <2>1. /\ UNCHANGED api /\ UNCHANGED <<recv, job>>
        /\ \A v \in Worker \ {w} : work'[v] = work[v]
        /\ \A j \in Job : msg'[j] # msg[j] => msg'[j] = "deleted" /\ j = work[w].job
        /\ work'[w].pc = "idle"
    BY <1>0, <1>7 DEF Ack, api, Work
  <2> QED  BY <1>0, <1>7, <2>1, WorkerStep DEF Ack
<1>8. CASE StopWorker(w)
  <2>1. /\ UNCHANGED api /\ UNCHANGED <<msg, recv, job>>
        /\ \A v \in Worker \ {w} : work'[v] = work[v]
        /\ work'[w].pc = "idle"
    BY <1>0, <1>8 DEF StopWorker, api, Work
  <2> QED  BY <1>0, <2>1, WorkerStep
<1>9. CASE \E j \in Job : Take(w, j)
  <2>1. PICK j \in Job : Take(w, j)  BY <1>9
  <2>2. /\ UNCHANGED api /\ UNCHANGED job /\ msg[j] = "queued" /\ msg'[j] = "taken"
        /\ \A v \in Worker \ {w} : work'[v] = work[v]
        /\ \A i \in Job \ {j} : msg'[i] = msg[i] /\ recv'[i] = recv[i]
        /\ work'[w].job = j /\ work'[w].pc = "guard"
    BY <1>0, <2>1 DEF Take, api
  <2>3. j \in 1..used  BY <2>2, Drawn DEF Inv, Fresh, Job
  <2> QED  BY <1>0, <2>2, <2>3, WorkerStep
<1> QED  BY <1>2, <1>3, <1>4, <1>5, <1>6, <1>7, <1>8, <1>9 DEF WorkStep

LEMMA NextInv == Inv /\ [Next]_vars => Inv'
<1> SUFFICES ASSUME Inv, [Next]_vars PROVE Inv'  OBVIOUS
<1>1. CASE \E r \in Req : Count(r) \/ ApiStep(r) \/ StopApi(r)  BY <1>1, ApiInv
<1>2. CASE \E w \in Worker : WorkStep(w) \/ StopWorker(w) \/ \E j \in Job : Take(w, j)
  BY <1>2, WorkInv
<1>3. ASSUME NEW j \in Job, Reappear(j) PROVE Inv'
  BY <1>3, NlpAssumption
     DEF Reappear, api, Inv, TypeOK, Fresh, Requests, Workers, Received, Receives, AckedIsSettled, Job
<1>4. ASSUME NEW j \in Job, DayPasses(j) PROVE Inv'
  BY <1>4 DEF DayPasses, sqs, Inv, TypeOK, Fresh, Requests, Workers, Received, Receives, AckedIsSettled
<1>5. CASE UNCHANGED vars
  BY <1>5 DEF vars, sqs, Inv, TypeOK, Fresh, Requests, Workers, Received, Receives, AckedIsSettled
<1> QED  BY <1>1, <1>2, <1>3, <1>4, <1>5 DEF Next

LEMMA InvHolds == Spec => []Inv
BY InitInv, NextInv, PTL DEF Spec

-----------------------------------------------------------------------------
(* Every variable keeps its type; no message is received more often than the
   queue allows. *)
THEOREM TypeCorrect == Spec => []TypeOK
BY InvHolds, PTL DEF Inv

(* Whatever is delivered twice, fails or stops, the message of an open job is
   not deleted (processRecord: the guard and the order of update and ack). *)
THEOREM AckedIsSettledHolds == Spec => []AckedIsSettled
BY InvHolds, PTL DEF Inv

(* A message that comes back never opens a job that is done or failed. *)
LEMMA StepNeverReopens ==
  Inv /\ [Next]_vars => [\A j \in Job : job[j] \in {"done", "failed"}
                            => job'[j] \notin {"pending", "processing"}]_vars
<1> SUFFICES ASSUME Inv, Next, NEW j \in Job, job[j] \in {"done", "failed"}
             PROVE  job'[j] \notin {"pending", "processing"}
  OBVIOUS
<1>1. ASSUME NEW r \in Req, Create(r) PROVE job'[j] = job[j]
  <2>1. j <= used  BY Drawn DEF Inv, Fresh, Job
  <2> QED  BY <1>1, <2>1, Drawn DEF Create, Inv, TypeOK
<1>2. ASSUME NEW r \in Req, Count(r) \/ Send(r) \/ SendFails(r) \/ StopApi(r)
      PROVE  job' = job
  BY <1>2 DEF Count, Send, SendFails, StopApi
<1>3. ASSUME NEW r \in Req, Undo(r) PROVE job'[j] \in {job[j], "none"}
  BY <1>3 DEF Undo, Inv, TypeOK
<1>4. ASSUME NEW w \in Worker, Guard(w) PROVE job'[j] = job[j]
  BY <1>4 DEF Guard, Inv, TypeOK
<1>5. ASSUME NEW w \in Worker, WriteDone(w) \/ WriteFailed(w)
      PROVE  job'[j] \in {"done", "failed"}
  BY <1>5 DEF WriteDone, WriteFailed, Inv, TypeOK
<1>6. ASSUME NEW w \in Worker, Analyze(w) \/ Cache(w) \/ Ack(w) \/ StopWorker(w)
      PROVE  job' = job
  BY <1>6 DEF Analyze, Cache, Ack, StopWorker
<1>7. ASSUME NEW w \in Worker, NEW i \in Job, Take(w, i) PROVE job' = job
  BY <1>7 DEF Take
<1>8. ASSUME NEW i \in Job, Reappear(i) \/ DayPasses(i) PROVE job' = job
  BY <1>8 DEF Reappear, DayPasses
<1> QED  BY <1>1, <1>2, <1>3, <1>4, <1>5, <1>6, <1>7, <1>8 DEF Next, ApiStep, WorkStep

THEOREM NeverReopenedHolds == Spec => NeverReopened
BY InvHolds, StepNeverReopens, PTL DEF NeverReopened, Spec

-----------------------------------------------------------------------------
Creating == {r \in Req : At(r, "create")}

LEMMA Finite ==
  ASSUME Inv
  PROVE  /\ IsFiniteSet(Rows) /\ Cardinality(Rows) \in Nat
         /\ IsFiniteSet(Creating) /\ Cardinality(Creating) \in Nat
         /\ Cardinality(Creating) <= Cardinality(Req) /\ Cardinality(Req) \in Nat
<1>1. IsFiniteSet(1..used)  BY Drawn, FS_Interval DEF Inv
<1>2. Rows \subseteq 1..used /\ Creating \subseteq Req  BY DEF Rows, Creating, Inv, TypeOK
<1>3. IsFiniteSet(Rows)  BY <1>1, <1>2, FS_Subset
<1>4. IsFiniteSet(Creating) /\ Cardinality(Creating) <= Cardinality(Req)
  BY <1>2, NlpAssumption, FS_Subset
<1> QED  BY <1>3, <1>4, NlpAssumption, FS_CardinalityType

(* The count and the creation of jobs are the only steps that need an
   argument: a request that counts leaves room for every other one. *)
LEMMA LimitShrinks ==
  ASSUME Inv, Inv', LimitBound, Rows' \subseteq Rows, Creating' \subseteq Creating
  PROVE  LimitBound'
<1>1. Cardinality(Rows') <= Cardinality(Rows) /\ Cardinality(Rows') \in Nat
  BY Finite, FS_Subset, FS_CardinalityType
<1>2. Cardinality(Creating') <= Cardinality(Creating) /\ Cardinality(Creating') \in Nat
  BY Finite, FS_Subset, FS_CardinalityType
<1>3. Cardinality(Rows) + Cardinality(Creating) <= Limit + Cardinality(Req) - 1
  BY DEF LimitBound, Creating
<1>4. Cardinality(Rows') + Cardinality(Creating') <= Limit + Cardinality(Req) - 1
  BY <1>1, <1>2, <1>3, Finite, NlpAssumption
<1> QED  BY <1>4 DEF LimitBound, Creating

LEMMA LimitStep == Inv /\ Inv' /\ LimitBound /\ [Next]_vars => LimitBound'
<1> SUFFICES ASSUME Inv, Inv', LimitBound, [Next]_vars PROVE LimitBound'  OBVIOUS
<1>0. Cardinality(Rows) + Cardinality(Creating) <= Limit + Cardinality(Req) - 1
  BY DEF LimitBound, Creating
<1>1. ASSUME NEW r \in Req, Count(r) PROVE LimitBound'
  <2>1. Rows' = Rows /\ Cardinality(Rows) < Limit  BY <1>1 DEF Count, Rows
  <2>2. Creating' \subseteq Req  BY DEF Creating
  <2>3. Cardinality(Creating') <= Cardinality(Req) /\ Cardinality(Creating') \in Nat
    BY <2>2, NlpAssumption, FS_Subset, FS_CardinalityType
  <2>4. Cardinality(Rows') + Cardinality(Creating') <= Limit + Cardinality(Req) - 1
    BY <2>1, <2>3, Finite, NlpAssumption
  <2> QED  BY <2>4 DEF LimitBound, Creating
<1>2. ASSUME NEW r \in Req, Create(r) PROVE LimitBound'
  <2>1. Rows' \subseteq Rows \cup {used'}
    BY <1>2, Drawn DEF Create, Rows, Inv, TypeOK
  <2>2. r \in Creating /\ Creating' \subseteq Creating \ {r}
    BY <1>2 DEF Create, Creating, At, Inv, TypeOK
  <2>3. Cardinality(Rows') <= Cardinality(Rows) + 1 /\ Cardinality(Rows') \in Nat
    <3>1. /\ IsFiniteSet(Rows \cup {used'})
          /\ Cardinality(Rows \cup {used'}) <= Cardinality(Rows) + 1
      <4>1. /\ IsFiniteSet(Rows \cup {used'})
            /\ Cardinality(Rows \cup {used'}) =
                 IF used' \in Rows THEN Cardinality(Rows) ELSE Cardinality(Rows) + 1
        BY Finite, FS_AddElement
      <4> QED  BY <4>1, Finite
    <3>2. Cardinality(Rows \cup {used'}) \in Nat  BY <3>1, FS_CardinalityType
    <3>3. IsFiniteSet(Rows') /\ Cardinality(Rows') <= Cardinality(Rows \cup {used'})
      BY <2>1, <3>1, FS_Subset
    <3>4. Cardinality(Rows') \in Nat  BY <3>3, FS_CardinalityType
    <3> QED  BY <3>1, <3>2, <3>3, <3>4, Finite
  <2>4. Cardinality(Creating') <= Cardinality(Creating) - 1 /\ Cardinality(Creating') \in Nat
    <3>1. /\ IsFiniteSet(Creating \ {r})
          /\ Cardinality(Creating \ {r}) = Cardinality(Creating) - 1
      BY <2>2, Finite, FS_RemoveElement
    <3>2. IsFiniteSet(Creating') /\ Cardinality(Creating') <= Cardinality(Creating \ {r})
      BY <2>2, <3>1, FS_Subset
    <3>3. Cardinality(Creating') \in Nat  BY <3>2, FS_CardinalityType
    <3> QED  BY <3>1, <3>2, <3>3
  <2>5. Cardinality(Rows') + Cardinality(Creating') <= Limit + Cardinality(Req) - 1
    BY <1>0, <2>3, <2>4, Finite, NlpAssumption
  <2> QED  BY <2>5 DEF LimitBound, Creating
<1>3. ASSUME NEW r \in Req, Send(r) \/ SendFails(r) \/ Undo(r) \/ StopApi(r) PROVE LimitBound'
  <2>1. Creating' \subseteq Creating
    <3>1. Goto(r, "undo") \/ Finish(r)  BY <1>3 DEF Send, SendFails, Undo, StopApi
    <3>2. \A q \in Req : q # r => req'[q] = req[q]
      BY <3>1 DEF Goto, Finish, Inv, TypeOK
    <3>3. req'[r].pc \in {"undo", "idle"}
      BY <3>1 DEF Goto, Finish, Idle, Inv, TypeOK, Request
    <3> QED  BY <3>2, <3>3 DEF Creating, At
  <2>2. recent' = recent /\ \A j \in Job : job[j] = "none" => job'[j] = "none"
    BY <1>3 DEF Send, SendFails, Undo, StopApi, Inv, TypeOK
  <2>3. Rows' \subseteq Rows  BY <2>2, Drawn DEF Rows, Inv, TypeOK
  <2> QED  BY <2>1, <2>3, LimitShrinks
<1>4. ASSUME NEW w \in Worker, WorkStep(w) \/ StopWorker(w) \/ \E j \in Job : Take(w, j)
      PROVE  LimitBound'
  <2>1. recent' = recent /\ req' = req
    BY <1>4 DEF WorkStep, Guard, Analyze, WriteDone, Cache, WriteFailed, Ack, StopWorker, Take, api
  <2>2. \A j \in Job : job[j] = "none" => job'[j] = "none"
    <3>1. CASE Guard(w)  BY <3>1 DEF Guard, Inv, TypeOK
    <3>2. CASE WriteDone(w) \/ WriteFailed(w)
      BY <3>2 DEF WriteDone, WriteFailed, Inv, TypeOK
    <3>3. CASE ~ (Guard(w) \/ WriteDone(w) \/ WriteFailed(w))
      <4>1. job' = job
        BY <1>4, <3>3 DEF WorkStep, Analyze, Cache, Ack, StopWorker, Take
      <4> QED  BY <4>1
    <3> QED  BY <3>1, <3>2, <3>3
  <2>3. Rows' \subseteq Rows /\ Creating' \subseteq Creating
    BY <2>1, <2>2, Drawn DEF Rows, Creating, At, Inv, TypeOK
  <2> QED  BY <2>3, LimitShrinks
<1>5. ASSUME NEW j \in Job, Reappear(j) \/ DayPasses(j) PROVE LimitBound'
  <2>1. Rows' \subseteq Rows /\ Creating' \subseteq Creating
    BY <1>5 DEF Reappear, DayPasses, api, Rows, Creating, At
  <2> QED  BY <2>1, LimitShrinks
<1>6. CASE UNCHANGED vars
  BY <1>6, LimitShrinks DEF vars, Rows, Creating, At
<1> QED  BY <1>1, <1>2, <1>3, <1>4, <1>5, <1>6 DEF Next, ApiStep

LEMMA LimitInit == Init => LimitBound
<1> SUFFICES ASSUME Init PROVE LimitBound  OBVIOUS
<1>1. Rows = {} /\ Creating = {}  BY DEF Init, Rows, Creating, At, Idle
<1>2. Cardinality(Rows) = 0 /\ Cardinality(Creating) = 0  BY <1>1, FS_EmptySet
<1>3. Cardinality(Req) \in Nat  BY NlpAssumption, FS_CardinalityType
<1>4. Cardinality(Rows) + Cardinality(Creating) <= Limit + Cardinality(Req) - 1
  BY <1>2, <1>3, NlpAssumption
<1> QED  BY <1>4 DEF LimitBound, Creating

(* The jobs of a day exceed the limit by fewer than the requests in flight
   (analyze: count, then create). *)
THEOREM LimitBoundHolds == Spec => []LimitBound
<1>1. Inv /\ LimitBound /\ [Next]_vars => (Inv /\ LimitBound)'
  BY NextInv, LimitStep
<1> QED  BY InitInv, LimitInit, <1>1, PTL DEF Spec
=============================================================================
