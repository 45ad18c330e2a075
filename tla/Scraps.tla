------------------------------- MODULE Scraps -------------------------------
(***************************************************************************)
(* One user's bookmark of one card (or material): createScrap, deleteScrap *)
(* and the delayed BullMQ job that counts a bookmark state once it has     *)
(* been left alone (log.service.ts, log-event.processor.ts).  Requests run *)
(* in any number of API processes, workers take jobs from one queue.       *)
(*                                                                         *)
(* A stamp stands for a lastStateChangedAt; every state change draws a     *)
(* fresh one.  A job is known by its jobId, the row and the stamp.  Time   *)
(* is counted in ticks and only as far as SCRAP_COUNTER_DEBOUNCE_MS.       *)
(***************************************************************************)
EXTENDS Integers, FiniteSets

CONSTANTS
    Req, Worker, NoWork,
    MaxRow,     \* bound on the rows of the card
    MaxStamp,   \* bound on state changes
    Debounce,   \* ticks of SCRAP_COUNTER_DEBOUNCE_MS
    Attempts,   \* the job's attempts
    Crashes     \* API and worker processes may stop between two awaits

ASSUME BoundAssumption == /\ MaxRow \in Nat \ {0} /\ MaxStamp \in Nat
                          /\ Debounce \in Nat /\ Attempts \in Nat \ {0}
ASSUME FaultAssumption == Crashes \in BOOLEAN

VARIABLES
    row,     \* the rows of scraps for this card, in the order of their ids
    rows,    \* how many there are
    last,    \* the last stamp drawn
    job,     \* BullMQ's jobs; a job that has run keeps its id
    req,     \* requests of the client
    work,    \* what each worker is doing
    stable   \* ghost: ticks since the row's state last changed

vars == <<row, rows, last, job, req, work, stable>>

Row   == 1..MaxRow
Stamp == 0..MaxStamp
Job   == Row \X Stamp

(* What a handler remembers of a row it read. *)
Copy == [id : Row, active : BOOLEAN, counted : BOOLEAN, stamp : Stamp]
NoCopy == [id |-> 1, active |-> FALSE, counted |-> FALSE, stamp |-> 0]

Request == [pc   : {"idle", "findInactive", "activate", "insert", "reread",
                    "findActive", "deactivate", "current", "schedule"},
            copy : Copy]
Idle == [pc |-> "idle", copy |-> NoCopy]

TypeOK ==
    /\ row \in [Row -> [active : BOOLEAN, counted : BOOLEAN, stamp : Stamp,
                        adds : Nat, removes : Nat]]
    /\ rows \in 0..MaxRow /\ last \in Stamp
    /\ job \in [Job -> [st    : {"none", "delayed", "taken", "completed", "failed"},
                        age   : 0..Debounce,
                        left  : 0..Attempts,
                        stall : BOOLEAN]]
    /\ req \in [Req -> Request]
    /\ work \in [Worker -> {NoWork} \cup
                     [job : Job, turn : BOOLEAN, pc : {"read", "update"},
                      active : BOOLEAN, counted : BOOLEAN]]
    /\ stable \in [Row -> 0..Debounce]

NoRow == [active |-> FALSE, counted |-> FALSE, stamp |-> 0, adds |-> 0, removes |-> 0]
NoJob == [st |-> "none", age |-> 0, left |-> Attempts, stall |-> FALSE]

Init ==
    /\ row = [x \in Row |-> NoRow] /\ rows = 0 /\ last = 0
    /\ job = [j \in Job |-> NoJob]
    /\ req = [r \in Req |-> Idle]
    /\ work = [w \in Worker |-> NoWork]
    /\ stable = [x \in Row |-> Debounce]

-----------------------------------------------------------------------------
Existing == 1..rows
Active   == {x \in Existing : row[x].active}
Inactive == {x \in Existing : ~ row[x].active}

CopyOf(x) == [id |-> x, active |-> row[x].active, counted |-> row[x].counted,
              stamp |-> row[x].stamp]

At(r, pc) == req[r].pc = pc
Become(r, pc, copy) == req' = [req EXCEPT ![r] = [pc |-> pc, copy |-> copy]]
Finish(r) == req' = [req EXCEPT ![r] = Idle]

(* isActive and lastStateChangedAt are written together.  (MaxStamp never
   stops a request that was let in under Budget.) *)
SetActive(x, on) ==
    /\ last < MaxStamp /\ last' = last + 1
    /\ row' = [row EXCEPT ![x].active = on, ![x].stamp = last + 1]
    /\ stable' = [stable EXCEPT ![x] = 0]

(* Bound: every request in flight may still draw a stamp. *)
Budget == last + Cardinality({r \in Req : ~ At(r, "idle")}) < MaxStamp

(* A query for the active row of the card, or for the first inactive one. *)
Found(r, set, pc, otherwise) ==
    \/ \E x \in set : /\ \A y \in set : x <= y
                      /\ Become(r, pc, CopyOf(x))
    \/ set = {} /\ otherwise

(* createScrap; its branches for vocabulary cards (lines 791-866) and grammar
   materials (868-945) are one protocol over two columns. *)
StartCreate(r) ==
    /\ At(r, "idle") /\ (Active = {} => Budget)
    /\ Found(r, Active, "schedule", Become(r, "findInactive", NoCopy))
    /\ UNCHANGED <<row, rows, last, job, work, stable>>

FindInactive(r) ==
    /\ At(r, "findInactive")
    /\ Found(r, Inactive, "activate", Become(r, "insert", NoCopy))
    /\ UNCHANGED <<row, rows, last, job, work, stable>>

(* The guarded update; the unique index on active rows makes it fail when
   another row of the card is active by now, and nobody catches that. *)
Activate(r) ==
    LET x == req[r].copy.id IN
    /\ At(r, "activate")
    /\ \/ /\ ~ row[x].active /\ Active = {}
          /\ SetActive(x, TRUE)
          /\ Become(r, "reread", req[r].copy)
       \/ /\ row[x].active
          /\ Become(r, "findActive", NoCopy)
          /\ UNCHANGED <<row, last, stable>>
       \/ /\ ~ row[x].active /\ Active # {}
          /\ Finish(r)
          /\ UNCHANGED <<row, last, stable>>
    /\ UNCHANGED <<rows, job, work>>

(* create fails with P2002 when an active row exists: then that one is used. *)
Insert(r) ==
    /\ At(r, "insert")
    /\ \/ /\ Active = {} /\ rows < MaxRow
          /\ rows' = rows + 1
          /\ SetActive(rows + 1, TRUE)
          /\ Become(r, "schedule", [id |-> rows + 1, active |-> TRUE,
                                    counted |-> FALSE, stamp |-> last + 1])
       \/ /\ Active # {}
          /\ Become(r, "findActive", NoCopy)
          /\ UNCHANGED <<row, rows, last, stable>>
       \/ /\ Active = {} /\ rows = MaxRow       \* bound: the row is not made
          /\ Finish(r)
          /\ UNCHANGED <<row, rows, last, stable>>
    /\ UNCHANGED <<job, work>>

(* findUniqueOrThrow of the row just written, by create or by delete. *)
Reread(r) ==
    /\ req[r].pc \in {"reread", "current"}
    /\ Become(r, "schedule", CopyOf(req[r].copy.id))
    /\ UNCHANGED <<row, rows, last, job, work, stable>>

(* findFirstOrThrow: the active row may be gone again; then 404. *)
FindActive(r) ==
    /\ At(r, "findActive")
    /\ Found(r, Active, "schedule", Finish(r))
    /\ UNCHANGED <<row, rows, last, job, work, stable>>

(* deleteScrap *)
StartDelete(r, x) ==
    /\ At(r, "idle") /\ x \in Existing /\ (row[x].active => Budget)
    /\ Become(r, IF row[x].active THEN "deactivate" ELSE "schedule", CopyOf(x))
    /\ UNCHANGED <<row, rows, last, job, work, stable>>

(* The job is decided on countedIsActive as it was before the update. *)
Deactivate(r) ==
    LET c == req[r].copy IN
    /\ At(r, "deactivate")
    /\ \/ /\ row[c.id].active
          /\ SetActive(c.id, FALSE)
          /\ Become(r, "schedule", [id |-> c.id, active |-> FALSE,
                                    counted |-> c.counted, stamp |-> last + 1])
       \/ /\ ~ row[c.id].active
          /\ Become(r, "current", c)
          /\ UNCHANGED <<row, last, stable>>
    /\ UNCHANGED <<rows, job, work>>

(* scheduleScrapCounterSettlement: a job id that was used before is ignored. *)
Schedule(r) ==
    LET c == req[r].copy
        j == <<c.id, c.stamp>> IN
    /\ At(r, "schedule")
    /\ job' = IF c.active = c.counted \/ job[j].st # "none" THEN job
              ELSE [job EXCEPT ![j].st = "delayed"]
    /\ Finish(r)
    /\ UNCHANGED <<row, rows, last, work, stable>>

-----------------------------------------------------------------------------
(* The worker takes a job that is due: settleScrapStateCount reads... *)
Take(w, j) ==
    /\ work[w] = NoWork /\ job[j].st = "delayed" /\ job[j].age = Debounce
    /\ job' = [job EXCEPT ![j].st = "taken"]
    /\ work' = [work EXCEPT ![w] = [job |-> j, turn |-> job[j].stall, pc |-> "read",
                                   active |-> FALSE, counted |-> FALSE]]
    /\ UNCHANGED <<row, rows, last, req, stable>>

Working(w, pc) == work[w] # NoWork /\ work[w].pc = pc

(* The queue listens to the worker that holds the job's lock. *)
HoldsLock(w) == LET j == job[work[w].job] IN j.st = "taken" /\ j.stall = work[w].turn

Complete(w) ==
    /\ job' = IF HoldsLock(w) THEN [job EXCEPT ![work[w].job].st = "completed"] ELSE job
    /\ work' = [work EXCEPT ![w] = NoWork]

ReadRow(w) ==
    LET x == work[w].job[1] IN
    /\ Working(w, "read")
    /\ IF row[x].active = row[x].counted
       THEN Complete(w)
       ELSE /\ work' = [work EXCEPT ![w].pc = "update", ![w].active = row[x].active,
                                    ![w].counted = row[x].counted]
            /\ UNCHANGED job
    /\ UNCHANGED <<row, rows, last, req, stable>>

(* Mutant: the counter and countedIsActive are written one after the other,
   and the job may fail between the two. *)
CountRowTorn(w) ==
    LET x == work[w].job[1]
        s == work[w] IN
    /\ Working(w, "update")
    /\ row[x].active = s.active /\ row[x].counted = s.counted /\ row[x].stamp = s.job[2]
    /\ \E done \in BOOLEAN :
         row' = [row EXCEPT ![x].counted = IF done THEN s.active ELSE @,
                            ![x].adds    = IF s.active THEN @ + 1 ELSE @,
                            ![x].removes = IF s.active THEN @ ELSE @ + 1]
    /\ Complete(w)
    /\ UNCHANGED <<rows, last, req, stable>>

(* Mutant: the update does not look at lastStateChangedAt. *)
CountRowAnyStamp(w) ==
    LET x == work[w].job[1]
        s == work[w] IN
    /\ Working(w, "update")
    /\ row' = IF row[x].active = s.active /\ row[x].counted = s.counted
              THEN [row EXCEPT ![x].counted = s.active,
                               ![x].adds    = IF s.active THEN @ + 1 ELSE @,
                               ![x].removes = IF s.active THEN @ ELSE @ + 1]
              ELSE row
    /\ Complete(w)
    /\ UNCHANGED <<rows, last, req, stable>>

(* ... and counts, if the row is still as it was read and unchanged since
   the job was made. *)
CountRow(w) ==
    LET x == work[w].job[1]
        s == work[w] IN
    /\ Working(w, "update")
    /\ row' = IF /\ row[x].active = s.active /\ row[x].counted = s.counted
                 /\ row[x].stamp = s.job[2]
              THEN [row EXCEPT ![x].counted = s.active,
                               ![x].adds    = IF s.active THEN @ + 1 ELSE @,
                               ![x].removes = IF s.active THEN @ ELSE @ + 1]
              ELSE row
    /\ Complete(w)
    /\ UNCHANGED <<rows, last, req, stable>>

(* Mutant: the processor swallows the error and the job counts as done. *)
FailSwallowed(w) ==
    /\ work[w] # NoWork
    /\ Complete(w)
    /\ UNCHANGED <<row, rows, last, req, stable>>

(* A database error: the job is tried again, or kept as failed. *)
Fail(w) ==
    LET j == work[w].job IN
    /\ work[w] # NoWork
    /\ job' = IF HoldsLock(w)
              THEN [job EXCEPT ![j].st = IF job[j].left > 1 THEN "delayed" ELSE "failed",
                               ![j].left = @ - 1]
              ELSE job
    /\ work' = [work EXCEPT ![w] = NoWork]
    /\ UNCHANGED <<row, rows, last, req, stable>>

(* The queue finds a taken job stalled and hands it out once more, whether
   its worker stopped or only paused. *)
Redeliver(j) ==
    /\ Crashes /\ job[j].st = "taken"
    /\ job' = [job EXCEPT ![j].st = IF job[j].stall THEN "failed" ELSE "delayed",
                          ![j].stall = TRUE]
    /\ UNCHANGED <<row, rows, last, req, work, stable>>

CrashWorker(w) ==
    /\ Crashes /\ work[w] # NoWork
    /\ work' = [work EXCEPT ![w] = NoWork]
    /\ UNCHANGED <<row, rows, last, job, req, stable>>

CrashRequest(r) ==
    /\ Crashes /\ ~ At(r, "idle")
    /\ Finish(r)
    /\ UNCHANGED <<row, rows, last, job, work, stable>>

(* Time passes: delays run down, rows get older. *)
Tick ==
    /\ job' = [j \in Job |-> IF job[j].st = "delayed" /\ job[j].age < Debounce
                            THEN [job[j] EXCEPT !.age = @ + 1] ELSE job[j]]
    /\ stable' = [x \in Row |-> IF stable[x] < Debounce THEN stable[x] + 1 ELSE stable[x]]
    /\ <<job, stable>>' # <<job, stable>>
    /\ UNCHANGED <<row, rows, last, req, work>>

-----------------------------------------------------------------------------
RequestStep(r) ==
    \/ FindInactive(r) \/ Activate(r) \/ Insert(r) \/ Reread(r) \/ FindActive(r)
    \/ Deactivate(r) \/ Schedule(r)

WorkerStep(w) == ReadRow(w) \/ CountRow(w) \/ \E j \in Job : Take(w, j)

Next ==
    \/ \E r \in Req : \/ StartCreate(r) \/ RequestStep(r) \/ CrashRequest(r)
                     \/ \E x \in Row : StartDelete(r, x)
    \/ \E w \in Worker : WorkerStep(w) \/ Fail(w) \/ CrashWorker(w)
    \/ \E j \in Job : Redeliver(j)
    \/ Tick

Spec == Init /\ [][Next]_vars

(* Time passes, workers run, and the queue hands lost jobs out again; what
   requests do is never waited for. *)
Fairness == /\ WF_vars(Tick)
            /\ \A w \in Worker : WF_vars(WorkerStep(w))
            /\ WF_vars(\E j \in Job : Redeliver(j))
FairSpec == Spec /\ Fairness

-----------------------------------------------------------------------------
(* Properties *)

(* A bookmark that counts as set has been added once more than removed, one
   that does not as often: no retry, redelivery or second worker ever counts
   a change twice (settleScrapStateCount's guarded update). *)
CountsBalance ==
    \A x \in Row : row[x].adds - row[x].removes = IF row[x].counted THEN 1 ELSE 0

(* Only the final stable state is counted: a counter moves to the state the
   row has had for at least the debounce time, never to one a toggle passed
   through (log-event.processor.spec.ts). *)
OnlyStableCounted ==
    [][\A x \in Row : row'[x].counted # row[x].counted =>
         row'[x].counted = row[x].active /\ stable[x] = Debounce]_vars

(* No queued change stays uncounted for ever: again and again the bookmark is
   counted as it is, or it has changed and the job of that change is not
   queued yet, or the job has used up its attempts.  A job that completes
   without counting the state it was made for would break this. *)
QueuedChangeSettles ==
    \A x \in Row :
      []<> \/ row[x].active = row[x].counted
           \/ job[<<x, row[x].stamp>>].st \in {"none", "failed"}

(* Once every request is answered, a bookmark state that is not counted yet
   has a job to count it, waiting, running or kept as failed
   (log.service.spec.ts: "should soft-delete a notebook item and debounce the
   remove counter"). *)
UnsettledHasJob ==
    (\A r \in Req : At(r, "idle")) =>
      \A x \in Existing : row[x].active # row[x].counted =>
        job[<<x, row[x].stamp>>].st \in {"delayed", "taken", "failed"}
=============================================================================
