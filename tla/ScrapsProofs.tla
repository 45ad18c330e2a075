---------------------------- MODULE ScrapsProofs ----------------------------
(***************************************************************************)
(* What the bookmark counters guarantee for any number of requests,        *)
(* workers, rows, state changes and attempts, with crashes, retries and    *)
(* jobs handed out twice.                                                  *)
(***************************************************************************)
EXTENDS Scraps, TLAPS

(* A stamp is drawn once: nothing refers to one that is still to come, and a
   job that was never added has not aged. *)
Fresh ==
    /\ \A x \in Row : row[x].stamp <= last
    /\ \A r \in Req : req[r].copy.stamp <= last
    /\ \A j \in Job : IF job[j].st = "none" THEN job[j].age = 0 ELSE j[2] <= last

(* A worker has a job that is due, and only counts a difference. *)
Busy ==
    \A w \in Worker : work[w] # NoWork =>
      /\ job[work[w].job].st # "none"
      /\ job[work[w].job].age = Debounce
      /\ work[w].pc = "update" => work[w].active # work[w].counted

(* The job for a row's latest change is no older than the change. *)
Aged == \A x \in Row : job[<<x, row[x].stamp>>].st # "none" =>
                         job[<<x, row[x].stamp>>].age <= stable[x]

(* A job that may run has an attempt left. *)
Tries == \A j \in Job : job[j].st \in {"none", "delayed", "taken"} => job[j].left >= 1

Inv == TypeOK /\ Fresh /\ Busy /\ Aged /\ Tries /\ CountsBalance

RowType  == [active : BOOLEAN, counted : BOOLEAN, stamp : Stamp, adds : Nat, removes : Nat]
JobType  == [st : {"none", "delayed", "taken", "completed", "failed"},
             age : 0..Debounce, left : 0..Attempts, stall : BOOLEAN]
WorkType == [job : Job, turn : BOOLEAN, pc : {"read", "update"},
             active : BOOLEAN, counted : BOOLEAN]
PcType   == {"idle", "findInactive", "activate", "insert", "reread",
             "findActive", "deactivate", "current", "schedule"}

LEMMA Types ==
  TypeOK <=> /\ row \in [Row -> RowType] /\ rows \in 0..MaxRow /\ last \in Stamp
             /\ job \in [Job -> JobType] /\ req \in [Req -> Request]
             /\ work \in [Worker -> {NoWork} \cup WorkType]
             /\ stable \in [Row -> 0..Debounce]
  BY DEF TypeOK, RowType, JobType, WorkType

LEMMA Nulls == NoRow \in RowType /\ NoJob \in JobType /\ NoCopy \in Copy /\ Idle \in Request
  BY BoundAssumption DEF NoRow, RowType, NoJob, JobType, NoCopy, Copy, Idle, Request, Row, Stamp

LEMMA InitInv == Init => Inv
  <1> SUFFICES ASSUME Init PROVE Inv
    OBVIOUS
  <1>1. TypeOK
    BY Nulls, Types, BoundAssumption DEF Init, Stamp
  <1>2. Fresh /\ Aged /\ Tries /\ CountsBalance
    BY BoundAssumption DEF Init, Fresh, Aged, Tries, CountsBalance, NoRow, NoJob, Idle, NoCopy, Job, Stamp
  <1>3. Busy
    BY DEF Init, Busy
  <1> QED BY <1>1, <1>2, <1>3 DEF Inv

-----------------------------------------------------------------------------
(* A request moves on with a copy no newer than the last stamp. *)
LEMMA BecomeType ==
  ASSUME req \in [Req -> Request], NEW r \in Req, NEW c \in PcType, NEW d \in Copy,
         Become(r, c, d)
  PROVE  /\ req' \in [Req -> Request]
         /\ req'[r].copy = d
         /\ \A q \in Req \ {r} : req'[q] = req[q]
  BY DEF Become, Request, PcType

LEMMA CopyType ==
  ASSUME Inv, NEW x \in Row
  PROVE  CopyOf(x) \in Copy /\ CopyOf(x).stamp <= last
  BY Types DEF Inv, Fresh, CopyOf, Copy, RowType

(* A request that only reads keeps the invariant. *)
LEMMA ReadInv ==
  ASSUME Inv, NEW r \in Req, NEW c \in PcType, NEW d \in Copy, d.stamp <= last,
         Become(r, c, d), UNCHANGED <<row, rows, last, job, work, stable>>
  PROVE  Inv'
  <1>1. /\ req' \in [Req -> Request]
        /\ \A q \in Req : req'[q].copy.stamp <= last
    BY BecomeType, Types DEF Inv, Fresh
  <1>2. TypeOK'
    BY <1>1 DEF Inv, TypeOK
  <1>3. Fresh'
    BY <1>1 DEF Inv, Fresh
  <1> QED BY <1>2, <1>3 DEF Inv, Busy, Aged, Tries, CountsBalance

LEMMA FinishInv ==
  ASSUME Inv, NEW r \in Req, Finish(r), UNCHANGED <<row, rows, last, job, work, stable>>
  PROVE  Inv'
  <1>1. /\ req' \in [Req -> Request]
        /\ \A q \in Req : req'[q].copy.stamp <= last
    BY Nulls, Types DEF Inv, Fresh, Finish, Idle, NoCopy, Stamp
  <1>2. TypeOK'
    BY <1>1 DEF Inv, TypeOK
  <1>3. Fresh'
    BY <1>1 DEF Inv, Fresh
  <1> QED BY <1>2, <1>3 DEF Inv, Busy, Aged, Tries, CountsBalance

(* A state change draws a stamp no job has yet. *)
LEMMA ChangeInv ==
  ASSUME Inv, NEW r \in Req, NEW x \in Row, NEW on \in BOOLEAN, SetActive(x, on),
         NEW c \in PcType, NEW d \in Copy, d.stamp <= last + 1, Become(r, c, d),
         rows' \in 0..MaxRow, UNCHANGED <<job, work>>
  PROVE  Inv'
  <1>a. last \in Nat /\ last + 1 \in Stamp /\ last' = last + 1
    BY BoundAssumption, Types DEF Inv, SetActive, Stamp
  <1>1. /\ req' \in [Req -> Request]
        /\ \A q \in Req : req'[q].copy.stamp <= last + 1
    <2>1. \A q \in Req : req[q].copy.stamp \in Nat /\ req[q].copy.stamp <= last
      BY Types DEF Inv, Fresh, Request, Copy, Stamp
    <2> QED BY <1>a, <2>1, BecomeType, Types DEF Inv
  <1>2. /\ row' \in [Row -> RowType]
        /\ row'[x].stamp = last + 1
        /\ \A y \in Row \ {x} : row'[y] = row[y]
        /\ \A y \in Row : /\ row'[y].counted = row[y].counted /\ row'[y].adds = row[y].adds
                          /\ row'[y].removes = row[y].removes
    BY <1>a, Types DEF Inv, SetActive, RowType
  <1>3. stable' \in [Row -> 0..Debounce] /\ \A y \in Row \ {x} : stable'[y] = stable[y]
    BY Types, BoundAssumption DEF Inv, SetActive
  <1>4. TypeOK'
    BY <1>a, <1>1, <1>2, <1>3, Types DEF Inv, TypeOK, RowType
  <1>5. Fresh'
    <2>1. \A y \in Row : row[y].stamp \in Nat /\ row[y].stamp <= last
      BY Types DEF Inv, Fresh, RowType, Stamp
    <2>2. \A j \in Job : j[2] \in Nat
      BY DEF Job, Stamp
    <2> QED BY <1>a, <1>1, <1>2, <2>1, <2>2 DEF Inv, Fresh
  <1>6. Aged'
    <2>1. job[<<x, last + 1>>].st = "none"
      <3>1. <<x, last + 1>> \in Job /\ <<x, last + 1>>[2] = last + 1
        BY <1>a DEF Job
      <3> QED BY <1>a, <3>1 DEF Inv, Fresh
    <2> QED BY <1>2, <1>3, <2>1 DEF Inv, Aged
  <1> QED BY <1>2, <1>4, <1>5, <1>6 DEF Inv, Busy, Tries, CountsBalance

LEMMA FoundInv ==
  ASSUME Inv, NEW r \in Req, NEW set \in SUBSET Row, NEW c \in PcType,
         NEW x \in set, Become(r, c, CopyOf(x)),
         UNCHANGED <<row, rows, last, job, work, stable>>
  PROVE  Inv'
  BY ReadInv, CopyType

LEMMA Sets == ASSUME Inv PROVE Existing \subseteq Row /\ Active \subseteq Row /\ Inactive \subseteq Row
  BY BoundAssumption DEF Inv, TypeOK, Existing, Active, Inactive, Row

LEMMA NoCopyOld == ASSUME Inv PROVE NoCopy \in Copy /\ NoCopy.stamp <= last
  BY Nulls, Types DEF Inv, NoCopy, Stamp

LEMMA RequestInv ==
  ASSUME Inv, NEW r \in Req,
         \/ StartCreate(r) \/ RequestStep(r) \/ CrashRequest(r)
         \/ \E x \in Row : StartDelete(r, x)
  PROVE  Inv'
  <1>a. req[r].copy \in Copy /\ req[r].copy.stamp <= last /\ req[r].copy.id \in Row
    BY Types DEF Inv, Fresh, Request, Copy
  <1>b. last \in Nat /\ (last < MaxStamp => last + 1 \in Stamp)
    BY Types, BoundAssumption DEF Inv, Stamp
  <1>1. CASE StartCreate(r) \/ FindInactive(r) \/ FindActive(r)
    BY <1>1, FoundInv, ReadInv, FinishInv, Sets, NoCopyOld
       DEF StartCreate, FindInactive, FindActive, Found, PcType
  <1>2. CASE Activate(r)
    <2>1. CASE SetActive(req[r].copy.id, TRUE) /\ Become(r, "reread", req[r].copy)
      <3>1. req[r].copy.stamp <= last + 1
        BY <1>a, <1>b DEF Copy, Stamp
      <3>2. rows' \in 0..MaxRow
        BY <1>2 DEF Activate, Inv, TypeOK
      <3> QED BY <1>2, <1>a, <2>1, <3>1, <3>2, ChangeInv DEF Activate, PcType
    <2> QED BY <1>2, <2>1, ReadInv, FinishInv, NoCopyOld DEF Activate, PcType
  <1>3. CASE Insert(r)
    <2> DEFINE d == [id |-> rows + 1, active |-> TRUE, counted |-> FALSE, stamp |-> last + 1]
    <2>1. CASE rows < MaxRow /\ rows' = rows + 1 /\ SetActive(rows + 1, TRUE) /\ Become(r, "schedule", d)
      <3>1. rows + 1 \in Row /\ rows' \in 0..MaxRow /\ last + 1 \in Stamp
        BY <1>b, <2>1, BoundAssumption DEF Inv, TypeOK, Row, SetActive
      <3>2. d \in Copy /\ d.stamp <= last + 1
        BY <3>1, <1>b DEF Copy
      <3> HIDE DEF d
      <3> QED BY <1>3, <2>1, <3>1, <3>2, ChangeInv DEF Insert, PcType
    <2> QED BY <1>3, <2>1, ReadInv, FinishInv, NoCopyOld DEF Insert, PcType
  <1>4. CASE Reread(r)
    BY <1>4, <1>a, ReadInv, CopyType DEF Reread, PcType
  <1>5. CASE Deactivate(r)
    <2> DEFINE d == [id |-> req[r].copy.id, active |-> FALSE,
                     counted |-> req[r].copy.counted, stamp |-> last + 1]
    <2>1. CASE SetActive(req[r].copy.id, FALSE) /\ Become(r, "schedule", d)
      <3>1. last + 1 \in Stamp
        BY <1>b, <2>1 DEF SetActive
      <3>2. d \in Copy /\ d.stamp <= last + 1
        BY <1>a, <1>b, <3>1 DEF Copy
      <3>3. rows' \in 0..MaxRow
        BY <1>5 DEF Deactivate, Inv, TypeOK
      <3> HIDE DEF d
      <3> QED BY <1>5, <1>a, <2>1, <3>2, <3>3, ChangeInv DEF Deactivate, PcType
    <2> QED BY <1>5, <1>a, <2>1, ReadInv DEF Deactivate, PcType
  <1>6. CASE CrashRequest(r)
    BY <1>6, FinishInv DEF CrashRequest
  <1>7. ASSUME NEW x \in Row, StartDelete(r, x) PROVE Inv'
    BY <1>7, ReadInv, CopyType DEF StartDelete, PcType
  <1>8. CASE Schedule(r)
    <2> DEFINE j == <<req[r].copy.id, req[r].copy.stamp>>
    <2>1. CASE job' = job
      BY <1>8, <2>1, FinishInv DEF Schedule
    <2>2. CASE job[j].st = "none" /\ job' = [job EXCEPT ![j].st = "delayed"]
      <3>1. j \in Job /\ j[2] <= last
        BY <1>a DEF Copy, Job
      <3> HIDE DEF j
      <3>2. job' \in [Job -> JobType]
        BY <2>2, <3>1, Types DEF Inv, JobType
      <3>3. /\ \A k \in Job : job'[k].age = job[k].age
            /\ \A k \in Job \ {j} : job'[k] = job[k]
            /\ job'[j].st = "delayed" /\ job[j].age = 0
        BY <2>2, <3>1, Types DEF Inv, JobType, Fresh
      <3>4. /\ req' \in [Req -> Request]
            /\ \A q \in Req : req'[q].copy.stamp <= last
        BY <1>8, Nulls, Types DEF Inv, Fresh, Schedule, Finish, Idle, NoCopy, Stamp
      <3>5. UNCHANGED <<row, rows, last, work, stable>>
        BY <1>8 DEF Schedule
      <3>6. TypeOK'
        BY <3>2, <3>4, <3>5 DEF Inv, TypeOK, JobType
      <3>7. Fresh'
        BY <3>1, <3>3, <3>4, <3>5 DEF Inv, Fresh
      <3>8. Busy'
        BY <2>2, <3>3, <3>5, Types DEF Inv, Busy, WorkType
      <3>9. Aged'
        <4>1. \A x \in Row : <<x, row[x].stamp>> \in Job /\ stable[x] \in Nat
          BY Types DEF Inv, RowType, Job
        <4> QED BY <3>3, <3>5, <4>1 DEF Inv, Aged
      <3>10. Tries'
        BY <2>2, <3>1, Types DEF Inv, JobType, Tries
      <3> QED BY <3>5, <3>6, <3>7, <3>8, <3>9, <3>10 DEF Inv, CountsBalance
    <2> QED BY <1>8, <2>1, <2>2 DEF Schedule
  <1> QED BY <1>1, <1>2, <1>3, <1>4, <1>5, <1>6, <1>7, <1>8 DEF RequestStep

-----------------------------------------------------------------------------
(* The jobs' states move on, and no job is forgotten or made older. *)
JobsKeep == \A j \in Job : /\ job'[j].age = job[j].age
                           /\ job'[j].st = "none" <=> job[j].st = "none"

LEMMA KeepInv ==
  ASSUME Inv, JobsKeep, UNCHANGED <<row, rows, last, req, stable>>
  PROVE  Fresh' /\ Aged' /\ CountsBalance'
  <1>1. \A x \in Row : <<x, row[x].stamp>> \in Job
    BY Types DEF Inv, RowType, Job
  <1>2. Fresh'
    BY DEF Inv, Fresh, JobsKeep
  <1> QED BY <1>1, <1>2 DEF Inv, Aged, CountsBalance, JobsKeep

(* One worker moves on while the jobs are kept. *)
LEMMA WorkInv ==
  ASSUME Inv, JobsKeep, NEW w \in Worker, NEW v \in WorkType \cup {NoWork},
         work' = [work EXCEPT ![w] = v],
         v # NoWork => /\ job[v.job].st # "none" /\ job[v.job].age = Debounce
                       /\ v.pc = "update" => v.active # v.counted
  PROVE  work' \in [Worker -> {NoWork} \cup WorkType] /\ Busy'
  <1>1. \A u \in Worker \ {w} : work'[u] = work[u]
    BY Types DEF Inv
  <1>2. work'[w] = v
    BY Types DEF Inv
  <1>3. work' \in [Worker -> {NoWork} \cup WorkType]
    BY Types DEF Inv
  <1>4. \A u \in Worker : work'[u] # NoWork => work'[u].job \in Job
    BY <1>3 DEF WorkType
  <1> QED BY <1>1, <1>2, <1>3, <1>4 DEF Inv, Busy, JobsKeep

LEMMA AssignedJob ==
  ASSUME Inv, NEW w \in Worker, work[w] # NoWork
  PROVE  /\ work[w] \in WorkType /\ work[w].job \in Job /\ work[w].job[1] \in Row
         /\ job[work[w].job].st # "none" /\ job[work[w].job].age = Debounce
         /\ work[w].pc = "update" => work[w].active # work[w].counted
  BY Types DEF Inv, Busy, WorkType, Job

(* A worker that is done, for better or worse, leaves its job in some state. *)
LEMMA DoneInv ==
  ASSUME Inv, NEW w \in Worker, work[w] # NoWork,
         Complete(w) \/ Fail(w) \/ CrashWorker(w)
  PROVE  /\ job' \in [Job -> JobType] /\ JobsKeep /\ Tries'
         /\ work' \in [Worker -> {NoWork} \cup WorkType] /\ Busy'
  <1>1. PICK j \in Job : j = work[w].job /\ job[j].st # "none"
    BY AssignedJob
  <1>2. \/ UNCHANGED job
        \/ job' = [job EXCEPT ![j].st = "completed"]
        \/ /\ job' = [job EXCEPT ![j].st = IF job[j].left > 1 THEN "delayed" ELSE "failed",
                                 ![j].left = @ - 1]
           /\ job[j].st = "taken"
    BY <1>1 DEF Complete, Fail, CrashWorker, HoldsLock
  <1>3. job' \in [Job -> JobType] /\ JobsKeep /\ Tries'
    <2>1. job[j].left \in 0..Attempts /\ (job[j].st = "taken" => job[j].left >= 1)
      BY Types DEF Inv, Tries, JobType
    <2>2. CASE UNCHANGED job
      BY <2>2, Types DEF JobsKeep, Tries, Inv
    <2>3. CASE job' = [job EXCEPT ![j].st = "completed"]
      BY <1>1, <2>3, Types DEF JobsKeep, Tries, JobType, Inv
    <2>4. CASE /\ job' = [job EXCEPT ![j].st = IF job[j].left > 1 THEN "delayed" ELSE "failed",
                                    ![j].left = @ - 1]
               /\ job[j].st = "taken"
      <3>1. job' \in [Job -> JobType]
        BY <2>1, <2>4, Types, BoundAssumption DEF Inv, JobType
      <3>2. /\ \A k \in Job \ {j} : job'[k] = job[k]
            /\ job'[j].age = job[j].age /\ job'[j].left = job[j].left - 1
            /\ job'[j].st = IF job[j].left > 1 THEN "delayed" ELSE "failed"
        BY <2>4, Types DEF Inv, JobType
      <3> QED BY <2>1, <2>4, <3>1, <3>2 DEF JobsKeep, Tries, Inv
    <2> QED BY <1>2, <2>2, <2>3, <2>4
  <1>4. work' = [work EXCEPT ![w] = NoWork]
    BY DEF Complete, Fail, CrashWorker
  <1> QED BY <1>3, <1>4, WorkInv

(* The same with everything else left alone. *)
LEMMA WorkerDone ==
  ASSUME Inv, NEW w \in Worker, work[w] # NoWork,
         Complete(w) \/ Fail(w) \/ CrashWorker(w),
         UNCHANGED <<row, rows, last, req, stable>>
  PROVE  Inv'
  BY DoneInv, KeepInv DEF Inv, TypeOK, JobType, WorkType

LEMMA CountInv ==
  ASSUME Inv, NEW w \in Worker, CountRow(w)
  PROVE  Inv'
  <1> DEFINE x == work[w].job[1]
  <1>1. work[w] # NoWork /\ work[w].pc = "update" /\ work[w].active # work[w].counted
    BY AssignedJob DEF CountRow, Working
  <1>2. x \in Row /\ work[w].active \in BOOLEAN
    BY <1>1, AssignedJob DEF WorkType
  <1>3. CASE row' = row
    BY <1>1, <1>3, WorkerDone DEF CountRow
  <1>4. CASE /\ row[x].counted = work[w].counted
             /\ row' = [row EXCEPT ![x].counted = work[w].active,
                                   ![x].adds    = IF work[w].active THEN @ + 1 ELSE @,
                                   ![x].removes = IF work[w].active THEN @ ELSE @ + 1]
    <2> HIDE DEF x
    <2>1. /\ row' \in [Row -> RowType]
          /\ \A y \in Row : row'[y].stamp = row[y].stamp
      BY <1>2, <1>4, Types DEF Inv, RowType
    <2>2. CountsBalance'
      <3>1. \A y \in Row \ {x} : row'[y] = row[y]
        BY <1>4, Types DEF Inv
      <3>2. /\ row'[x].counted = work[w].active
            /\ row'[x].adds = IF work[w].active THEN row[x].adds + 1 ELSE row[x].adds
            /\ row'[x].removes = IF work[w].active THEN row[x].removes ELSE row[x].removes + 1
        BY <1>2, <1>4, Types DEF Inv, RowType
      <3>3. row[x].adds \in Nat /\ row[x].removes \in Nat /\ row[x].counted \in BOOLEAN
        BY <1>2, Types DEF Inv, RowType
      <3>4. row'[x].adds - row'[x].removes = IF row'[x].counted THEN 1 ELSE 0
        BY <1>1, <1>2, <1>4, <3>2, <3>3 DEF Inv, CountsBalance
      <3> QED BY <3>1, <3>4 DEF Inv, CountsBalance
    <2>3. /\ job' \in [Job -> JobType] /\ JobsKeep /\ Tries'
          /\ work' \in [Worker -> {NoWork} \cup WorkType] /\ Busy'
      BY <1>1, DoneInv DEF CountRow
    <2>4. UNCHANGED <<rows, last, req, stable>>
      BY DEF CountRow
    <2>5. TypeOK'
      BY <2>1, <2>3, <2>4 DEF Inv, TypeOK, RowType, JobType, WorkType
    <2>6. Fresh'
      BY <2>1, <2>3, <2>4 DEF Inv, Fresh, JobsKeep
    <2>7. Aged'
      <3>1. \A y \in Row : <<y, row[y].stamp>> \in Job
        BY Types DEF Inv, RowType, Job
      <3> QED BY <2>1, <2>3, <2>4, <3>1 DEF Inv, Aged, JobsKeep
    <2> QED BY <2>2, <2>3, <2>5, <2>6, <2>7 DEF Inv
  <1> QED BY <1>3, <1>4 DEF CountRow

LEMMA TakeInv ==
  ASSUME Inv, NEW w \in Worker, NEW j \in Job, Take(w, j)
  PROVE  Inv'
  <1> DEFINE v == [job |-> j, turn |-> job[j].stall, pc |-> "read",
                   active |-> FALSE, counted |-> FALSE]
  <1>1. job' \in [Job -> JobType] /\ JobsKeep /\ Tries'
    BY Types DEF Inv, Take, JobType, JobsKeep, Tries
  <1>2. v \in WorkType
    BY Types DEF Inv, JobType, WorkType
  <1>3. work' = [work EXCEPT ![w] = v] /\ job[j].st # "none" /\ job[j].age = Debounce
    BY DEF Take
  <1>4. work' \in [Worker -> {NoWork} \cup WorkType] /\ Busy'
    BY <1>1, <1>2, <1>3, WorkInv
  <1>5. UNCHANGED <<row, rows, last, req, stable>>
    BY DEF Take
  <1> QED BY <1>1, <1>4, <1>5, KeepInv DEF Inv, TypeOK, JobType, WorkType

LEMMA ReadRowInv ==
  ASSUME Inv, NEW w \in Worker, ReadRow(w)
  PROVE  Inv'
  <1> DEFINE x == work[w].job[1]
             v == [work[w] EXCEPT !.pc = "update", !.active = row[x].active,
                                  !.counted = row[x].counted]
  <1>1. work[w] # NoWork /\ UNCHANGED <<row, rows, last, req, stable>>
    BY DEF ReadRow, Working
  <1>2. CASE Complete(w)
    BY <1>1, <1>2, WorkerDone
  <1>3. CASE /\ row[x].active # row[x].counted /\ UNCHANGED job
             /\ work' = [work EXCEPT ![w].pc = "update", ![w].active = row[x].active,
                                     ![w].counted = row[x].counted]
    <2>1. /\ row[x].active \in BOOLEAN /\ row[x].counted \in BOOLEAN
          /\ work[w] \in WorkType
      BY <1>1, AssignedJob, Types DEF Inv, RowType
    <2>2. PICK a \in BOOLEAN, c \in BOOLEAN : a = row[x].active /\ c = row[x].counted
      BY <2>1
    <2>3. work' = [work EXCEPT ![w] = [@ EXCEPT !.pc = "update", !.active = a, !.counted = c]]
      BY <1>3, <2>2
    <2>4. /\ \A u \in Worker \ {w} : work'[u] = work[u]
          /\ work'[w] = [work[w] EXCEPT !.pc = "update", !.active = a, !.counted = c]
      BY <2>3, Types DEF Inv
    <2>5. /\ work'[w] \in WorkType /\ work'[w].job = work[w].job
          /\ work'[w].active = a /\ work'[w].counted = c
      BY <2>1, <2>4 DEF WorkType
    <2>6. work' \in [Worker -> {NoWork} \cup WorkType]
      BY <2>3, <2>4, <2>5, Types DEF Inv
    <2>7. Busy'
      <3>1. a # c
        BY <1>3, <2>2
      <3>2. job[work[w].job].st # "none" /\ job[work[w].job].age = Debounce
        BY <1>1, AssignedJob
      <3>3. /\ \A u \in Worker \ {w} : work'[u] = work[u]
            /\ work'[w].job = work[w].job /\ work'[w].active # work'[w].counted
            /\ UNCHANGED job
        BY <1>3, <2>4, <2>5, <3>1
      <3> HIDE DEF x, v
      <3> QED BY <3>2, <3>3 DEF Inv, Busy
    <2>8. TypeOK'
      BY <1>1, <1>3, <2>6 DEF Inv, TypeOK, WorkType
    <2> QED BY <1>1, <1>3, <2>7, <2>8 DEF Inv, Fresh, Aged, Tries, CountsBalance
  <1> QED BY <1>2, <1>3 DEF ReadRow

LEMMA WorkerInv ==
  ASSUME Inv, NEW w \in Worker, WorkerStep(w) \/ Fail(w) \/ CrashWorker(w)
  PROVE  Inv'
  <1>1. CASE Fail(w)
    BY <1>1, WorkerDone DEF Fail
  <1>2. CASE CrashWorker(w)
    BY <1>2, WorkerDone DEF CrashWorker
  <1>3. CASE WorkerStep(w)
    BY <1>3, ReadRowInv, CountInv, TakeInv DEF WorkerStep
  <1> QED BY <1>1, <1>2, <1>3

LEMMA RedeliverInv ==
  ASSUME Inv, NEW j \in Job, Redeliver(j)
  PROVE  Inv'
  <1>1. job' \in [Job -> JobType] /\ JobsKeep /\ Tries'
    BY Types DEF Inv, Redeliver, JobType, JobsKeep, Tries
  <1>2. UNCHANGED <<row, rows, last, req, work, stable>>
    BY DEF Redeliver
  <1>3. Busy'
    BY <1>1, <1>2, AssignedJob DEF Inv, Busy, JobsKeep
  <1> QED BY <1>1, <1>2, <1>3, KeepInv DEF Inv, TypeOK, JobType

LEMMA TickInv ==
  ASSUME Inv, Tick
  PROVE  Inv'
  <1>1. /\ job' \in [Job -> JobType]
        /\ \A j \in Job : /\ job'[j].st = job[j].st /\ job'[j].left = job[j].left
                          /\ job'[j].age = IF job[j].st = "delayed" /\ job[j].age < Debounce
                                           THEN job[j].age + 1 ELSE job[j].age
    BY Types, BoundAssumption DEF Inv, Tick, JobType
  <1>2. /\ stable' \in [Row -> 0..Debounce]
        /\ \A x \in Row : stable'[x] = IF stable[x] < Debounce THEN stable[x] + 1 ELSE stable[x]
    BY Types, BoundAssumption DEF Inv, Tick
  <1>3. UNCHANGED <<row, rows, last, req, work>>
    BY DEF Tick
  <1>4. TypeOK'
    BY <1>1, <1>2, <1>3 DEF Inv, TypeOK, JobType
  <1>5. Fresh' /\ Tries'
    BY <1>1, <1>3 DEF Inv, Fresh, Tries
  <1>6. Busy'
    BY <1>1, <1>3, AssignedJob, BoundAssumption DEF Inv, Busy
  <1>7. Aged'
    <2>1. \A x \in Row : /\ <<x, row[x].stamp>> \in Job /\ stable[x] \in 0..Debounce
                         /\ job[<<x, row[x].stamp>>].age \in 0..Debounce
      BY Types DEF Inv, RowType, Job, JobType
    <2> QED BY <1>1, <1>2, <1>3, <2>1, BoundAssumption DEF Inv, Aged
  <1> QED BY <1>3, <1>4, <1>5, <1>6, <1>7 DEF Inv, CountsBalance

LEMMA NextInv == Inv /\ [Next]_vars => Inv'
  <1> SUFFICES ASSUME Inv, [Next]_vars PROVE Inv'
    OBVIOUS
  <1>1. CASE UNCHANGED vars
    BY <1>1 DEF vars, Inv, TypeOK, Fresh, Busy, Aged, Tries, CountsBalance
  <1>2. CASE Next
    BY <1>2, RequestInv, WorkerInv, RedeliverInv, TickInv DEF Next
  <1> QED BY <1>1, <1>2

LEMMA InvHolds == Spec => []Inv
  BY InitInv, NextInv, PTL DEF Spec

-----------------------------------------------------------------------------
(* The state of the bookmark, its jobs and everyone at work on them keep
   their shape; in particular no job runs out of attempts while it waits. *)
THEOREM TypeCorrect == Spec => []TypeOK
  BY InvHolds, PTL DEF Inv

(* However often a job is retried, handed out again or run by two workers,
   settleScrapStateCount counts every change of a bookmark once. *)
THEOREM CountsBalanceHolds == Spec => []CountsBalance
  BY InvHolds, PTL DEF Inv

LEMMA CountsStable ==
  ASSUME Inv, Next, NEW x \in Row, row'[x].counted # row[x].counted
  PROVE  row'[x].counted = row[x].active /\ stable[x] = Debounce
  <1>1. CASE \E w \in Worker : CountRow(w)
    <2>1. PICK w \in Worker : CountRow(w)
      BY <1>1
    <2>2. /\ work[w] # NoWork
          /\ LET y == work[w].job[1] IN
             /\ row[y].active = work[w].active /\ row[y].stamp = work[w].job[2]
             /\ row' = [row EXCEPT ![y].counted = work[w].active,
                         ![y].adds    = IF work[w].active THEN @ + 1 ELSE @,
                         ![y].removes = IF work[w].active THEN @ ELSE @ + 1]
      BY <2>1 DEF CountRow, Working
    <2>3. work[w].job[1] = x
      BY <2>2, Types DEF Inv
    <2>4. row'[x].counted = work[w].active
      BY <2>2, <2>3, Types DEF Inv, RowType
    <2>5. work[w].job = <<x, row[x].stamp>>
      BY <2>2, <2>3, AssignedJob DEF Job
    <2>6. Debounce <= stable[x]
      BY <2>2, <2>5, AssignedJob DEF Inv, Aged
    <2>7. stable[x] \in 0..Debounce
      BY Types DEF Inv
    <2> QED BY <2>2, <2>3, <2>4, <2>6, <2>7, BoundAssumption
  <1>2. ASSUME NEW r \in Req,
               \/ StartCreate(r) \/ RequestStep(r) \/ CrashRequest(r)
               \/ \E y \in Row : StartDelete(r, y)
        PROVE  FALSE
    <2>1. \/ row' = row
          \/ \E y \in Row, on \in BOOLEAN : SetActive(y, on)
      <3>1. req[r].copy.id \in Row
        BY Types DEF Inv, Request, Copy
      <3>2. rows < MaxRow => rows + 1 \in Row
        BY BoundAssumption DEF Inv, TypeOK, Row
      <3> QED BY <1>2, <3>1, <3>2 DEF StartCreate, RequestStep, CrashRequest, StartDelete,
                 FindInactive, Activate, Insert, Reread, FindActive, Deactivate, Schedule
    <2>2. ASSUME NEW y \in Row, NEW on \in BOOLEAN, SetActive(y, on)
          PROVE  FALSE
      BY <2>2, Types DEF SetActive, Inv, RowType
    <2> QED BY <2>1, <2>2
  <1>3. CASE \/ \E w \in Worker : \/ ReadRow(w) \/ Fail(w) \/ CrashWorker(w)
                                  \/ \E j \in Job : Take(w, j)
             \/ \E j \in Job : Redeliver(j)
             \/ Tick
    BY <1>3 DEF ReadRow, Take, Fail, CrashWorker, Redeliver, Tick
  <1> QED BY <1>1, <1>2, <1>3 DEF Next, WorkerStep

(* A counter only ever follows a state that the bookmark has had for the whole
   debounce time. *)
THEOREM OnlyStableCountedHolds == Spec => OnlyStableCounted
  <1> DEFINE Follows == \A x \in Row : row'[x].counted # row[x].counted =>
                          row'[x].counted = row[x].active /\ stable[x] = Debounce
  <1>1. Inv /\ [Next]_vars => [Follows]_vars
    BY CountsStable
  <1> QED BY <1>1, InvHolds, PTL DEF Spec, OnlyStableCounted
=============================================================================
