--------------------------- MODULE ProgressProofs ---------------------------
(***************************************************************************)
(* What section progress guarantees for any number of users, sections and  *)
(* transactions, with aborts, deadlocks and jobs handed out again.         *)
(***************************************************************************)
EXTENDS Progress, FiniteSetTheorems, WellFoundedInduction, TLAPS

(* Where a transaction of a kind can be. *)
PcOf(kind) ==
    CASE kind = "save"    -> SavePc \cup BadgePc \cup {"commit", "queueSection", "queueLesson"}
      [] kind = "lesson"  -> WorkerPc \cup BadgePc \cup {"commit", "ack"}
      [] kind = "section" -> BadgePc \cup {"commit", "ack"}
      [] OTHER            -> {"idle"}

(* A transaction under way knows its user, a save its section. *)
Fits(t) == /\ t \in Tx
           /\ t.pc \in PcOf(t.kind)
           /\ t.kind # "none" => t.user \in User
           /\ t.kind = "save" => t.sec \in Section

Transactions == tx \in [Slot -> Tx] /\ \A r \in Slot : Fits(tx[r])

Stored == /\ log \in [User \X Section -> Row]
          /\ tally \in [Section -> [Level -> Int]]
          /\ stats \in [User -> [lessons : Nat, courses : Nat]]
          /\ course \subseteq User
          /\ badge \in [User -> SUBSET Badge]
          /\ queue \in [User -> [section : 0..MaxJobs, lesson : 0..MaxJobs]]
          /\ saves \in 0..MaxSaves

(* A worker that has created the completion of its user's course and not
   committed it: the row is locked and nobody else has committed one. *)
Counting(t) == t.kind = "lesson" /\ t.pc \in BadgePc \cup {"countCourse", "commit"}
Locked(t)   == "course" \in t.locks

Completions ==
    /\ CourseCountedOnce
    /\ \A r \in Slot : Counting(tx[r]) => Locked(tx[r]) /\ tx[r].user \notin course
    /\ \A r, q \in Slot : Locked(tx[r]) /\ Locked(tx[q]) /\ tx[r].user = tx[q].user => r = q

Inv == Transactions /\ Stored /\ Completions

-----------------------------------------------------------------------------
LEMMA IdleFits == Fits(Idle) /\ ~ Counting(Idle) /\ ~ Locked(Idle) /\ Idle.pc = "idle"
  <1>1. 0 \in 0..Cardinality(Section)
    BY FS_CardinalityType, ProgressAssumption
  <1> QED BY <1>1 DEF Fits, Idle, Tx, PcOf, Counting, Locked, Row, NoRow, Badge

LEMMA PcOfType ==
  ASSUME NEW kind
  PROVE  PcOf(kind) \subseteq {"idle", "commit", "queueSection", "queueLesson", "ack"}
                              \cup SavePc \cup WorkerPc \cup BadgePc
  BY DEF PcOf

(* A step that leaves the statistics and the completions alone, and takes no
   lock on a completion. *)
LEMMA MoveInv ==
  ASSUME Transactions, Completions, NEW r \in Slot, NEW t, Become(r, t), Fits(t),
         UNCHANGED <<stats, course>>,
         Counting(t) => Counting(tx[r]) /\ Locked(t) /\ t.user = tx[r].user,
         Locked(t) => Locked(tx[r]) /\ t.user = tx[r].user
  PROVE  Transactions' /\ Completions'
  <1>1. tx' = [q \in Slot |-> IF q = r THEN t ELSE tx[q]]
    BY DEF Become, Transactions
  <1>2. t \in Tx
    BY DEF Fits
  <1>3. Transactions'
    BY <1>1, <1>2 DEF Transactions
  <1>4. CourseCountedOnce'
    BY DEF Completions, CourseCountedOnce
  <1>5. \A q \in Slot : Counting(tx'[q]) => Locked(tx'[q]) /\ tx'[q].user \notin course'
    BY <1>1 DEF Completions
  <1>6. \A p, q \in Slot : Locked(tx'[p]) /\ Locked(tx'[q]) /\ tx'[p].user = tx'[q].user => p = q
    BY <1>1 DEF Completions
  <1> QED BY <1>3, <1>4, <1>5, <1>6 DEF Completions

LEMMA RollbackInv ==
  ASSUME Transactions, Completions, NEW r \in Slot, Rollback(r), UNCHANGED <<stats, course>>
  PROVE  Transactions' /\ Completions'
  BY IdleFits, MoveInv DEF Rollback

(* A transaction goes on as what it is, perhaps with one more lock. *)
LEMMA GoOnInv ==
  ASSUME Transactions, Completions, NEW r \in Slot, NEW t \in Tx, Become(r, t),
         UNCHANGED <<stats, course>>,
         t.kind = tx[r].kind, t.user = tx[r].user, t.sec = tx[r].sec,
         t.pc \in PcOf(tx[r].kind),
         tx[r].locks \subseteq t.locks, Locked(t) => Locked(tx[r]),
         tx[r].kind = "lesson" =>
           Counting(tx[r]) \/ t.pc \notin BadgePc \cup {"countCourse", "commit"}
  PROVE  Transactions' /\ Completions'
  <1>1. Fits(t)
    BY DEF Fits, Transactions
  <1>2. Counting(t) => Counting(tx[r]) /\ Locked(t)
    BY DEF Counting, Locked, Completions
  <1> QED BY <1>1, <1>2, MoveInv

LEMMA GotoInv ==
  ASSUME Transactions, Completions, NEW r \in Slot, NEW c \in PcOf(tx[r].kind), Goto(r, c),
         UNCHANGED <<stats, course>>,
         tx[r].kind = "lesson" => Counting(tx[r]) \/ c \notin BadgePc \cup {"countCourse", "commit"}
  PROVE  Transactions' /\ Completions'
  <1> DEFINE t == [tx[r] EXCEPT !.pc = c]
  <1>1. tx[r] \in Tx
    BY DEF Transactions
  <1>2. t \in Tx /\ t.pc = c /\ t.kind = tx[r].kind /\ t.user = tx[r].user
        /\ t.sec = tx[r].sec /\ t.locks = tx[r].locks
    BY <1>1, PcOfType DEF Tx
  <1>3. Locked(t) => Locked(tx[r])
    BY <1>2 DEF Locked
  <1>4. Become(r, t)
    BY DEF Goto
  <1> HIDE DEF t
  <1> QED BY <1>2, <1>3, <1>4, GoOnInv

LEMMA LockInv ==
  ASSUME Transactions, Completions, NEW r \in Slot, NEW c \in PcOf(tx[r].kind),
         NEW lock \in {"section", "share", "log", "stats"}, Lock(r, lock, c),
         UNCHANGED <<stats, course>>,
         tx[r].kind = "lesson" => Counting(tx[r]) \/ c \notin BadgePc \cup {"countCourse", "commit"}
  PROVE  Transactions' /\ Completions'
  <1> DEFINE t == [tx[r] EXCEPT !.pc = c, !.locks = @ \cup {lock}]
  <1>1. tx[r] \in Tx
    BY DEF Transactions
  <1>2. t \in Tx /\ t.pc = c /\ t.kind = tx[r].kind /\ t.user = tx[r].user
        /\ t.sec = tx[r].sec /\ t.locks = tx[r].locks \cup {lock}
    <2> DEFINE w == tx[r]
               x == [w EXCEPT !.pc = c]
    <2>1. t = [x EXCEPT !.locks = w.locks \cup {lock}]
      BY <1>1 DEF Tx
    <2> HIDE DEF t
    <2>2. w \in Tx
      BY <1>1
    <2>3. c \in {"idle", "commit", "queueSection", "queueLesson", "ack"}
                \cup SavePc \cup WorkerPc \cup BadgePc
      BY PcOfType
    <2> HIDE DEF w
    <2>4. /\ x \in Tx /\ x.pc = c /\ x.kind = w.kind /\ x.user = w.user
          /\ x.sec = w.sec /\ x.locks = w.locks
      BY <2>2, <2>3 DEF Tx
    <2> HIDE DEF x
    <2>5. w.locks \cup {lock} \in SUBSET {"section", "share", "log", "stats", "course"}
      BY <2>2 DEF Tx
    <2>6. /\ t \in Tx /\ t.pc = c /\ t.kind = w.kind /\ t.user = w.user
          /\ t.sec = w.sec /\ t.locks = w.locks \cup {lock}
      BY <2>1, <2>4, <2>5 DEF Tx
    <2> QED BY <2>6 DEF w
  <1>3. Locked(t) => Locked(tx[r])
    BY <1>2 DEF Locked
  <1>4. Become(r, t)
    BY DEF Lock
  <1> HIDE DEF t
  <1> QED BY <1>2, <1>3, <1>4, GoOnInv

LEMMA EnqueueType ==
  ASSUME Stored, NEW u \in User, NEW kind \in {"section", "lesson"}, Enqueue(u, kind)
  PROVE  queue' \in [User -> [section : 0..MaxJobs, lesson : 0..MaxJobs]]
  BY ProgressAssumption DEF Enqueue, Stored

LEMMA StoredSame ==
  ASSUME Stored, UNCHANGED <<rows, queue, saves>>
  PROVE  Stored' /\ UNCHANGED <<stats, course>>
  BY DEF Stored, rows

-----------------------------------------------------------------------------
LEMMA InitInv == Init => Inv
  <1> SUFFICES ASSUME Init PROVE Inv
    OBVIOUS
  <1>1. Transactions
    BY IdleFits DEF Init, Transactions, Fits
  <1>2. Stored
    BY ProgressAssumption DEF Init, Stored, Row, NoRow
  <1>3. Completions
    BY IdleFits DEF Init, Completions, CourseCountedOnce
  <1> QED BY <1>1, <1>2, <1>3 DEF Inv

LEMMA CountBeforeInv == ASSUME Inv, NEW r \in Slot, CountBefore(r) PROVE Inv'
  <1> DEFINE n == Cardinality(Completed(tx[r].user))
             c == IF tx[r].rate = NoLevel THEN "readLog" ELSE "lockSection"
             t == [tx[r] EXCEPT !.before = n, !.pc = c]
  <1>1. n \in 0..Cardinality(Section)
    <2>1. Completed(tx[r].user) \subseteq Section
      BY DEF Completed
    <2> QED BY <2>1, FS_Subset, FS_CardinalityType, ProgressAssumption
  <1>2. tx[r] \in Tx /\ Fits(tx[r])
    BY DEF Inv, Transactions
  <1>3. tx[r].kind = "save"
    BY <1>2 DEF CountBefore, At, Fits, PcOf, WorkerPc, BadgePc
  <1>4. c \in PcOf(tx[r].kind)
    BY <1>3 DEF PcOf, SavePc
  <1> HIDE DEF n, c
  <1>5. t \in Tx /\ t.pc = c /\ t.kind = tx[r].kind /\ t.user = tx[r].user
        /\ t.sec = tx[r].sec /\ t.locks = tx[r].locks
    BY <1>1, <1>2, <1>4, PcOfType DEF Tx
  <1>6. Become(r, t)
    BY DEF CountBefore, n, c
  <1>7. Locked(t) => Locked(tx[r])
    BY <1>5 DEF Locked
  <1> HIDE DEF t
  <1> QED BY <1>3, <1>4, <1>5, <1>6, <1>7, GoOnInv, StoredSame DEF Inv, CountBefore

(* After the reads of a save: on to its upsert, or back out. *)
LEMMA AfterReadInv ==
  ASSUME Inv, NEW r \in Slot, NEW old \in Row, NEW first \in BOOLEAN, tx[r].kind = "save",
         AfterRead(r, old, first), UNCHANGED <<rows, queue, saves>>
  PROVE  Inv'
  <1> DEFINE t == [tx[r] EXCEPT !.pc = "upsert", !.old = old, !.first = first]
  <1>1. tx[r] \in Tx
    BY DEF Inv, Transactions
  <1>2. t \in Tx /\ t.pc = "upsert" /\ t.kind = tx[r].kind /\ t.user = tx[r].user
        /\ t.sec = tx[r].sec /\ t.locks = tx[r].locks
    BY <1>1 DEF Tx, SavePc
  <1>3. Locked(t) => Locked(tx[r])
    BY <1>2 DEF Locked
  <1>4. Rollback(r) \/ Become(r, t)
    BY DEF AfterRead
  <1>5. t.pc \in PcOf(tx[r].kind)
    BY <1>2 DEF PcOf, SavePc
  <1> HIDE DEF t
  <1> QED BY <1>2, <1>3, <1>4, <1>5, GoOnInv, RollbackInv, StoredSame DEF Inv

(* The steps of a save before its badges. *)
LEMMA SaveInv ==
  ASSUME Inv, NEW r \in Slot,
         \/ LockSection(r) \/ ReadLog(r) \/ CountLogs(r) \/ Upsert(r)
         \/ Share(r) \/ Activity(r) \/ Lesson(r)
  PROVE  Inv'
  <1>1. tx[r] \in Tx /\ Fits(tx[r])
    BY DEF Inv, Transactions
  <1>2. tx[r].kind = "save"
    BY <1>1 DEF LockSection, ReadLog, CountLogs, Upsert, Share, Activity, Lesson, Free, At,
                Fits, PcOf, WorkerPc, BadgePc
  <1>3. tx[r].user \in User /\ tx[r].sec \in Section
    BY <1>1, <1>2 DEF Fits
  <1>4. SavePc \cup BadgePc \subseteq PcOf(tx[r].kind)
    BY <1>2 DEF PcOf
  <1>5. UNCHANGED <<rows, queue, saves>>
    BY DEF LockSection, ReadLog, CountLogs, Upsert, Share, Activity, Lesson
  <1>6. CASE LockSection(r)
    BY <1>2, <1>4, <1>5, <1>6, LockInv, StoredSame DEF LockSection, Inv, SavePc
  <1>7. CASE ReadLog(r)
    <2>1. TheLog(r) \in Row
      BY <1>3 DEF TheLog, Inv, Stored
    <2>2. CASE AfterRead(r, TheLog(r), FALSE)
      BY <1>2, <1>5, <2>1, <2>2, AfterReadInv
    <2>3. CASE Goto(r, "countLogs")
      BY <1>2, <1>4, <1>5, <2>3, GotoInv, StoredSame DEF Inv, SavePc
    <2> QED BY <1>7, <2>2, <2>3 DEF ReadLog
  <1>8. CASE CountLogs(r)
    <2>1. NoRow \in Row
      BY DEF NoRow, Row
    <2> QED BY <1>2, <1>5, <1>8, <2>1, AfterReadInv DEF CountLogs
  <1>9. CASE Upsert(r)
    BY <1>2, <1>4, <1>5, <1>9, LockInv, StoredSame DEF Upsert, Inv, SavePc
  <1>10. CASE Share(r)
    BY <1>2, <1>4, <1>5, <1>10, LockInv, StoredSame DEF Share, Inv, SavePc
  <1>11. CASE Activity(r)
    BY <1>2, <1>4, <1>5, <1>11, LockInv, StoredSame DEF Activity, Inv, SavePc
  <1>12. CASE Lesson(r)
    <2>1. PICK next \in {"awardFirst", "readStats"} : Lock(r, "stats", next) \/ Goto(r, next)
      BY <1>12 DEF Lesson
    <2> QED BY <1>2, <1>4, <1>5, <2>1, LockInv, GotoInv, StoredSame DEF Inv, SavePc, BadgePc
  <1> QED BY <1>6, <1>7, <1>8, <1>9, <1>10, <1>11, <1>12

LEMMA CreateInv ==
  ASSUME Inv, NEW r \in Slot, NEW b \in Badge, NEW c \in BadgePc,
         At(r, "awardFirst") \/ At(r, "award"),
         Create(r, b, c), UNCHANGED <<rows, queue, saves>>
  PROVE  Inv'
  <1> DEFINE t == [tx[r] EXCEPT !.pc = c, !.due = @ \ {b}, !.broken = TRUE]
             u == [tx[r] EXCEPT !.pc = c, !.due = @ \ {b}, !.new = @ \cup {b}]
  <1>1. tx[r] \in Tx /\ Fits(tx[r])
    BY DEF Inv, Transactions
  <1>2. t \in Tx /\ t.pc = c /\ t.kind = tx[r].kind /\ t.user = tx[r].user
        /\ t.sec = tx[r].sec /\ t.locks = tx[r].locks
    BY <1>1 DEF Tx
  <1>3. u \in Tx /\ u.pc = c /\ u.kind = tx[r].kind /\ u.user = tx[r].user
        /\ u.sec = tx[r].sec /\ u.locks = tx[r].locks
    BY <1>1 DEF Tx
  <1>4. Become(r, t) \/ Become(r, u)
    BY DEF Create
  <1>5. (Locked(t) => Locked(tx[r])) /\ (Locked(u) => Locked(tx[r]))
    BY <1>2, <1>3 DEF Locked
  <1>6. c \in PcOf(tx[r].kind) /\ (tx[r].kind = "lesson" => Counting(tx[r]))
    BY <1>1 DEF PcOf, Fits, At, SavePc, WorkerPc, BadgePc, Counting
  <1> HIDE DEF t, u
  <1> QED BY <1>2, <1>3, <1>4, <1>5, <1>6, GoOnInv, StoredSame DEF Inv

LEMMA NextDueType == ASSUME NEW r \in Slot PROVE NextDue(r) \in Badge
  BY DEF NextDue, Badge

(* awardByKey and checkStatBadges. *)
LEMMA BadgeInv ==
  ASSUME Inv, NEW r \in Slot, AwardFirst(r) \/ ReadStats(r) \/ ReadEarned(r) \/ Award(r)
  PROVE  Inv'
  <1>1. tx[r] \in Tx /\ Fits(tx[r])
    BY DEF Inv, Transactions
  <1>2. UNCHANGED <<rows, queue, saves>>
    BY DEF AwardFirst, ReadStats, ReadEarned, Award
  <1>3. CASE AwardFirst(r)
    BY <1>2, <1>3, CreateInv DEF AwardFirst, Free, Badge, BadgePc
  <1>4. ASSUME tx[r].pc \in BadgePc
        PROVE  /\ BadgePc \cup {"commit"} \subseteq PcOf(tx[r].kind)
               /\ tx[r].kind = "lesson" => Counting(tx[r])
    BY <1>1, <1>4 DEF PcOf, Fits, SavePc, WorkerPc, BadgePc, Counting
  <1>5. CASE ReadStats(r)
    <2> DEFINE d == {b \in Badge : \/ b = "lesson_first" /\ OwnLessons(r) >= 1
                                   \/ b = "course_1" /\ OwnCourses(r) >= 1}
               t == [tx[r] EXCEPT !.pc = "readEarned", !.due = d]
    <2>1. d \subseteq Badge
      OBVIOUS
    <2>2. Rollback(r) \/ Become(r, t)
      BY <1>5 DEF ReadStats
    <2> HIDE DEF d
    <2>3. t \in Tx /\ t.pc = "readEarned" /\ t.kind = tx[r].kind /\ t.user = tx[r].user
          /\ t.sec = tx[r].sec /\ t.locks = tx[r].locks
      BY <1>1, <2>1 DEF Tx, BadgePc
    <2>4. Locked(t) => Locked(tx[r])
      BY <2>3 DEF Locked
    <2>5. tx[r].pc \in BadgePc /\ "readEarned" \in BadgePc
      BY <1>5 DEF ReadStats, At, BadgePc
    <2> HIDE DEF t
    <2> QED BY <1>2, <1>4, <2>2, <2>3, <2>4, <2>5, GoOnInv, RollbackInv, StoredSame DEF Inv
  <1>6. CASE ReadEarned(r)
    <2> DEFINE t == [tx[r] EXCEPT !.pc = "award",
                                  !.due = @ \ (badge[tx[r].user] \cup tx[r].new)]
    <2>1. Become(r, t)
      BY <1>6 DEF ReadEarned
    <2>2. t \in Tx /\ t.pc = "award" /\ t.kind = tx[r].kind /\ t.user = tx[r].user
          /\ t.sec = tx[r].sec /\ t.locks = tx[r].locks
      BY <1>1 DEF Tx, BadgePc
    <2>3. Locked(t) => Locked(tx[r])
      BY <2>2 DEF Locked
    <2>4. tx[r].pc \in BadgePc /\ "award" \in BadgePc
      BY <1>6 DEF ReadEarned, At, BadgePc
    <2> HIDE DEF t
    <2> QED BY <1>2, <1>4, <2>1, <2>2, <2>3, <2>4, GoOnInv, StoredSame DEF Inv
  <1>7. CASE Award(r)
    <2>1. tx[r].pc \in BadgePc
      BY <1>7 DEF Award, Free, At, BadgePc
    <2>2. CASE Goto(r, "commit")
      BY <1>2, <1>4, <2>1, <2>2, GotoInv, StoredSame DEF Inv
    <2>3. CASE Create(r, NextDue(r), "award")
      BY <1>2, <1>7, <2>3, CreateInv, NextDueType DEF Award, Free, BadgePc
    <2> QED BY <1>7, <2>2, <2>3 DEF Award
  <1> QED BY <1>3, <1>5, <1>6, <1>7

-----------------------------------------------------------------------------
(* The commit keeps the rows well typed ... *)
LEMMA CommitStored ==
  ASSUME Inv, NEW r \in Slot, Commit(r), ~ tx[r].broken
  PROVE  Stored'
  <1>1. tx[r] \in Tx /\ Fits(tx[r]) /\ At(r, "commit")
    BY DEF Inv, Transactions, Commit
  <1>2. tx[r].user \in User
    BY <1>1 DEF Fits, At, PcOf
  <1>3. log' \in [User \X Section -> Row]
    <2>1. CASE tx[r].kind = "save"
      <3>1. TheLog(r) \in Row
        BY <1>1, <1>2, <2>1 DEF Fits, TheLog, Inv, Stored
      <3>2. Saved(r) \in Row
        BY <1>1, <3>1 DEF Saved, Row, Tx
      <3> QED BY <2>1, <3>2 DEF Commit, Inv, Stored
    <2>2. CASE tx[r].kind # "save"
      BY <2>2 DEF Commit, Inv, Stored
    <2> QED BY <2>1, <2>2
  <1>4. tally' \in [Section -> [Level -> Int]]
    <2>1. CASE tx[r].kind = "save"
      <3> DEFINE f == [l \in Level |-> tally[tx[r].sec][l]
                         + (IF l = tx[r].rate THEN 1 ELSE IF l = tx[r].old.rate THEN -1 ELSE 0)]
      <3>1. tx[r].sec \in Section
        BY <1>1, <2>1 DEF Fits
      <3>2. \A l \in Level : tally[tx[r].sec][l] \in Int
        BY <3>1 DEF Inv, Stored
      <3>3. f \in [Level -> Int]
        BY <3>2
      <3>4. Moved(r) = tally \/ Moved(r) = [tally EXCEPT ![tx[r].sec] = f]
        BY DEF Moved
      <3> HIDE DEF f
      <3>5. tally' = Moved(r)
        BY <1>1, <2>1 DEF Commit
      <3> QED BY <3>3, <3>4, <3>5 DEF Inv, Stored
    <2>2. CASE tx[r].kind # "save"
      BY <2>2 DEF Commit, Inv, Stored
    <2> QED BY <2>1, <2>2
  <1>5. stats' \in [User -> [lessons : Nat, courses : Nat]]
    <2>1. stats[tx[r].user] \in [lessons : Nat, courses : Nat]
      BY <1>2 DEF Inv, Stored
    <2>2. OwnLessons(r) \in Nat /\ OwnCourses(r) \in Nat
      BY <2>1 DEF OwnLessons, OwnCourses
    <2> QED BY <2>2 DEF Commit, Inv, Stored
  <1>6. course' \subseteq User
    BY <1>2 DEF Commit, Inv, Stored
  <1>7. badge' \in [User -> SUBSET Badge]
    BY <1>1 DEF Commit, Inv, Stored, Tx
  <1> QED BY <1>3, <1>4, <1>5, <1>6, <1>7 DEF Commit, Inv, Stored

(* ... and counts the completion that it makes visible. *)
LEMMA CommitInv == ASSUME Inv, NEW r \in Slot, Commit(r) PROVE Inv'
  <1>1. tx[r] \in Tx /\ Fits(tx[r]) /\ At(r, "commit")
    BY DEF Inv, Transactions, Commit
  <1>2. CASE tx[r].broken
    BY <1>2, RollbackInv, StoredSame DEF Commit, Inv
  <1>3. CASE ~ tx[r].broken
    <2> DEFINE c == IF tx[r].kind = "save" THEN "queueSection" ELSE "ack"
               t == [tx[r] EXCEPT !.pc = c, !.locks = {}, !.new = {}]
    <2>1. Become(r, t)
      BY <1>3 DEF Commit
    <2>2. c \in PcOf(tx[r].kind) /\ c \in {"queueSection", "ack"}
      BY <1>1 DEF Fits, At, PcOf
    <2> HIDE DEF c
    <2>3. t \in Tx /\ t.pc = c /\ t.kind = tx[r].kind /\ t.user = tx[r].user
          /\ t.sec = tx[r].sec /\ t.locks = {}
      BY <1>1, <2>2 DEF Tx
    <2> HIDE DEF t
    <2>4. Fits(t) /\ ~ Counting(t) /\ ~ Locked(t)
      BY <1>1, <2>2, <2>3 DEF Fits, Counting, Locked, BadgePc
    <2>5. tx' = [q \in Slot |-> IF q = r THEN t ELSE tx[q]]
      BY <2>1 DEF Become, Inv, Transactions
    <2>6. Transactions'
      BY <2>3, <2>4, <2>5 DEF Inv, Transactions
    <2>7. tx[r].user \in User /\ (tx[r].kind = "lesson" =>
                                   Counting(tx[r]) /\ Locked(tx[r]) /\ tx[r].user \notin course)
      BY <1>1 DEF Fits, At, PcOf, Counting, Inv, Completions
    <2>8. course' = IF tx[r].kind = "lesson" THEN course \cup {tx[r].user} ELSE course
      BY <1>3 DEF Commit
    <2>9. CourseCountedOnce'
      <3> SUFFICES ASSUME NEW u \in User
                   PROVE  stats'[u].courses = IF u \in course' THEN 1 ELSE 0
        BY DEF CourseCountedOnce
      <3>1. stats[u].courses = IF u \in course THEN 1 ELSE 0
        BY DEF Inv, Completions, CourseCountedOnce
      <3>2. CASE u = tx[r].user
        <4>1. stats'[u].courses = OwnCourses(r)
          BY <1>3, <3>2 DEF Commit, Inv, Stored
        <4> QED BY <2>7, <2>8, <3>1, <3>2, <4>1 DEF OwnCourses
      <3>3. CASE u # tx[r].user
        <4>1. stats'[u] = stats[u]
          BY <1>3, <3>3 DEF Commit, Inv, Stored
        <4> QED BY <2>8, <3>1, <3>3, <4>1
      <3> QED BY <3>2, <3>3
    <2>10. ASSUME NEW q \in Slot, Counting(tx'[q])
           PROVE  Locked(tx'[q]) /\ tx'[q].user \notin course'
      <3>1. q # r /\ tx'[q] = tx[q]
        BY <2>4, <2>5, <2>10
      <3>2. Locked(tx[q]) /\ tx[q].user \notin course
        BY <2>10, <3>1 DEF Inv, Completions
      <3>3. tx[r].kind = "lesson" => tx[q].user # tx[r].user
        BY <2>7, <3>1, <3>2 DEF Inv, Completions
      <3> QED BY <2>8, <3>1, <3>2, <3>3
    <2>11. \A p, q \in Slot : Locked(tx'[p]) /\ Locked(tx'[q]) /\ tx'[p].user = tx'[q].user => p = q
      BY <2>4, <2>5 DEF Inv, Completions
    <2> QED BY <1>3, <2>6, <2>9, <2>10, <2>11, CommitStored DEF Inv, Completions
  <1> QED BY <1>2, <1>3

-----------------------------------------------------------------------------
(* The jobs a save queues, and the worker's steps. *)
LEMMA QueueInv ==
  ASSUME Inv, NEW r \in Slot, QueueSection(r) \/ QueueLesson(r) \/ Ack(r)
  PROVE  Inv'
  <1>1. tx[r] \in Tx /\ Fits(tx[r])
    BY DEF Inv, Transactions
  <1>2. UNCHANGED <<rows, saves>>
    BY DEF QueueSection, QueueLesson, Ack
  <1>3. UNCHANGED <<stats, course>>
    BY <1>2 DEF rows
  <1>4. tx[r].user \in User
    BY <1>1 DEF QueueSection, QueueLesson, Ack, At, Fits, PcOf
  <1>5. Stored'
    <2>1. queue' \in [User -> [section : 0..MaxJobs, lesson : 0..MaxJobs]]
      BY <1>4, EnqueueType DEF QueueSection, QueueLesson, Ack, Inv, Stored
    <2> QED BY <1>2, <2>1 DEF Inv, Stored, rows
  <1>6. CASE Rollback(r)
    BY <1>3, <1>5, <1>6, RollbackInv DEF Inv
  <1>7. CASE QueueSection(r)
    <2>1. tx[r].kind = "save"
      BY <1>1, <1>7 DEF QueueSection, At, Fits, PcOf, WorkerPc, BadgePc
    <2>2. "queueLesson" \in PcOf(tx[r].kind)
      BY <2>1 DEF PcOf
    <2> QED BY <1>3, <1>5, <1>7, <2>1, <2>2, GotoInv DEF QueueSection, Inv
  <1> QED BY <1>6, <1>7 DEF QueueLesson, Ack

(* The create of the completion, once no other transaction has one pending. *)
LEMMA CompleteInv == ASSUME Inv, NEW r \in Slot, Complete(r) PROVE Inv'
  <1>1. tx[r] \in Tx /\ Fits(tx[r]) /\ At(r, "complete")
    BY DEF Inv, Transactions, Complete, Free
  <1>2. tx[r].kind = "lesson" /\ tx[r].user \in User
    BY <1>1 DEF At, Fits, PcOf, SavePc, BadgePc
  <1>3. UNCHANGED <<rows, saves>> /\ UNCHANGED <<stats, course>>
    BY DEF Complete, rows
  <1>4. Stored'
    <2>1. queue' \in [User -> [section : 0..MaxJobs, lesson : 0..MaxJobs]]
      BY <1>2, EnqueueType DEF Complete, Inv, Stored
    <2> QED BY <1>3, <2>1 DEF Inv, Stored, rows
  <1>5. CASE Rollback(r)
    BY <1>3, <1>4, <1>5, RollbackInv DEF Inv
  <1>6. CASE tx[r].user \notin course /\ Lock(r, "course", "countCourse")
    <2> DEFINE t == [tx[r] EXCEPT !.pc = "countCourse", !.locks = @ \cup {"course"}]
    <2>1. Become(r, t)
      BY <1>6 DEF Lock
    <2>2. t \in Tx /\ t.pc = "countCourse" /\ t.kind = tx[r].kind /\ t.user = tx[r].user
          /\ t.sec = tx[r].sec /\ t.locks = tx[r].locks \cup {"course"}
      BY <1>1 DEF Tx, WorkerPc
    <2> HIDE DEF t
    <2>3. Fits(t) /\ Locked(t)
      BY <1>1, <1>2, <2>2 DEF Fits, Locked, PcOf, WorkerPc
    <2>4. tx' = [q \in Slot |-> IF q = r THEN t ELSE tx[q]]
      BY <2>1 DEF Become, Inv, Transactions
    <2>5. Transactions'
      BY <2>2, <2>3, <2>4 DEF Inv, Transactions
    <2>6. \A q \in Slot : q # r /\ tx[q].user = tx[r].user => ~ Locked(tx[q])
      <3>1. Blockers(r) = {q \in Slot : SameUser(r, q) /\ "course" \in tx[q].locks}
        BY <1>1 DEF Blockers, At
      <3> QED BY <3>1 DEF Complete, Free, SameUser, Locked
    <2>7. CourseCountedOnce'
      BY <1>3 DEF Inv, Completions, CourseCountedOnce
    <2>8. \A q \in Slot : Counting(tx'[q]) => Locked(tx'[q]) /\ tx'[q].user \notin course'
      BY <1>3, <1>6, <2>2, <2>3, <2>4 DEF Inv, Completions
    <2>9. \A p, q \in Slot : Locked(tx'[p]) /\ Locked(tx'[q]) /\ tx'[p].user = tx'[q].user => p = q
      BY <2>2, <2>4, <2>6 DEF Inv, Completions
    <2> QED BY <1>4, <2>5, <2>7, <2>8, <2>9 DEF Inv, Completions
  <1> QED BY <1>5, <1>6 DEF Complete

LEMMA WorkerInv ==
  ASSUME Inv, NEW r \in Slot, CountSections(r) \/ Existing(r) \/ CountCourse(r)
  PROVE  Inv'
  <1>1. tx[r] \in Tx /\ Fits(tx[r])
    BY DEF Inv, Transactions
  <1>2. tx[r].kind = "lesson"
    BY <1>1 DEF CountSections, Existing, CountCourse, Free, At, Fits, PcOf, SavePc, BadgePc
  <1>3. UNCHANGED <<rows, queue, saves>>
    BY DEF CountSections, Existing, CountCourse
  <1>4. WorkerPc \cup BadgePc \subseteq PcOf(tx[r].kind)
    BY <1>2 DEF PcOf
  <1>5. CASE Rollback(r)
    BY <1>3, <1>5, RollbackInv, StoredSame DEF Inv
  <1>6. CASE Goto(r, "existing") \/ Goto(r, "complete")
    BY <1>3, <1>4, <1>6, GotoInv, StoredSame DEF Inv, WorkerPc, BadgePc
  <1>7. CASE CountCourse(r)
    <2>1. Counting(tx[r])
      BY <1>2, <1>7 DEF CountCourse, Free, At, Counting
    <2> QED BY <1>3, <1>4, <1>7, <2>1, LockInv, StoredSame DEF CountCourse, Inv, BadgePc
  <1> QED BY <1>5, <1>6, <1>7 DEF CountSections, Existing

LEMMA StepInv == ASSUME Inv, NEW r \in Slot, Step(r) PROVE Inv'
  BY CountBeforeInv, SaveInv, BadgeInv, CommitInv, QueueInv, CompleteInv, WorkerInv DEF Step

-----------------------------------------------------------------------------
(* Requests and jobs begin in a slot that holds nothing. *)
LEMMA BeginInv ==
  ASSUME Transactions, Completions, NEW r \in Slot, NEW t, Become(r, t), Fits(t),
         ~ Counting(t), ~ Locked(t), UNCHANGED <<stats, course>>
  PROVE  Transactions' /\ Completions'
  BY MoveInv

LEMMA StartSaveInv ==
  ASSUME Inv, NEW r \in Slot, NEW u \in User, NEW s \in Section, NEW done \in BOOLEAN,
         NEW rate \in Level \cup {NoLevel}, StartSave(r, u, s, done, rate)
  PROVE  Inv'
  <1> DEFINE t == [Idle EXCEPT !.pc = "countBefore", !.kind = "save", !.user = u,
                               !.sec = s, !.done = done, !.rate = rate]
  <1>1. Become(r, t)
    BY DEF StartSave
  <1>2. Idle \in Tx /\ Idle.locks = {}
    BY IdleFits DEF Fits, Idle
  <1>3. t \in Tx /\ t.pc = "countBefore" /\ t.kind = "save" /\ t.user = u /\ t.sec = s
        /\ t.locks = {}
    <2>1. "countBefore" \in {"idle", "commit", "queueSection", "queueLesson", "ack"}
                              \cup SavePc \cup WorkerPc \cup BadgePc
      BY DEF SavePc
    <2> DEFINE x == [Idle EXCEPT !.pc = "countBefore", !.kind = "save", !.user = u]
    <2>2. /\ x \in Tx /\ x.pc = "countBefore" /\ x.kind = "save" /\ x.user = u
          /\ x.locks = {}
      BY <1>2, <2>1 DEF Tx
    <2>3. t = [x EXCEPT !.sec = s, !.done = done, !.rate = rate]
      BY DEF Idle
    <2> HIDE DEF t, x
    <2> QED BY <2>2, <2>3 DEF Tx
  <1> HIDE DEF t
  <1>4. Fits(t) /\ ~ Counting(t) /\ ~ Locked(t)
    BY <1>3 DEF Fits, Counting, Locked, PcOf, SavePc
  <1>5. UNCHANGED <<stats, course>>
    BY DEF StartSave, rows
  <1>6. Stored'
    BY ProgressAssumption DEF Inv, Stored, StartSave, rows
  <1> QED BY <1>1, <1>4, <1>5, <1>6, BeginInv DEF Inv

LEMMA TakeJobInv ==
  ASSUME Inv, NEW r \in Slot, NEW u \in User, NEW kind \in {"section", "lesson"},
         TakeJob(r, u, kind)
  PROVE  Inv'
  <1> DEFINE c == IF kind = "section" THEN "readStats" ELSE "countSections"
             t == [Idle EXCEPT !.kind = kind, !.user = u, !.pc = c]
  <1>1. Become(r, t)
    BY DEF TakeJob
  <1>2. Idle \in Tx /\ Idle.locks = {}
    BY IdleFits DEF Fits, Idle
  <1>3. t \in Tx /\ t.pc = c /\ t.kind = kind /\ t.user = u /\ t.locks = {}
    <2>1. c \in {"idle", "commit", "queueSection", "queueLesson", "ack"}
                \cup SavePc \cup WorkerPc \cup BadgePc
      BY DEF WorkerPc, BadgePc
    <2> HIDE DEF c
    <2> DEFINE x == [Idle EXCEPT !.kind = kind, !.user = u]
    <2>2. x \in Tx /\ x.kind = kind /\ x.user = u /\ x.locks = {}
      BY <1>2 DEF Tx
    <2>3. t = [x EXCEPT !.pc = c]
      BY DEF Idle
    <2> HIDE DEF t, x
    <2> QED BY <2>1, <2>2, <2>3 DEF Tx
  <1> HIDE DEF t
  <1>4. Fits(t) /\ ~ Counting(t) /\ ~ Locked(t)
    BY <1>3 DEF Fits, Counting, Locked, PcOf, WorkerPc, BadgePc
  <1>5. UNCHANGED <<stats, course>>
    BY DEF TakeJob, rows
  <1>6. Stored'
    <2>1. queue' \in [User -> [section : 0..MaxJobs, lesson : 0..MaxJobs]]
      <3> DEFINE n    == queue[u][kind]
                 jobs == [queue[u] EXCEPT ![kind] = n - 1]
      <3>1. queue \in [User -> [section : 0..MaxJobs, lesson : 0..MaxJobs]] /\ n > 0
        BY DEF TakeJob, Inv, Stored
      <3>2. n \in 0..MaxJobs
        BY <3>1
      <3>3. queue' = [queue EXCEPT ![u] = jobs]
        BY DEF TakeJob
      <3> HIDE DEF n
      <3>4. n - 1 \in 0..MaxJobs
        BY <3>1, <3>2, ProgressAssumption
      <3>5. jobs \in [section : 0..MaxJobs, lesson : 0..MaxJobs]
        BY <3>1, <3>4
      <3> QED BY <3>1, <3>3, <3>5
    <2> QED BY <2>1 DEF Inv, Stored, TakeJob, rows
  <1> QED BY <1>1, <1>4, <1>5, <1>6, BeginInv DEF Inv

LEMMA RedeliverInv == ASSUME Inv, NEW r \in Slot, Redeliver(r) PROVE Inv'
  <1>1. tx[r].user \in User /\ tx[r].kind \in {"section", "lesson"}
    BY DEF Redeliver, Inv, Transactions, Fits
  <1>2. Stored'
    <2>1. queue' \in [User -> [section : 0..MaxJobs, lesson : 0..MaxJobs]]
      BY <1>1, EnqueueType DEF Redeliver, Inv
    <2> QED BY <2>1 DEF Inv, Stored, Redeliver, rows
  <1>3. UNCHANGED <<stats, course, tx>>
    BY DEF Redeliver, rows
  <1> QED BY <1>2, <1>3 DEF Inv, Transactions, Completions, CourseCountedOnce

LEMMA NextInv == Inv /\ [Next]_vars => Inv'
  <1> SUFFICES ASSUME Inv, [Next]_vars PROVE Inv'
    OBVIOUS
  <1>1. CASE UNCHANGED vars
    BY <1>1 DEF vars, Inv, Transactions, Stored, Completions, CourseCountedOnce
  <1>2. CASE Rest
    BY <1>1, <1>2 DEF Rest
  <1>3. ASSUME NEW r \in Slot, Abort(r) \/ Victim(r) PROVE Inv'
    BY <1>3, RollbackInv, StoredSame DEF Abort, Victim, Inv
  <1> QED BY <1>1, <1>2, <1>3, StepInv, RedeliverInv, StartSaveInv, TakeJobInv DEF Next

(* Every reachable state is well typed, whatever the number of users,
   sections, transactions and saves. *)
THEOREM TypeCorrect == Spec => []TypeOK
  <1>1. Inv => TypeOK
    BY DEF Inv, Transactions, Stored, TypeOK
  <1> QED BY <1>1, InitInv, NextInv, PTL DEF Spec

(* A completed course is counted exactly once, however often its job is
   queued, retried, handed out again or run by several workers at once. *)
THEOREM CourseCountedOnceHolds == Spec => []CourseCountedOnce
  <1>1. Inv => CourseCountedOnce
    BY DEF Inv, Completions
  <1> QED BY <1>1, InitInv, NextInv, PTL DEF Spec

-----------------------------------------------------------------------------
(* Badges.  Where a save has read its section's log, where the first badge is
   settled, and where the badges of the statistics are. *)
Started == {"upsert", "share", "activity", "lesson", "awardFirst", "readStats",
            "readEarned", "award", "commit"}
Past    == {"readStats", "readEarned", "award", "commit"}
Read    == {"readEarned", "award", "commit"}

Begun(u) == \E s \in Section : log[<<u, s>>].there

(* What a transaction adds to the statistics. *)
LessonGain(t) ==
    LET n     == Cardinality(Section)
        after == t.before + (IF t.done /\ ~ t.old.done THEN 1 ELSE 0)
    IN IF t.kind = "save" /\ after = n /\ t.before < n THEN 1 ELSE 0
CourseGain(t) == IF t.kind = "lesson" THEN 1 ELSE 0
Lessons(t) == stats[t.user].lessons + LessonGain(t)
Courses(t) == stats[t.user].courses + CourseGain(t)

(* A save that is not the user's first knows that there is an earlier one;
   the badges a transaction creates are those its statistics call for. *)
Earned(t) ==
    /\ t.kind = "save" /\ t.pc \in Started /\ ~ t.first => Begun(t.user)
    /\ t.kind = "save" /\ t.pc \in Past /\ t.first /\ ~ t.broken => "first_start" \in t.new
    /\ "first_start" \in t.new => t.kind = "save"
    /\ "first_start" \notin t.due
    /\ t.pc = "commit" => t.due = {}
    /\ "lesson_first" \in t.new \cup t.due => t.pc \in Read /\ Lessons(t) >= 1
    /\ "course_1" \in t.new \cup t.due => t.pc \in Read /\ Courses(t) >= 1
    /\ t.pc \in Read /\ ~ t.broken /\ Lessons(t) >= 1 =>
         "lesson_first" \in badge[t.user] \cup t.new \cup t.due
    /\ t.pc \in Read /\ ~ t.broken /\ Courses(t) >= 1 =>
         "course_1" \in badge[t.user] \cup t.new \cup t.due

Awards == BadgesCurrent /\ \A r \in Slot : Earned(tx[r])

LEMMA IdleEarned == Earned(Idle)
  BY DEF Earned, Idle, Started, Past, Read

LEMMA MoveAwards ==
  ASSUME Transactions, Awards, NEW r \in Slot, NEW t, Become(r, t), Earned(t),
         UNCHANGED <<log, stats, badge>>
  PROVE  Awards'
  <1>1. tx' = [q \in Slot |-> IF q = r THEN t ELSE tx[q]]
    BY DEF Become, Transactions
  <1>2. BadgesCurrent'
    BY DEF Awards, BadgesCurrent
  <1>3. ASSUME NEW q \in Slot PROVE Earned(tx[q])'
    <2>1. PICK u : tx'[q] = u /\ Earned(u)
      BY <1>1 DEF Awards
    <2>2. Begun(tx[q].user)' = Begun(u.user)
      BY <2>1 DEF Begun
    <2>3. Lessons(tx[q])' = Lessons(u) /\ Courses(tx[q])' = Courses(u)
      BY <2>1 DEF Lessons, Courses, LessonGain, CourseGain
    <2>4. badge'[tx'[q].user] = badge[u.user]
      BY <2>1
    <2> QED BY <2>1, <2>2, <2>3, <2>4 DEF Earned
  <1> QED BY <1>2, <1>3 DEF Awards

LEMMA RollbackAwards ==
  ASSUME Transactions, Awards, NEW r \in Slot, Rollback(r), UNCHANGED <<log, stats, badge>>
  PROVE  Awards'
  BY IdleEarned, MoveAwards DEF Rollback

(* Before the badges, nothing is claimed but that a save is not the first. *)
LEMMA EarlyEarned ==
  ASSUME NEW s, NEW t, Earned(s), s.pc \notin Read, t.pc \notin Past,
         t.pc \in Started => s.pc \in Started,
         t.kind = s.kind, t.user = s.user, t.first = s.first, t.new = s.new, t.due = s.due
  PROVE  Earned(t)
  BY DEF Earned, Past, Read

LEMMA GotoFields ==
  ASSUME NEW t \in Tx, NEW c
  PROVE  LET n == [t EXCEPT !.pc = c] IN
         /\ n.pc = c /\ n.kind = t.kind /\ n.user = t.user /\ n.first = t.first
         /\ n.new = t.new /\ n.due = t.due /\ n.broken = t.broken
         /\ n.before = t.before /\ n.done = t.done /\ n.old = t.old
  BY DEF Tx

LEMMA LockFields ==
  ASSUME NEW t \in Tx, NEW c, NEW lock
  PROVE  LET n == [t EXCEPT !.pc = c, !.locks = @ \cup {lock}] IN
         /\ n.pc = c /\ n.kind = t.kind /\ n.user = t.user /\ n.first = t.first
         /\ n.new = t.new /\ n.due = t.due /\ n.broken = t.broken
         /\ n.before = t.before /\ n.done = t.done /\ n.old = t.old
  BY DEF Tx

LEMMA EarlyAwards ==
  ASSUME Transactions, Awards, NEW r \in Slot, NEW c, NEW lock,
         Goto(r, c) \/ Lock(r, lock, c), UNCHANGED <<log, stats, badge>>,
         tx[r].pc \notin Read, c \notin Past, c \in Started => tx[r].pc \in Started
  PROVE  Awards'
  <1> DEFINE t == [tx[r] EXCEPT !.pc = c]
             u == [tx[r] EXCEPT !.pc = c, !.locks = @ \cup {lock}]
  <1>1. tx[r] \in Tx /\ Earned(tx[r])
    BY DEF Transactions, Awards
  <1>2. Earned(t)
    <2>1. /\ t.pc = c /\ t.kind = tx[r].kind /\ t.user = tx[r].user /\ t.first = tx[r].first
          /\ t.new = tx[r].new /\ t.due = tx[r].due
      BY <1>1, GotoFields
    <2> HIDE DEF t
    <2> QED BY <1>1, <2>1, EarlyEarned
  <1>3. Earned(u)
    <2>1. /\ u.pc = c /\ u.kind = tx[r].kind /\ u.user = tx[r].user /\ u.first = tx[r].first
          /\ u.new = tx[r].new /\ u.due = tx[r].due
      BY <1>1, LockFields
    <2> HIDE DEF u
    <2> QED BY <1>1, <2>1, EarlyEarned
  <1>4. Become(r, t) \/ Become(r, u)
    BY DEF Goto, Lock
  <1> HIDE DEF t, u
  <1> QED BY <1>2, <1>3, <1>4, MoveAwards

LEMMA CountBeforeAwards ==
  ASSUME Transactions, Awards, NEW r \in Slot, CountBefore(r) PROVE Awards'
  <1> DEFINE n == Cardinality(Completed(tx[r].user))
             c == IF tx[r].rate = NoLevel THEN "readLog" ELSE "lockSection"
             t == [tx[r] EXCEPT !.before = n, !.pc = c]
  <1>1. tx[r] \in Tx /\ Earned(tx[r]) /\ tx[r].pc = "countBefore"
    BY DEF Transactions, Awards, CountBefore, At
  <1>2. c \notin Started /\ c \notin Past
    BY DEF Started, Past
  <1>3. Become(r, t)
    BY DEF CountBefore
  <1> HIDE DEF n, c
  <1>4. /\ t.pc = c /\ t.kind = tx[r].kind /\ t.user = tx[r].user /\ t.first = tx[r].first
        /\ t.new = tx[r].new /\ t.due = tx[r].due
    BY <1>1 DEF Tx
  <1> HIDE DEF t
  <1>5. Earned(t)
    BY <1>1, <1>2, <1>4, EarlyEarned DEF Read
  <1>6. UNCHANGED <<log, stats, badge>>
    BY DEF CountBefore, rows
  <1> QED BY <1>3, <1>5, <1>6, MoveAwards

(* A save that found a row, its own or another, is not the first. *)
LEMMA AfterReadAwards ==
  ASSUME Transactions, Awards, NEW r \in Slot, NEW old, NEW first \in BOOLEAN,
         AfterRead(r, old, first), UNCHANGED <<log, stats, badge>>,
         tx[r].pc \in {"readLog", "countLogs"}, first \/ Begun(tx[r].user)
  PROVE  Awards'
  <1> DEFINE t == [tx[r] EXCEPT !.pc = "upsert", !.old = old, !.first = first]
  <1>1. tx[r] \in Tx /\ Earned(tx[r])
    BY DEF Transactions, Awards
  <1>2. Rollback(r) \/ Become(r, t)
    BY DEF AfterRead
  <1>3. /\ t.pc = "upsert" /\ t.kind = tx[r].kind /\ t.user = tx[r].user /\ t.first = first
        /\ t.new = tx[r].new /\ t.due = tx[r].due
    BY <1>1 DEF Tx
  <1> HIDE DEF t
  <1>4. Earned(t)
    BY <1>1, <1>3 DEF Earned, Past, Read
  <1> QED BY <1>2, <1>4, MoveAwards, RollbackAwards

LEMMA SaveAwards ==
  ASSUME Inv, Awards, NEW r \in Slot,
         \/ LockSection(r) \/ ReadLog(r) \/ CountLogs(r) \/ Upsert(r)
         \/ Share(r) \/ Activity(r) \/ Lesson(r)
  PROVE  Awards'
  <1>1. Transactions /\ tx[r] \in Tx /\ Fits(tx[r]) /\ Earned(tx[r])
    BY DEF Inv, Transactions, Awards
  <1>2. tx[r].kind = "save"
    BY <1>1 DEF LockSection, ReadLog, CountLogs, Upsert, Share, Activity, Lesson, Free, At,
                Fits, PcOf, WorkerPc, BadgePc
  <1>3. UNCHANGED <<log, stats, badge>>
    BY DEF LockSection, ReadLog, CountLogs, Upsert, Share, Activity, Lesson, rows
  <1>4. CASE LockSection(r)
    BY <1>1, <1>3, <1>4, EarlyAwards DEF LockSection, Free, At, Started, Past, Read
  <1>5. CASE ReadLog(r)
    <2>1. tx[r].pc = "readLog"
      BY <1>5 DEF ReadLog, At
    <2>2. CASE TheLog(r).there /\ AfterRead(r, TheLog(r), FALSE)
      <3>1. Begun(tx[r].user)
        BY <1>1, <1>2, <2>2 DEF Begun, TheLog, Fits
      <3> QED BY <1>1, <1>3, <2>1, <2>2, <3>1, AfterReadAwards
    <2>3. CASE Goto(r, "countLogs")
      BY <1>1, <1>3, <2>1, <2>3, EarlyAwards DEF Started, Past, Read
    <2> QED BY <1>5, <2>2, <2>3 DEF ReadLog
  <1>6. CASE CountLogs(r)
    <2> DEFINE first == \A s \in Section : ~ log[<<tx[r].user, s>>].there
    <2>1. AfterRead(r, NoRow, first) /\ tx[r].pc = "countLogs"
      BY <1>6 DEF CountLogs, At
    <2>2. first \/ Begun(tx[r].user)
      BY DEF Begun
    <2>3. first \in BOOLEAN
      OBVIOUS
    <2> HIDE DEF first
    <2> QED BY <1>1, <1>3, <2>1, <2>2, <2>3, AfterReadAwards
  <1>7. CASE Upsert(r)
    BY <1>1, <1>3, <1>7, EarlyAwards DEF Upsert, Free, At, Started, Past, Read
  <1>8. CASE Share(r)
    BY <1>1, <1>3, <1>8, EarlyAwards DEF Share, Free, At, Started, Past, Read
  <1>9. CASE Activity(r)
    BY <1>1, <1>3, <1>9, EarlyAwards DEF Activity, Free, At, Started, Past, Read
  <1>10. CASE Lesson(r)
    <2> DEFINE next == IF tx[r].first THEN "awardFirst" ELSE "readStats"
               t == [tx[r] EXCEPT !.pc = next]
               u == [tx[r] EXCEPT !.pc = next, !.locks = @ \cup {"stats"}]
    <2>1. tx[r].pc = "lesson"
      BY <1>10 DEF Lesson, At
    <2>2. Become(r, t) \/ Become(r, u)
      BY <1>10 DEF Lesson, Lock, Goto
    <2>3. next = "awardFirst" \/ (next = "readStats" /\ ~ tx[r].first)
      OBVIOUS
    <2> HIDE DEF next
    <2>4. Earned(t)
      <3>1. /\ t.pc = next /\ t.kind = tx[r].kind /\ t.user = tx[r].user
            /\ t.first = tx[r].first /\ t.new = tx[r].new /\ t.due = tx[r].due
        BY <1>1, GotoFields
      <3> HIDE DEF t
      <3> QED BY <1>1, <2>1, <2>3, <3>1 DEF Earned, Started, Past, Read
    <2>5. Earned(u)
      <3>1. /\ u.pc = next /\ u.kind = tx[r].kind /\ u.user = tx[r].user
            /\ u.first = tx[r].first /\ u.new = tx[r].new /\ u.due = tx[r].due
        BY <1>1, LockFields
      <3> HIDE DEF u
      <3> QED BY <1>1, <2>1, <2>3, <3>1 DEF Earned, Started, Past, Read
    <2> HIDE DEF t, u
    <2> QED BY <1>1, <1>3, <2>2, <2>4, <2>5, MoveAwards
  <1> QED BY <1>4, <1>5, <1>6, <1>7, <1>8, <1>9, <1>10

(* The create of a badge that is due at c. *)
LEMMA CreateAwards ==
  ASSUME Inv, Awards, NEW r \in Slot, NEW b \in Badge, NEW c, Create(r, b, c),
         UNCHANGED <<log, stats, badge>>,
         \/ b = "first_start" /\ tx[r].pc = "awardFirst" /\ c = "readStats" /\ tx[r].kind = "save"
         \/ b \in tx[r].due /\ tx[r].pc = "award" /\ c = "award"
  PROVE  Awards'
  <1> DEFINE t == [tx[r] EXCEPT !.pc = c, !.due = @ \ {b}, !.broken = TRUE]
             u == [tx[r] EXCEPT !.pc = c, !.due = @ \ {b}, !.new = @ \cup {b}]
  <1>1. Transactions /\ tx[r] \in Tx /\ Earned(tx[r])
    BY DEF Inv, Transactions, Awards
  <1>2. Become(r, t) \/ Become(r, u)
    BY DEF Create
  <1>3. /\ t.pc = c /\ t.kind = tx[r].kind /\ t.user = tx[r].user /\ t.first = tx[r].first
        /\ t.new = tx[r].new /\ t.due = tx[r].due \ {b} /\ t.broken = TRUE
        /\ t.before = tx[r].before /\ t.done = tx[r].done /\ t.old = tx[r].old
    BY <1>1 DEF Tx
  <1>4. /\ u.pc = c /\ u.kind = tx[r].kind /\ u.user = tx[r].user /\ u.first = tx[r].first
        /\ u.new = tx[r].new \cup {b} /\ u.due = tx[r].due \ {b} /\ u.broken = tx[r].broken
        /\ u.before = tx[r].before /\ u.done = tx[r].done /\ u.old = tx[r].old
    BY <1>1 DEF Tx
  <1> HIDE DEF t, u
  <1>5. Lessons(t) = Lessons(tx[r]) /\ Courses(t) = Courses(tx[r])
    BY <1>3 DEF Lessons, Courses, LessonGain, CourseGain
  <1>6. Lessons(u) = Lessons(tx[r]) /\ Courses(u) = Courses(tx[r])
    BY <1>4 DEF Lessons, Courses, LessonGain, CourseGain
  <1>7. Earned(t)
    BY <1>1, <1>3, <1>5 DEF Earned, Started, Past, Read
  <1>8. Earned(u)
    <2>1. CASE b = "first_start"
      BY <1>1, <1>4, <1>6, <2>1 DEF Earned, Started, Past, Read
    <2>2. CASE b \in tx[r].due /\ tx[r].pc = "award" /\ c = "award"
      BY <1>1, <1>4, <1>6, <2>2 DEF Earned, Started, Past, Read
    <2> QED BY <2>1, <2>2
  <1> QED BY <1>1, <1>2, <1>7, <1>8, MoveAwards

(* awardByKey and checkStatBadges. *)
LEMMA BadgeAwards ==
  ASSUME Inv, Awards, NEW r \in Slot, AwardFirst(r) \/ ReadStats(r) \/ ReadEarned(r) \/ Award(r)
  PROVE  Awards'
  <1>1. Transactions /\ tx[r] \in Tx /\ Fits(tx[r]) /\ Earned(tx[r])
    BY DEF Inv, Transactions, Awards
  <1>2. UNCHANGED <<log, stats, badge>>
    BY DEF AwardFirst, ReadStats, ReadEarned, Award, rows
  <1>3. CASE AwardFirst(r)
    <2>1. tx[r].pc = "awardFirst" /\ Create(r, "first_start", "readStats")
      BY <1>3 DEF AwardFirst, Free, At
    <2>2. tx[r].kind = "save"
      BY <1>1, <2>1 DEF Fits, PcOf, WorkerPc, BadgePc
    <2> QED BY <1>2, <2>1, <2>2, CreateAwards DEF Badge
  <1>4. CASE ReadStats(r)
    <2> DEFINE d == {b \in Badge : \/ b = "lesson_first" /\ OwnLessons(r) >= 1
                                   \/ b = "course_1" /\ OwnCourses(r) >= 1}
               t == [tx[r] EXCEPT !.pc = "readEarned", !.due = d]
    <2>1. tx[r].pc = "readStats" /\ (Rollback(r) \/ (~ tx[r].broken /\ Become(r, t)))
      BY <1>4 DEF ReadStats, At
    <2>2. OwnLessons(r) = Lessons(tx[r]) /\ OwnCourses(r) = Courses(tx[r])
      BY DEF OwnLessons, OwnCourses, Lessons, Courses, LessonGain, CourseGain,
             LessonCompleted, FirstCompletion
    <2>3. /\ "first_start" \notin d
          /\ "lesson_first" \in d <=> Lessons(tx[r]) >= 1
          /\ "course_1" \in d <=> Courses(tx[r]) >= 1
      BY <2>2 DEF Badge
    <2> HIDE DEF d
    <2>4. /\ t.pc = "readEarned" /\ t.kind = tx[r].kind /\ t.user = tx[r].user
          /\ t.first = tx[r].first /\ t.new = tx[r].new /\ t.due = d /\ t.broken = tx[r].broken
          /\ t.before = tx[r].before /\ t.done = tx[r].done /\ t.old = tx[r].old
      BY <1>1 DEF Tx
    <2> HIDE DEF t
    <2>5. Lessons(t) = Lessons(tx[r]) /\ Courses(t) = Courses(tx[r])
      BY <2>4 DEF Lessons, Courses, LessonGain, CourseGain
    <2>6. Earned(t)
      BY <1>1, <2>1, <2>3, <2>4, <2>5 DEF Earned, Started, Past, Read
    <2> QED BY <1>1, <1>2, <2>1, <2>6, MoveAwards, RollbackAwards
  <1>5. CASE ReadEarned(r)
    <2> DEFINE t == [tx[r] EXCEPT !.pc = "award",
                                  !.due = @ \ (badge[tx[r].user] \cup tx[r].new)]
    <2>1. tx[r].pc = "readEarned" /\ Become(r, t)
      BY <1>5 DEF ReadEarned, At
    <2>2. /\ t.pc = "award" /\ t.kind = tx[r].kind /\ t.user = tx[r].user
          /\ t.first = tx[r].first /\ t.new = tx[r].new /\ t.broken = tx[r].broken
          /\ t.due = tx[r].due \ (badge[tx[r].user] \cup tx[r].new)
          /\ t.before = tx[r].before /\ t.done = tx[r].done /\ t.old = tx[r].old
      BY <1>1 DEF Tx
    <2> HIDE DEF t
    <2>3. Lessons(t) = Lessons(tx[r]) /\ Courses(t) = Courses(tx[r])
      BY <2>2 DEF Lessons, Courses, LessonGain, CourseGain
    <2>4. Earned(t)
      BY <1>1, <2>1, <2>2, <2>3 DEF Earned, Started, Past, Read
    <2> QED BY <1>1, <1>2, <2>1, <2>4, MoveAwards
  <1>6. CASE Award(r)
    <2>1. tx[r].pc = "award"
      BY <1>6 DEF Award, Free, At
    <2>2. CASE tx[r].due = {} /\ Goto(r, "commit")
      <3> DEFINE t == [tx[r] EXCEPT !.pc = "commit"]
      <3>1. Become(r, t)
        BY <2>2 DEF Goto
      <3>2. /\ t.pc = "commit" /\ t.kind = tx[r].kind /\ t.user = tx[r].user
            /\ t.first = tx[r].first /\ t.new = tx[r].new /\ t.broken = tx[r].broken
            /\ t.due = tx[r].due
            /\ t.before = tx[r].before /\ t.done = tx[r].done /\ t.old = tx[r].old
        BY <1>1, GotoFields
      <3> HIDE DEF t
      <3>3. Lessons(t) = Lessons(tx[r]) /\ Courses(t) = Courses(tx[r])
        BY <3>2 DEF Lessons, Courses, LessonGain, CourseGain
      <3>4. Earned(t)
        BY <1>1, <2>1, <2>2, <3>2, <3>3 DEF Earned, Started, Past, Read
      <3> QED BY <1>1, <1>2, <3>1, <3>4, MoveAwards
    <2>3. CASE tx[r].due # {} /\ Create(r, NextDue(r), "award")
      <3>1. tx[r].due \subseteq {"lesson_first", "course_1"}
        BY <1>1 DEF Earned, Tx, Badge
      <3>2. NextDue(r) \in tx[r].due
        BY <2>3, <3>1 DEF NextDue
      <3> QED BY <1>2, <2>1, <2>3, <3>2, NextDueType, CreateAwards
    <2> QED BY <1>6, <2>2, <2>3 DEF Award
  <1> QED BY <1>3, <1>4, <1>5, <1>6

(* The commit makes the badges visible with what they stand for.  Those of
   another transaction of the user stay earned: the statistics only grow, and
   a badge they call for by now is there. *)
LEMMA CommitAwards == ASSUME Inv, Awards, NEW r \in Slot, Commit(r) PROVE Awards'
  <1>1. Transactions /\ tx[r] \in Tx /\ Fits(tx[r]) /\ Earned(tx[r]) /\ tx[r].pc = "commit"
    BY DEF Inv, Transactions, Awards, Commit, At
  <1>2. CASE tx[r].broken
    BY <1>1, <1>2, RollbackAwards DEF Commit, rows
  <1>3. CASE ~ tx[r].broken
    <2> DEFINE c == IF tx[r].kind = "save" THEN "queueSection" ELSE "ack"
               t == [tx[r] EXCEPT !.pc = c, !.locks = {}, !.new = {}]
    <2>1. tx' = [q \in Slot |-> IF q = r THEN t ELSE tx[q]]
      BY <1>1, <1>3 DEF Commit, Become, Transactions
    <2>2. c \in {"queueSection", "ack"}
      OBVIOUS
    <2> HIDE DEF c
    <2>3. /\ t.pc = c /\ t.new = {} /\ t.due = tx[r].due
      BY <1>1 DEF Tx
    <2> HIDE DEF t
    <2>4. PICK me \in User : me = tx[r].user /\ (tx[r].kind = "save" => tx[r].sec \in Section)
      BY <1>1 DEF Fits, PcOf
    <2>5. Lessons(tx[r]) = OwnLessons(r) /\ Courses(tx[r]) = OwnCourses(r)
      BY DEF OwnLessons, OwnCourses, Lessons, Courses, LessonGain, CourseGain,
             LessonCompleted, FirstCompletion
    <2>6. /\ stats'[me].lessons = Lessons(tx[r]) /\ stats'[me].courses = Courses(tx[r])
          /\ badge'[me] = badge[me] \cup tx[r].new
          /\ \A u \in User : u # me => stats'[u] = stats[u] /\ badge'[u] = badge[u]
      BY <1>3, <2>4, <2>5 DEF Commit, Inv, Stored
    <2>7. /\ stats[me].lessons \in Nat /\ stats[me].courses \in Nat
          /\ Lessons(tx[r]) \in Nat /\ Lessons(tx[r]) >= stats[me].lessons
          /\ Courses(tx[r]) \in Nat /\ Courses(tx[r]) >= stats[me].courses
      <3>1. stats[me].lessons \in Nat /\ stats[me].courses \in Nat
        BY <2>4 DEF Inv, Stored
      <3>2. LessonGain(tx[r]) \in {0, 1} /\ CourseGain(tx[r]) \in {0, 1}
        BY DEF LessonGain, CourseGain
      <3> QED BY <2>4, <3>1, <3>2 DEF Lessons, Courses
    <2>8. \A u \in User : (Begun(u) => Begun(u)') /\ (u # me => (Begun(u)' => Begun(u)))
      <3>1. CASE tx[r].kind = "save"
        <4>1. log' = [log EXCEPT ![<<me, tx[r].sec>>] = Saved(r)]
          BY <1>3, <2>4, <3>1 DEF Commit
        <4>2. Saved(r).there
          BY DEF Saved
        <4>3. \A u \in User, s \in Section :
                log'[<<u, s>>] = IF u = me /\ s = tx[r].sec THEN Saved(r) ELSE log[<<u, s>>]
          BY <2>4, <4>1 DEF Inv, Stored
        <4> QED BY <4>2, <4>3 DEF Begun
      <3>2. CASE tx[r].kind # "save"
        BY <1>3, <3>2 DEF Commit, Begun
      <3> QED BY <3>1, <3>2
    <2>9. tx[r].kind = "save" => Begun(me)'
      <3>1. SUFFICES ASSUME tx[r].kind = "save" PROVE Begun(me)'
        OBVIOUS
      <3>2. log' = [log EXCEPT ![<<me, tx[r].sec>>] = Saved(r)]
        BY <1>3, <2>4, <3>1 DEF Commit
      <3>3. log'[<<me, tx[r].sec>>].there
        BY <2>4, <3>1, <3>2 DEF Inv, Stored, Saved
      <3> QED BY <2>4, <3>1, <3>3 DEF Begun
    <2>10. tx[r].kind # "save" => (Begun(me)' <=> Begun(me))
      BY <1>3 DEF Commit, Begun
    <2>11. ASSUME NEW u \in User
           PROVE  /\ "first_start" \in badge[u] <=> Begun(u)
                  /\ "lesson_first" \in badge[u] <=> stats[u].lessons >= 1
                  /\ "course_1" \in badge[u] <=> stats[u].courses >= 1
      BY DEF Awards, BadgesCurrent, Begun
    <2>12. ASSUME NEW u \in User
           PROVE  /\ "first_start" \in badge'[u] <=> Begun(u)'
                  /\ "lesson_first" \in badge'[u] <=> stats'[u].lessons >= 1
                  /\ "course_1" \in badge'[u] <=> stats'[u].courses >= 1
      <3>1. CASE u # me
        BY <2>6, <2>8, <2>11, <3>1
      <3>2. CASE u = me
        <4>1. "first_start" \in badge'[me] <=> Begun(me)'
          <5>1. tx[r].kind = "save" => "first_start" \in badge[me] \cup tx[r].new
            BY <1>1, <1>3, <2>4, <2>11 DEF Earned, Started, Past
          <5>2. tx[r].kind # "save" => "first_start" \notin tx[r].new
            BY <1>1 DEF Earned
          <5> QED BY <2>4, <2>6, <2>9, <2>10, <2>11, <5>1, <5>2
        <4>2. "lesson_first" \in badge'[me] <=> stats'[me].lessons >= 1
          <5>1. "lesson_first" \in badge[me] \cup tx[r].new <=> Lessons(tx[r]) >= 1
            BY <1>1, <1>3, <2>4, <2>7, <2>11 DEF Earned, Read
          <5> QED BY <2>6, <5>1
        <4>3. "course_1" \in badge'[me] <=> stats'[me].courses >= 1
          <5>1. "course_1" \in badge[me] \cup tx[r].new <=> Courses(tx[r]) >= 1
            BY <1>1, <1>3, <2>4, <2>7, <2>11 DEF Earned, Read
          <5> QED BY <2>6, <5>1
        <4> QED BY <3>2, <4>1, <4>2, <4>3
      <3> QED BY <3>1, <3>2
    <2>13. BadgesCurrent'
      BY <2>12 DEF BadgesCurrent, Begun
    <2>14. ASSUME NEW q \in Slot PROVE Earned(tx[q])'
      <3>1. CASE q = r
        <4>1. tx'[q] = t
          BY <2>1, <3>1
        <4> QED BY <1>1, <2>2, <2>3, <4>1 DEF Earned, Started, Past, Read
      <3>2. CASE q # r
        <4>1. tx'[q] = tx[q] /\ Earned(tx[q]) /\ Fits(tx[q])
          BY <1>1, <2>1, <3>2 DEF Awards, Transactions
        <4>2. CASE tx[q].kind = "none"
          <5>1. tx[q].pc = "idle"
            BY <4>1, <4>2 DEF Fits, PcOf
          <5> QED BY <4>1, <5>1 DEF Earned, Started, Past, Read
        <4>3. CASE tx[q].kind # "none"
          <5>1. PICK v \in User : v = tx[q].user
            BY <4>1, <4>3 DEF Fits
          <5>2. PICK i \in {0, 1}, j \in {0, 1} : i = LessonGain(tx[q]) /\ j = CourseGain(tx[q])
            BY DEF LessonGain, CourseGain
          <5>3. /\ Lessons(tx[q]) = stats[v].lessons + i
                /\ Courses(tx[q]) = stats[v].courses + j
            BY <5>1, <5>2 DEF Lessons, Courses
          <5>4. /\ Lessons(tx[q])' = stats'[v].lessons + i
                /\ Courses(tx[q])' = stats'[v].courses + j
            BY <4>1, <5>1, <5>2 DEF Lessons, Courses, LessonGain, CourseGain
          <5>5. /\ stats[v].lessons \in Nat /\ stats[v].courses \in Nat
                /\ stats'[v].lessons \in Nat /\ stats'[v].lessons >= stats[v].lessons
                /\ stats'[v].courses \in Nat /\ stats'[v].courses >= stats[v].courses
            <6>1. stats[v].lessons \in Nat /\ stats[v].courses \in Nat
              BY DEF Inv, Stored
            <6> QED BY <2>6, <2>7, <6>1
          <5>6. Begun(v) => Begun(v)'
            BY <2>8
          <5>7. /\ "lesson_first" \in tx[q].new \cup tx[q].due => Lessons(tx[q])' >= 1
                /\ "course_1" \in tx[q].new \cup tx[q].due => Courses(tx[q])' >= 1
            BY <4>1, <5>3, <5>4, <5>5 DEF Earned
          <5>8. /\ Lessons(tx[q])' >= 1 => Lessons(tx[q]) >= 1 \/ "lesson_first" \in badge'[v]
                /\ Courses(tx[q])' >= 1 => Courses(tx[q]) >= 1 \/ "course_1" \in badge'[v]
            BY <2>12, <5>3, <5>4, <5>5
          <5>9. badge[v] \subseteq badge'[v]
            BY <2>6
          <5> QED BY <4>1, <5>1, <5>6, <5>7, <5>8, <5>9 DEF Earned
        <4> QED BY <4>2, <4>3
      <3> QED BY <3>1, <3>2
    <2> QED BY <2>13, <2>14 DEF Awards
  <1> QED BY <1>2, <1>3

(* The jobs a save queues, and the worker's steps. *)
LEMMA WorkerAwards ==
  ASSUME Inv, Awards, NEW r \in Slot,
         \/ QueueSection(r) \/ QueueLesson(r) \/ Ack(r)
         \/ CountSections(r) \/ Existing(r) \/ Complete(r) \/ CountCourse(r)
  PROVE  Awards'
  <1>1. Transactions /\ tx[r] \in Tx /\ Fits(tx[r]) /\ Earned(tx[r])
    BY DEF Inv, Transactions, Awards
  <1>2. UNCHANGED <<log, stats, badge>>
    BY DEF QueueSection, QueueLesson, Ack, CountSections, Existing, Complete, CountCourse, rows
  <1>3. CASE Rollback(r)
    BY <1>1, <1>2, <1>3, RollbackAwards
  <1>4. CASE QueueSection(r)
    BY <1>1, <1>2, <1>4, EarlyAwards DEF QueueSection, At, Started, Past, Read
  <1>5. CASE CountSections(r) /\ Goto(r, "existing")
    BY <1>1, <1>2, <1>5, EarlyAwards DEF CountSections, At, Started, Past, Read
  <1>6. CASE Existing(r) /\ Goto(r, "complete")
    BY <1>1, <1>2, <1>6, EarlyAwards DEF Existing, At, Started, Past, Read
  <1>7. CASE Complete(r) /\ Lock(r, "course", "countCourse")
    BY <1>1, <1>2, <1>7, EarlyAwards DEF Complete, Free, At, Started, Past, Read
  <1>8. CASE CountCourse(r)
    <2> DEFINE t == [tx[r] EXCEPT !.pc = "readStats", !.locks = @ \cup {"stats"}]
    <2>1. tx[r].pc = "countCourse" /\ Become(r, t)
      BY <1>8 DEF CountCourse, Free, At, Lock
    <2>2. tx[r].kind = "lesson"
      BY <1>1, <2>1 DEF Fits, PcOf, SavePc, BadgePc
    <2>3. /\ t.pc = "readStats" /\ t.kind = tx[r].kind /\ t.user = tx[r].user
          /\ t.new = tx[r].new /\ t.due = tx[r].due
      BY <1>1, LockFields
    <2> HIDE DEF t
    <2>4. Earned(t)
      BY <1>1, <2>1, <2>2, <2>3 DEF Earned, Started, Past, Read
    <2> QED BY <1>1, <1>2, <2>1, <2>4, MoveAwards
  <1> QED BY <1>3, <1>4, <1>5, <1>6, <1>7, <1>8
          DEF QueueLesson, Ack, CountSections, Existing, Complete

(* Requests and jobs begin with no badge to claim. *)
LEMMA BeginAwards ==
  ASSUME Inv, Awards, NEW r \in Slot, NEW u \in User, NEW kind \in {"section", "lesson"},
         \/ \E s \in Section, done \in BOOLEAN, rate \in Level \cup {NoLevel} :
              StartSave(r, u, s, done, rate)
         \/ TakeJob(r, u, kind)
  PROVE  Awards'
  <1>1. PICK t : /\ Become(r, t) /\ t.new = {} /\ t.due = {}
                 /\ \/ t.pc = "countBefore"
                    \/ t.kind # "save" /\ t.pc \in {"readStats", "countSections"}
    <2>1. Idle \in Tx /\ Idle.new = {} /\ Idle.due = {}
      BY IdleFits DEF Fits, Idle
    <2>2. CASE TakeJob(r, u, kind)
      <3> DEFINE t == [Idle EXCEPT !.kind = kind, !.user = u,
                         !.pc = IF kind = "section" THEN "readStats" ELSE "countSections"]
      <3>1. Become(r, t)
        BY <2>2 DEF TakeJob
      <3>2. t.new = {} /\ t.due = {} /\ t.kind # "save" /\ t.pc \in {"readStats", "countSections"}
        BY <2>1 DEF Tx
      <3> HIDE DEF t
      <3> QED BY <3>1, <3>2
    <2>3. ASSUME NEW s \in Section, NEW done \in BOOLEAN, NEW rate \in Level \cup {NoLevel},
                 StartSave(r, u, s, done, rate)
          PROVE  \E t : Become(r, t) /\ t.new = {} /\ t.due = {} /\ t.pc = "countBefore"
      <3> DEFINE t == [Idle EXCEPT !.pc = "countBefore", !.kind = "save", !.user = u,
                                   !.sec = s, !.done = done, !.rate = rate]
      <3>1. Become(r, t)
        BY <2>3 DEF StartSave
      <3>2. t.new = {} /\ t.due = {} /\ t.pc = "countBefore"
        BY <2>1 DEF Tx
      <3> HIDE DEF t
      <3> QED BY <3>1, <3>2
    <2> QED BY <2>2, <2>3
  <1>2. Earned(t)
    BY <1>1 DEF Earned, Started, Past, Read
  <1>3. UNCHANGED <<log, stats, badge>>
    BY DEF StartSave, TakeJob, rows
  <1> QED BY <1>1, <1>2, <1>3, MoveAwards DEF Inv

LEMMA SameAwards == ASSUME Awards, UNCHANGED <<log, stats, badge, tx>> PROVE Awards'
  <1>1. BadgesCurrent'
    BY DEF Awards, BadgesCurrent
  <1>2. ASSUME NEW r \in Slot PROVE Earned(tx[r])'
    <2>1. Earned(tx[r])
      BY DEF Awards
    <2>2. tx'[r] = tx[r]
      OBVIOUS
    <2>3. Begun(tx[r].user)' = Begun(tx[r].user)
      BY DEF Begun
    <2>4. Lessons(tx[r])' = Lessons(tx[r]) /\ Courses(tx[r])' = Courses(tx[r])
      BY DEF Lessons, Courses, LessonGain, CourseGain
    <2> QED BY <2>1, <2>2, <2>3, <2>4 DEF Earned
  <1> QED BY <1>1, <1>2 DEF Awards

LEMMA InitAwards == Init => Awards
  <1> SUFFICES ASSUME Init PROVE Awards
    OBVIOUS
  <1>1. BadgesCurrent
    <2> SUFFICES ASSUME NEW u \in User
                 PROVE  /\ "first_start" \in badge[u] <=> \E s \in Section : log[<<u, s>>].there
                        /\ "lesson_first" \in badge[u] <=> stats[u].lessons >= 1
                        /\ "course_1" \in badge[u] <=> stats[u].courses >= 1
      BY DEF BadgesCurrent
    <2>1. badge[u] = {} /\ stats[u].lessons = 0 /\ stats[u].courses = 0
      BY DEF Init
    <2>2. \A s \in Section : ~ log[<<u, s>>].there
      BY DEF Init, NoRow
    <2>3. \A b : b \notin badge[u]
      BY <2>1
    <2>4. ~ stats[u].lessons >= 1 /\ ~ stats[u].courses >= 1
      BY <2>1
    <2> QED BY <2>2, <2>3, <2>4
  <1>2. \A r \in Slot : Earned(tx[r])
    BY IdleEarned DEF Init
  <1> QED BY <1>1, <1>2 DEF Awards

LEMMA NextAwards == Inv /\ Awards /\ [Next]_vars => Awards'
  <1> SUFFICES ASSUME Inv, Awards, [Next]_vars PROVE Awards'
    OBVIOUS
  <1>1. CASE UNCHANGED vars \/ Rest
    BY <1>1, SameAwards DEF Rest, vars
  <1>2. ASSUME NEW r \in Slot, Step(r) PROVE Awards'
    BY <1>2, CountBeforeAwards, SaveAwards, BadgeAwards, CommitAwards, WorkerAwards DEF Step, Inv
  <1>3. ASSUME NEW r \in Slot, Redeliver(r) PROVE Awards'
    BY <1>3, SameAwards DEF Redeliver, rows
  <1>4. ASSUME NEW r \in Slot, Abort(r) \/ Victim(r) PROVE Awards'
    BY <1>4, RollbackAwards DEF Abort, Victim, Inv, rows
  <1> QED BY <1>1, <1>2, <1>3, <1>4, BeginAwards DEF Next

(* Whoever has begun, or completed a lesson or a course, has the badge for it
   and nobody else has, however saves, workers, aborts and deadlocks fall. *)
THEOREM BadgesCurrentHolds == Spec => []BadgesCurrent
  <1>1. Awards => BadgesCurrent
    BY DEF Awards
  <1> QED BY <1>1, InitInv, NextInv, InitAwards, NextAwards, PTL DEF Spec
-----------------------------------------------------------------------------
(* Sums over finite sets. *)
LEMMA SmallestNat ==
  ASSUME NEW B, B \subseteq Nat, B # {}
  PROVE  \E n \in B : \A m \in B : n <= m
<1> DEFINE R == {ss \in Nat \X Nat : ss[1] < ss[2]}
<1>1. IsWellFoundedOn(R, Nat)  BY NatLessThanWellFounded DEF OpToRel
<1>2. PICK n \in B : \A m \in B : ~ (<<m, n>> \in R)  BY <1>1, WFMin
<1>3. \A m \in B : ~ (m < n)  BY <1>2
<1> QED  BY <1>3

LEMMA SmallestSubset ==
  ASSUME NEW D, IsFiniteSet(D), NEW B, B \subseteq SUBSET D, B # {}
  PROVE  \E s \in B : \A t \in B : t \subseteq s => t = s
<1>1. IsWellFoundedOn(StrictSubsetOrdering(D), SUBSET D)
  BY FS_StrictSubsetOrderingWellFounded, FS_FiniteSubsetsOfFinite
<1>2. PICK s \in B : \A t \in B : <<t, s>> \notin StrictSubsetOrdering(D)
  BY <1>1, WFMin
<1>3. ASSUME NEW t \in B, t \subseteq s PROVE t = s
  <2>1. <<t, s>> \in (SUBSET D) \X (SUBSET D)  OBVIOUS
  <2> QED  BY <1>2, <1>3, <2>1 DEF StrictSubsetOrdering
<1> QED  BY <1>3

(* h maps every subset of D to the sum of g over it, added up in the order of
   the folds of the community modules. *)
Pick(s) == CHOOSE x \in s : TRUE
Adds(h, g, S) ==
    h = [s \in S |-> IF s = {} THEN 0 ELSE g[Pick(s)] + h[s \ {Pick(s)}]]
IsSum(h, g, D) == Adds(h, g, SUBSET D)

LEMMA PickIn == ASSUME NEW s, s # {} PROVE Pick(s) \in s
BY DEF Pick

LEMMA AddsAt ==
  ASSUME NEW h, NEW g, NEW S, Adds(h, g, S), NEW s \in S
  PROVE  h[s] = IF s = {} THEN 0 ELSE g[Pick(s)] + h[s \ {Pick(s)}]
<1> DEFINE k == [t \in S |-> IF t = {} THEN 0 ELSE g[Pick(t)] + h[t \ {Pick(t)}]]
<1>1. h = k  BY DEF Adds
<1>2. k[s] = IF s = {} THEN 0 ELSE g[Pick(s)] + h[s \ {Pick(s)}]  OBVIOUS
<1> HIDE DEF k
<1> QED  BY <1>1, <1>2

(* There is one for every finite set, built up over the cardinality. *)
LEMMA SumExists ==
  ASSUME NEW D, IsFiniteSet(D), NEW g
  PROVE  \E h : IsSum(h, g, D)
<1> DEFINE L(n) == {s \in SUBSET D : Cardinality(s) <= n}
           Bad  == {n \in Nat : ~ \E h : Adds(h, g, L(n))}
<1>0. \A s \in SUBSET D : IsFiniteSet(s) /\ Cardinality(s) \in Nat
  BY FS_Subset, FS_CardinalityType
<1>1. Bad = {}
  <2> SUFFICES ASSUME Bad # {} PROVE FALSE  OBVIOUS
  <2>1. PICK n \in Bad : \A m \in Bad : n <= m
    <3>1. Bad \subseteq Nat  OBVIOUS
    <3> HIDE DEF Bad
    <3> QED  BY <3>1, SmallestNat
  <2>2. CASE n = 0
    <3>1. \A s \in L(n) : s = {}
      BY <1>0, <2>2, FS_EmptySet
    <3>2. Adds([s \in L(n) |-> 0], g, L(n))  BY <3>1 DEF Adds
    <3> QED  BY <3>2
  <2>3. CASE n # 0
    <3> DEFINE m == n - 1
    <3>1. m \in Nat /\ m < n /\ m + 1 = n  BY <2>3
    <3>2. m \notin Bad
      <4>1. n \in Nat /\ ~ (n <= m)  BY <3>1
      <4> HIDE DEF Bad, m
      <4> QED  BY <2>1, <4>1
    <3>3. PICK h : Adds(h, g, L(m))  BY <3>1, <3>2
    <3> DEFINE k == [s \in L(n) |-> IF s = {} THEN 0 ELSE g[Pick(s)] + h[s \ {Pick(s)}]]
    <3>4. ASSUME NEW s \in L(n), s # {} PROVE s \ {Pick(s)} \in L(m) /\ s \ {Pick(s)} \in L(n)
      <4>1. Pick(s) \in s  BY <3>4, PickIn
      <4>2. s \ {Pick(s)} \in SUBSET D /\ Cardinality(s \ {Pick(s)}) = Cardinality(s) - 1
        BY <1>0, <4>1, FS_RemoveElement
      <4>3. Cardinality(s) \in Nat /\ Cardinality(s) <= n  BY <1>0
      <4>4. Cardinality(s) - 1 <= m /\ Cardinality(s) - 1 <= n  BY <3>1, <4>3
      <4> QED  BY <4>2, <4>4
    <3>5. \A s \in L(m) : s \in L(n)  
      <4>1. ASSUME NEW s \in L(m) PROVE s \in L(n)
        <5>1. Cardinality(s) \in Nat /\ Cardinality(s) <= m  BY <1>0
        <5> QED  BY <3>1, <5>1
      <4> QED  BY <4>1
    <3> HIDE DEF m
    <3>6. \A s \in L(m) : k[s] = h[s]
      <4>1. ASSUME NEW s \in L(m) PROVE k[s] = h[s]
        <5>1. h[s] = IF s = {} THEN 0 ELSE g[Pick(s)] + h[s \ {Pick(s)}]
          BY <3>3, AddsAt
        <5>2. s \in L(n)  BY <3>5
        <5>3. k[s] = IF s = {} THEN 0 ELSE g[Pick(s)] + h[s \ {Pick(s)}]  BY <5>2
        <5> QED  BY <5>1, <5>3
      <4> QED  BY <4>1
    <3>7. \A s \in L(n) : s # {} => k[s \ {Pick(s)}] = h[s \ {Pick(s)}]
      BY <3>4, <3>6
    <3>8. k = [s \in L(n) |-> IF s = {} THEN 0 ELSE g[Pick(s)] + k[s \ {Pick(s)}]]
      BY <3>7
    <3> HIDE DEF k
    <3>9. Adds(k, g, L(n))  BY <3>8 DEF Adds
    <3> QED  BY <3>9
  <2> QED  BY <2>2, <2>3
<1> DEFINE c == Cardinality(D)
<1>2. c \in Nat  BY FS_CardinalityType
<1>3. PICK h : Adds(h, g, L(c))  BY <1>1, <1>2
<1>4. L(c) = SUBSET D
  BY FS_Subset
<1> QED  BY <1>3, <1>4 DEF IsSum


LEMMA SumStep ==
  ASSUME NEW D, NEW h, NEW g, IsSum(h, g, D)
  PROVE  \A s \in SUBSET D : h[s] = IF s = {} THEN 0 ELSE g[Pick(s)] + h[s \ {Pick(s)}]
BY AddsAt DEF IsSum

LEMMA SumAt ==
  ASSUME NEW D, NEW h, NEW g, IsSum(h, g, D), NEW s, s \subseteq D
  PROVE  /\ s = {} => h[s] = 0
         /\ s # {} => h[s] = g[Pick(s)] + h[s \ {Pick(s)}]
BY AddsAt DEF IsSum

LEMMA SumType ==
  ASSUME NEW D, IsFiniteSet(D), NEW h, NEW g, IsSum(h, g, D), \A x \in D : g[x] \in Int
  PROVE  \A s \in SUBSET D : h[s] \in Int
<1> DEFINE Bad == {s \in SUBSET D : h[s] \notin Int}
<1> SUFFICES ASSUME Bad # {} PROVE FALSE  OBVIOUS
<1>1. PICK s \in Bad : \A t \in Bad : t \subseteq s => t = s
  <2>1. Bad \subseteq SUBSET D  OBVIOUS
  <2> HIDE DEF Bad
  <2> QED  BY <2>1, SmallestSubset
<1>2. s # {}
  <2>1. s = {} => h[s] = 0  BY SumAt
  <2> QED  BY <2>1
<1> DEFINE x == Pick(s)
<1>3. x \in s  BY <1>2, PickIn
<1>4. s \ {x} \notin Bad /\ s \ {x} \subseteq D  BY <1>1, <1>3
<1>5. h[s \ {x}] \in Int /\ g[x] \in Int  BY <1>3, <1>4
<1>6. h[s] = g[x] + h[s \ {x}]  BY <1>2, SumAt
<1>7. h[s] \in Int  BY <1>5, <1>6
<1> QED  BY <1>7

(* The order of adding does not matter. *)
LEMMA SumAny ==
  ASSUME NEW D, IsFiniteSet(D), NEW h, NEW g, IsSum(h, g, D), \A x \in D : g[x] \in Int
  PROVE  \A s \in SUBSET D : \A y \in s : h[s] = g[y] + h[s \ {y}]
<1> DEFINE Bad == {s \in SUBSET D : \E y \in s : h[s] # g[y] + h[s \ {y}]}
<1> SUFFICES ASSUME Bad # {} PROVE FALSE  OBVIOUS
<1>1. PICK s \in Bad : \A t \in Bad : t \subseteq s => t = s
  <2>1. Bad \subseteq SUBSET D  OBVIOUS
  <2> HIDE DEF Bad
  <2> QED  BY <2>1, SmallestSubset
<1>2. PICK y \in s : h[s] # g[y] + h[s \ {y}]  OBVIOUS
<1> DEFINE x == Pick(s)
<1>3. x \in s /\ x \in D /\ y \in D  BY PickIn
<1>4. h[s] = g[x] + h[s \ {x}]  BY SumAt
<1> DEFINE t == s \ {x}
           u == s \ {y}
           v == s \ {x, y}
<1>5. x # y  BY <1>2, <1>4
<1>6. h[t] = g[y] + h[v]
  <2>1. t \notin Bad /\ t \in SUBSET D /\ y \in t  BY <1>1, <1>3, <1>5
  <2>2. t \ {y} = v  OBVIOUS
  <2> QED  BY <2>1, <2>2
<1>7. h[u] = g[x] + h[v]
  <2>1. u \notin Bad /\ u \in SUBSET D /\ x \in u  BY <1>1, <1>3, <1>5
  <2>2. u \ {x} = v  OBVIOUS
  <2> QED  BY <2>1, <2>2
<1>8. g[x] \in Int /\ g[y] \in Int /\ h[v] \in Int  BY <1>3, SumType
<1> HIDE DEF t, u, v, x
<1>9. g[x] + (g[y] + h[v]) = g[y] + (g[x] + h[v])  BY <1>8
<1>10. h[s] = g[y] + h[u]  BY <1>4, <1>6, <1>7, <1>9 DEF t
<1> QED  BY <1>2, <1>10 DEF u

LEMMA SumAgree ==
  ASSUME NEW D, IsFiniteSet(D), NEW h, NEW g, IsSum(h, g, D),
         NEW E, NEW k, NEW f, IsSum(k, f, E),
         NEW s, s \subseteq D, s \subseteq E, \A x \in s : f[x] = g[x]
  PROVE  k[s] = h[s]
<1>h. \A t \in SUBSET D :
        h[t] = IF t = {} THEN 0 ELSE g[Pick(t)] + h[t \ {Pick(t)}]
  BY SumStep
<1>k. \A t \in SUBSET E :
        k[t] = IF t = {} THEN 0 ELSE f[Pick(t)] + k[t \ {Pick(t)}]
  BY SumStep
<1> DEFINE Bad == {t \in SUBSET s : k[t] # h[t]}
<1>1. IsFiniteSet(s)  BY FS_Subset
<1> SUFFICES ASSUME Bad # {} PROVE FALSE  OBVIOUS
<1>2. PICK t \in Bad : \A u \in Bad : u \subseteq t => u = t
  <2>1. Bad \subseteq SUBSET s  OBVIOUS
  <2> HIDE DEF Bad
  <2> QED  BY <1>1, <2>1, SmallestSubset
<1>3. t \in SUBSET D /\ t \in SUBSET E /\ k[t] # h[t]  OBVIOUS
<1>4. t # {}
  <2>1. t = {} => h[t] = 0  BY <1>3, <1>h
  <2>2. t = {} => k[t] = 0  BY <1>3, <1>k
  <2> QED  BY <1>3, <2>1, <2>2
<1> DEFINE x == Pick(t)
<1>5. x \in t  BY <1>4, PickIn
<1>6. t \ {x} \notin Bad /\ t \ {x} \in SUBSET s  BY <1>2, <1>5
<1>7. h[t] = g[x] + h[t \ {x}]  BY <1>3, <1>4, <1>h
<1>8. k[t] = f[x] + k[t \ {x}]  BY <1>3, <1>4, <1>k
<1>9. f[x] = g[x] /\ k[t \ {x}] = h[t \ {x}]  BY <1>5, <1>6
<1>10. k[t] = h[t]  BY <1>7, <1>8, <1>9
<1> QED  BY <1>10

(* One value that changes changes the sum by as much. *)
LEMMA SumChange ==
  ASSUME NEW D, IsFiniteSet(D), NEW h, NEW g, IsSum(h, g, D), \A x \in D : g[x] \in Int,
         NEW k, NEW f, IsSum(k, f, D), \A x \in D : f[x] \in Int,
         NEW d \in D, \A x \in D \ {d} : f[x] = g[x]
  PROVE  k[D] = h[D] + f[d] - g[d]
<1> DEFINE s == D \ {d}
<1>1. k[s] = h[s]  BY SumAgree
<1>2. h[D] = g[d] + h[s] /\ k[D] = f[d] + k[s]
  <2>1. \A y \in D : h[D] = g[y] + h[D \ {y}]  BY SumAny
  <2>2. \A y \in D : k[D] = f[y] + k[D \ {y}]  BY SumAny
  <2> QED  BY <2>1, <2>2
<1>3. h[s] \in Int /\ g[d] \in Int /\ f[d] \in Int  BY SumType
<1> HIDE DEF s
<1> QED  BY <1>1, <1>2, <1>3

(* Values that are zero add nothing. *)
LEMMA SumZeros ==
  ASSUME NEW D, IsFiniteSet(D), NEW h, NEW g, IsSum(h, g, D), \A x \in D : g[x] \in Int,
         NEW u, u \subseteq D, \A x \in D \ u : g[x] = 0
  PROVE  h[D] = h[u]
<1> DEFINE Bad == {t \in SUBSET D : u \subseteq t /\ h[t] # h[u]}
<1> SUFFICES ASSUME Bad # {} PROVE FALSE  OBVIOUS
<1>1. PICK t \in Bad : \A v \in Bad : v \subseteq t => v = t
  <2>1. Bad \subseteq SUBSET D  OBVIOUS
  <2> HIDE DEF Bad
  <2> QED  BY <2>1, SmallestSubset
<1>2. PICK x \in t : x \notin u  OBVIOUS
<1>3. h[t] = g[x] + h[t \ {x}]  BY SumAny
<1>4. t \ {x} \notin Bad /\ t \ {x} \in SUBSET D /\ u \subseteq t \ {x}  BY <1>1, <1>2
<1>5. h[t \ {x}] = h[u] /\ g[x] = 0  BY <1>2, <1>4
<1>6. h[u] \in Int  BY SumType
<1>7. h[t] = h[u]  BY <1>3, <1>5, <1>6
<1> QED  BY <1>7

-----------------------------------------------------------------------------
(* Raters.  A save that rates holds the section from before it reads its log
   to its commit, so its beforeLog is rated if and only if the row it updates
   is; a save that does not rate never takes a rating away. *)
Unlocked == {"countBefore", "lockSection", "queueSection", "queueLesson"}
Unread   == {"countBefore", "lockSection", "readLog", "countLogs"}

RateOK(t) == t.kind = "save" =>
    /\ t.old.rate # NoLevel => log[<<t.user, t.sec>>].rate # NoLevel
    /\ t.pc \in Unread => t.old.rate = NoLevel
    /\ t.rate # NoLevel /\ t.pc \notin Unlocked => "section" \in t.locks
    /\ t.rate # NoLevel /\ t.pc \notin Unlocked \cup {"readLog"} /\ t.old.rate = NoLevel
         => log[<<t.user, t.sec>>].rate = NoLevel

SectionExclusive ==
    \A q, r \in Slot : "section" \in tx[q].locks /\ "section" \in tx[r].locks
                        /\ tx[q].sec = tx[r].sec => q = r

Rates ==
    /\ RatersCounted
    /\ SectionExclusive
    /\ \A x \in User \X Section : ~ log[x].there => log[x].rate = NoLevel
    /\ \A r \in Slot : RateOK(tx[r])

Tallied(f) == FoldFunction(+, 0, f)
Raters(rows_, s) == {u \in User : rows_[<<u, s>>].rate # NoLevel}

LEMMA TalliedIsSum ==
  ASSUME NEW f \in [Level -> Int]
  PROVE  \E h : IsSum(h, f, Level) /\ Tallied(f) = h[Level]
  <1> DEFINE h == CHOOSE k : k = [s \in SUBSET Level |-> IF s = {} THEN 0
                                    ELSE f[Pick(s)] + k[s \ {Pick(s)}]]
  <1>1. PICK k : IsSum(k, f, Level)
    BY ProgressAssumption, SumExists
  <1>2. k = [s \in SUBSET Level |-> IF s = {} THEN 0 ELSE f[Pick(s)] + k[s \ {Pick(s)}]]
    BY <1>1 DEF IsSum, Adds
  <1>3. h = [s \in SUBSET Level |-> IF s = {} THEN 0 ELSE f[Pick(s)] + h[s \ {Pick(s)}]]
    BY <1>2
  <1>4. DOMAIN f = Level
    OBVIOUS
  <1>5. Tallied(f) = h[Level]
    BY <1>4 DEF Tallied, FoldFunction, FoldFunctionOnSet, MapThenFoldSet, Pick
  <1> HIDE DEF h
  <1> QED BY <1>3, <1>5 DEF IsSum, Adds

LEMMA CountedRaters ==
  /\ RatersCounted <=> \A s \in Section : Tallied(tally[s]) = Cardinality(Raters(log, s))
  /\ RatersCounted' <=> \A s \in Section : Tallied(tally'[s]) = Cardinality(Raters(log', s))
  BY DEF RatersCounted, Tallied, Raters, FoldFunction, FoldFunctionOnSet, MapThenFoldSet

(* One vote more, and perhaps one taken back. *)
LEMMA TallyMoved ==
  ASSUME NEW f \in [Level -> Int], NEW a \in Level, NEW b \in Level \cup {NoLevel}, a # b,
         NEW g, g = [l \in Level |-> f[l] + (IF l = a THEN 1 ELSE IF l = b THEN -1 ELSE 0)]
  PROVE  Tallied(g) = Tallied(f) + (IF b = NoLevel THEN 1 ELSE 0) /\ Tallied(f) \in Int
  <1> DEFINE m == [f EXCEPT ![a] = f[a] + 1]
  <1>0. IsFiniteSet(Level) /\ NoLevel \notin Level
    BY ProgressAssumption
  <1>1. m \in [Level -> Int] /\ g \in [Level -> Int]
    OBVIOUS
  <1>2. m[a] = f[a] + 1 /\ \A l \in Level \ {a} : m[l] = f[l]
    OBVIOUS
  <1>3. \A l \in Level : g[l] = m[l] + (IF l = b THEN -1 ELSE 0)
    OBVIOUS
  <1> HIDE DEF m
  <1>4. PICK h : IsSum(h, f, Level) /\ Tallied(f) = h[Level]
    BY TalliedIsSum
  <1>5. PICK k : IsSum(k, m, Level) /\ Tallied(m) = k[Level]
    BY <1>1, TalliedIsSum
  <1>6. PICK j : IsSum(j, g, Level) /\ Tallied(g) = j[Level]
    BY <1>1, TalliedIsSum
  <1>f. \A l \in Level : f[l] \in Int
    OBVIOUS
  <1>m. \A l \in Level : m[l] \in Int
    BY <1>1
  <1>g. \A l \in Level : g[l] \in Int
    BY <1>1
  <1>7. h[Level] \in Int
    <2>1. IsSum(h, f, Level)
      BY <1>4
    <2>2. \A s \in SUBSET Level : h[s] \in Int
      BY <1>0, <1>f, <2>1, SumType
    <2> QED BY <2>2
  <1>8. k[Level] = h[Level] + 1
    <2>1. IsSum(h, f, Level)
      BY <1>4
    <2>2. IsSum(k, m, Level)
      BY <1>5
    <2>3. \A l \in Level \ {a} : m[l] = f[l]
      BY <1>2
    <2>4. IsFiniteSet(Level)
      BY <1>0
    <2>5. k[Level] = h[Level] + m[a] - f[a]
      BY <1>f, <1>m, <2>1, <2>2, <2>3, <2>4, SumChange
    <2>6. m[a] = f[a] + 1 /\ f[a] \in Int
      BY <1>2, <1>f
    <2> QED BY <1>7, <2>5, <2>6
  <1>9. CASE b = NoLevel
    <2>1. g = m
      BY <1>0, <1>1, <1>3, <1>9
    <2> QED BY <1>4, <1>5, <1>7, <1>8, <1>9, <2>1
  <1>10. CASE b \in Level
    <2>1. IsSum(j, g, Level)
      BY <1>6
    <2>2. IsSum(k, m, Level)
      BY <1>5
    <2>3. \A l \in Level \ {b} : g[l] = m[l]
      BY <1>m, <1>3
    <2>4. IsFiniteSet(Level)
      BY <1>0
    <2>5. j[Level] = k[Level] + g[b] - m[b]
      BY <1>10, <1>m, <1>g, <2>1, <2>2, <2>3, <2>4, SumChange
    <2>6. g[b] = m[b] - 1 /\ m[b] \in Int /\ b # NoLevel
      BY <1>0, <1>3, <1>10, <1>m
    <2>7. j[Level] = h[Level]
      BY <1>7, <1>8, <2>5, <2>6
    <2> QED BY <1>4, <1>6, <1>7, <2>6, <2>7
  <1> QED BY <1>9, <1>10

LEMMA InitRates == Init => Rates
  <1> SUFFICES ASSUME Init PROVE Rates
    OBVIOUS
  <1>1. RatersCounted
    <2> SUFFICES ASSUME NEW s \in Section
                 PROVE  Tallied(tally[s]) = Cardinality(Raters(log, s))
      BY CountedRaters
    <2>1. Raters(log, s) = {}
      BY DEF Init, Raters, NoRow
    <2>2. tally[s] \in [Level -> Int] /\ \A l \in Level : tally[s][l] = 0
      BY DEF Init
    <2>3. PICK f : f = tally[s]
      OBVIOUS
    <2>4. PICK h : IsSum(h, f, Level) /\ Tallied(f) = h[Level]
      BY <2>2, <2>3, TalliedIsSum
    <2>5. h[Level] = h[{}]
      <3>1. IsSum(h, f, Level) /\ IsFiniteSet(Level)
        BY <2>4, ProgressAssumption
      <3>2. \A l \in Level : f[l] \in Int
        BY <2>2, <2>3
      <3>3. \A l \in Level \ {} : f[l] = 0
        BY <2>2, <2>3
      <3>4. {} \subseteq Level
        OBVIOUS
      <3> QED BY <3>1, <3>2, <3>3, <3>4, SumZeros
    <2>6. h[{}] = 0
      BY <2>4, SumAt
    <2> QED BY <2>1, <2>3, <2>4, <2>5, <2>6, FS_EmptySet
  <1>2. \A r \in Slot : tx[r].locks = {} /\ RateOK(tx[r])
    BY DEF Init, Idle, RateOK
  <1>3. \A x \in User \X Section : log[x].rate = NoLevel
    BY DEF Init, NoRow
  <1> QED BY <1>1, <1>2, <1>3 DEF Rates, SectionExclusive

(* A step that leaves the ratings alone. *)
LEMMA MoveRates ==
  ASSUME Inv, Rates, NEW r \in Slot, NEW t, Become(r, t), UNCHANGED <<log, tally>>, RateOK(t),
         "section" \in t.locks =>
           \/ "section" \in tx[r].locks /\ t.sec = tx[r].sec
           \/ \A q \in Slot \ {r} : ~ ("section" \in tx[q].locks /\ tx[q].sec = t.sec)
  PROVE  Rates'
  <1>1. tx'[r] = t /\ \A q \in Slot \ {r} : tx'[q] = tx[q]
    BY DEF Become, Inv, Transactions
  <1>2. RatersCounted'
    BY CountedRaters DEF Rates
  <1>3. SectionExclusive'
    BY <1>1 DEF Rates, SectionExclusive
  <1>4. \A q \in Slot : RateOK(tx[q])'
    BY <1>1 DEF Rates, RateOK
  <1> QED BY <1>2, <1>3, <1>4 DEF Rates

LEMMA IdleRate == RateOK(Idle) /\ Idle.locks = {}
  BY DEF Idle, RateOK

LEMMA RollbackRates ==
  ASSUME Inv, Rates, NEW r \in Slot, Rollback(r), UNCHANGED <<log, tally>>
  PROVE  Rates'
  BY IdleRate, MoveRates DEF Rollback

(* A transaction that goes on with what it has read. *)
LEMMA GoOnRates ==
  ASSUME Inv, Rates, NEW r \in Slot, NEW t, Become(r, t), UNCHANGED <<log, tally>>,
         t.kind = tx[r].kind, t.user = tx[r].user, t.sec = tx[r].sec, t.rate = tx[r].rate,
         t.old = tx[r].old, tx[r].locks \subseteq t.locks,
         "section" \in t.locks => "section" \in tx[r].locks,
         t.kind = "save" =>
           \/ tx[r].pc = t.pc
           \/ tx[r].pc \notin Unlocked \cup {"readLog"} /\ t.pc \notin Unread
           \/ t.pc = "queueLesson"
  PROVE  Rates'
  <1>1. RateOK(tx[r])
    BY DEF Rates
  <1>2. RateOK(t)
    BY <1>1 DEF RateOK, Unlocked, Unread
  <1> QED BY <1>2, MoveRates

LEMMA GotoRates ==
  ASSUME Inv, Rates, NEW r \in Slot, NEW c, NEW lock, lock # "section",
         Goto(r, c) \/ Lock(r, lock, c), UNCHANGED <<log, tally>>,
         tx[r].kind = "save" =>
           \/ tx[r].pc \notin Unlocked \cup {"readLog"} /\ c \notin Unread
           \/ c = "queueLesson"
  PROVE  Rates'
  <1> DEFINE t == [tx[r] EXCEPT !.pc = c]
             u == [tx[r] EXCEPT !.pc = c, !.locks = @ \cup {lock}]
  <1>1. tx[r] \in Tx
    BY DEF Inv, Transactions
  <1>2. /\ t.pc = c /\ t.kind = tx[r].kind /\ t.user = tx[r].user /\ t.sec = tx[r].sec
        /\ t.rate = tx[r].rate /\ t.old = tx[r].old /\ t.locks = tx[r].locks
    BY <1>1 DEF Tx
  <1>3. /\ u.pc = c /\ u.kind = tx[r].kind /\ u.user = tx[r].user /\ u.sec = tx[r].sec
        /\ u.rate = tx[r].rate /\ u.old = tx[r].old /\ u.locks = tx[r].locks \cup {lock}
    BY <1>1 DEF Tx
  <1>4. Become(r, t) \/ Become(r, u)
    BY DEF Goto, Lock
  <1> HIDE DEF t, u
  <1> QED BY <1>2, <1>3, <1>4, GoOnRates

(* The reads of a save. *)
LEMMA ReadRates ==
  ASSUME Inv, Rates, NEW r \in Slot,
         CountBefore(r) \/ LockSection(r) \/ ReadLog(r) \/ CountLogs(r)
  PROVE  Rates'
  <1>1. tx[r] \in Tx /\ Fits(tx[r]) /\ RateOK(tx[r])
    BY DEF Inv, Transactions, Rates
  <1>2. tx[r].kind = "save" /\ <<tx[r].user, tx[r].sec>> \in User \X Section
    BY <1>1 DEF CountBefore, LockSection, ReadLog, CountLogs, Free, At, Fits, PcOf, WorkerPc,
                BadgePc
  <1>3. UNCHANGED <<log, tally>>
    BY DEF CountBefore, LockSection, ReadLog, CountLogs, rows
  <1>4. CASE CountBefore(r)
    <2> DEFINE n == Cardinality(Completed(tx[r].user))
               c == IF tx[r].rate = NoLevel THEN "readLog" ELSE "lockSection"
               t == [tx[r] EXCEPT !.before = n, !.pc = c]
    <2>1. tx[r].pc = "countBefore" /\ Become(r, t)
      BY <1>4 DEF CountBefore, At
    <2>2. (c = "readLog" /\ tx[r].rate = NoLevel) \/ c = "lockSection"
      OBVIOUS
    <2> HIDE DEF n, c
    <2>3. /\ t.pc = c /\ t.kind = tx[r].kind /\ t.user = tx[r].user /\ t.sec = tx[r].sec
          /\ t.rate = tx[r].rate /\ t.old = tx[r].old /\ t.locks = tx[r].locks
      BY <1>1 DEF Tx
    <2> HIDE DEF t
    <2>4. RateOK(t)
      BY <1>1, <2>1, <2>2, <2>3 DEF RateOK, Unlocked, Unread
    <2> QED BY <1>3, <2>1, <2>3, <2>4, MoveRates
  <1>5. CASE LockSection(r)
    <2> DEFINE t == [tx[r] EXCEPT !.pc = "readLog", !.locks = @ \cup {"section"}]
    <2>1. tx[r].pc = "lockSection" /\ Become(r, t)
      BY <1>5 DEF LockSection, Free, At, Lock
    <2>2. /\ t.pc = "readLog" /\ t.kind = tx[r].kind /\ t.user = tx[r].user
          /\ t.sec = tx[r].sec /\ t.rate = tx[r].rate /\ t.old = tx[r].old
          /\ t.locks = tx[r].locks \cup {"section"}
      BY <1>1 DEF Tx
    <2> HIDE DEF t
    <2>3. RateOK(t)
      BY <1>1, <2>1, <2>2 DEF RateOK, Unlocked, Unread
    <2>4. \A q \in Slot \ {r} : ~ ("section" \in tx[q].locks /\ tx[q].sec = t.sec)
      BY <1>5, <2>1, <2>2 DEF LockSection, Free, Blockers, At, SameSection
    <2> QED BY <1>3, <2>1, <2>3, <2>4, MoveRates
  <1>6. ASSUME NEW old \in Row, NEW first, AfterRead(r, old, first), tx[r].pc \notin Unlocked,
               old.rate # NoLevel => TheLog(r).rate # NoLevel,
               tx[r].rate # NoLevel /\ old.rate = NoLevel => TheLog(r).rate = NoLevel
        PROVE  Rates'
    <2> DEFINE t == [tx[r] EXCEPT !.pc = "upsert", !.old = old, !.first = first]
    <2>1. Rollback(r) \/ Become(r, t)
      BY <1>6 DEF AfterRead
    <2>2. /\ t.pc = "upsert" /\ t.kind = tx[r].kind /\ t.user = tx[r].user
          /\ t.sec = tx[r].sec /\ t.rate = tx[r].rate /\ t.old = old
          /\ t.locks = tx[r].locks
      BY <1>1 DEF Tx
    <2> HIDE DEF t
    <2>3. RateOK(t)
      BY <1>1, <1>2, <1>6, <2>2 DEF RateOK, Unlocked, Unread, TheLog
    <2> QED BY <1>3, <2>1, <2>2, <2>3, MoveRates, RollbackRates
  <1>7. CASE ReadLog(r)
    <2>1. tx[r].pc = "readLog"
      BY <1>7 DEF ReadLog, At
    <2>2. CASE TheLog(r).there
      <3>1. TheLog(r) \in Row
        BY <1>2 DEF TheLog, Inv, Stored
      <3>2. AfterRead(r, TheLog(r), FALSE)
        BY <1>7, <2>2 DEF ReadLog
      <3> QED BY <1>6, <2>1, <3>1, <3>2 DEF Unlocked
    <2>3. CASE ~ TheLog(r).there
      <3> DEFINE t == [tx[r] EXCEPT !.pc = "countLogs"]
      <3>1. Become(r, t)
        BY <1>7, <2>3 DEF ReadLog, Goto
      <3>2. /\ t.pc = "countLogs" /\ t.kind = tx[r].kind /\ t.user = tx[r].user
            /\ t.sec = tx[r].sec /\ t.rate = tx[r].rate /\ t.old = tx[r].old
            /\ t.locks = tx[r].locks
        BY <1>1 DEF Tx
      <3>3. log[<<tx[r].user, tx[r].sec>>].rate = NoLevel
        BY <1>2, <2>3 DEF TheLog, Rates
      <3> HIDE DEF t
      <3>4. RateOK(t)
        BY <1>1, <2>1, <3>2, <3>3 DEF RateOK, Unlocked, Unread
      <3> QED BY <1>3, <3>1, <3>2, <3>4, MoveRates
    <2> QED BY <2>2, <2>3
  <1>8. CASE CountLogs(r)
    <2>1. tx[r].pc = "countLogs" /\ NoRow \in Row /\ NoRow.rate = NoLevel
      BY <1>8 DEF CountLogs, At, NoRow, Row
    <2>2. tx[r].rate # NoLevel => TheLog(r).rate = NoLevel
      BY <1>1, <1>2, <2>1 DEF RateOK, Unlocked, Unread, TheLog
    <2>3. PICK first : AfterRead(r, NoRow, first)
      BY <1>8 DEF CountLogs
    <2> QED BY <1>6, <2>1, <2>2, <2>3 DEF Unlocked
  <1> QED BY <1>4, <1>5, <1>7, <1>8

(* The statements between the reads and the commit. *)
LEMMA WriteRates ==
  ASSUME Inv, Rates, NEW r \in Slot,
         \/ Upsert(r) \/ Share(r) \/ Activity(r) \/ Lesson(r) \/ AwardFirst(r)
         \/ ReadStats(r) \/ ReadEarned(r) \/ Award(r)
  PROVE  Rates'
  <1>1. tx[r] \in Tx
    BY DEF Inv, Transactions
  <1>2. UNCHANGED <<log, tally>>
    BY DEF Upsert, Share, Activity, Lesson, AwardFirst, ReadStats, ReadEarned, Award, rows
  <1>3. tx[r].pc \notin Unlocked \cup {"readLog"}
    BY DEF Upsert, Share, Activity, Lesson, AwardFirst, ReadStats, ReadEarned, Award, Free, At,
           Unlocked
  <1>4. CASE Upsert(r) \/ Share(r) \/ Activity(r) \/ Lesson(r)
    <2>1. \E c \in {"share", "activity", "lesson", "awardFirst", "readStats"},
            lock \in {"log", "share", "stats"} : Goto(r, c) \/ Lock(r, lock, c)
      BY <1>4 DEF Upsert, Share, Activity, Lesson
    <2>2. PICK c \in {"share", "activity", "lesson", "awardFirst", "readStats"},
               lock \in {"log", "share", "stats"} : Goto(r, c) \/ Lock(r, lock, c)
      BY <2>1
    <2>3. c \notin Unread
      BY DEF Unread
    <2>4. lock # "section"
      OBVIOUS
    <2> QED BY <1>2, <1>3, <2>2, <2>3, <2>4, GotoRates
  <1>5. ASSUME NEW b, NEW c \in {"readStats", "award"}, Create(r, b, c) PROVE Rates'
    <2> DEFINE t == [tx[r] EXCEPT !.pc = c, !.due = @ \ {b}, !.broken = TRUE]
               u == [tx[r] EXCEPT !.pc = c, !.due = @ \ {b}, !.new = @ \cup {b}]
    <2>1. Become(r, t) \/ Become(r, u)
      BY <1>5 DEF Create
    <2>2. /\ t.pc = c /\ t.kind = tx[r].kind /\ t.user = tx[r].user /\ t.sec = tx[r].sec
          /\ t.rate = tx[r].rate /\ t.old = tx[r].old /\ t.locks = tx[r].locks
      BY <1>1 DEF Tx
    <2>3. /\ u.pc = c /\ u.kind = tx[r].kind /\ u.user = tx[r].user /\ u.sec = tx[r].sec
          /\ u.rate = tx[r].rate /\ u.old = tx[r].old /\ u.locks = tx[r].locks
      BY <1>1 DEF Tx
    <2> HIDE DEF t, u
    <2> QED BY <1>2, <1>3, <2>1, <2>2, <2>3, GoOnRates DEF Unread
  <1>6. CASE AwardFirst(r)
    BY <1>5, <1>6 DEF AwardFirst
  <1>7. CASE Award(r)
    <2>1. CASE Goto(r, "commit")
      <3>1. "commit" \notin Unread /\ "stats" # "section"
        BY DEF Unread
      <3> QED BY <1>2, <1>3, <2>1, <3>1, GotoRates
    <2> QED BY <1>5, <1>7, <2>1 DEF Award
  <1>8. CASE ReadStats(r) \/ ReadEarned(r)
    <2>1. \/ Rollback(r)
          \/ \E c \in {"readEarned", "award"}, d \in SUBSET Badge :
               Become(r, [tx[r] EXCEPT !.pc = c, !.due = d])
      <3>1. CASE ReadStats(r)
        <4> DEFINE d == {b \in Badge : \/ b = "lesson_first" /\ OwnLessons(r) >= 1
                                       \/ b = "course_1" /\ OwnCourses(r) >= 1}
        <4>1. d \in SUBSET Badge
          OBVIOUS
        <4>2. Rollback(r) \/ Become(r, [tx[r] EXCEPT !.pc = "readEarned", !.due = d])
          BY <3>1 DEF ReadStats
        <4> HIDE DEF d
        <4> QED BY <4>1, <4>2
      <3>2. CASE ReadEarned(r)
        <4> DEFINE d == tx[r].due \ (badge[tx[r].user] \cup tx[r].new)
        <4>1. d \in SUBSET Badge
          BY <1>1 DEF Tx
        <4>2. Become(r, [tx[r] EXCEPT !.pc = "award", !.due = d])
          BY <3>2 DEF ReadEarned
        <4> HIDE DEF d
        <4> QED BY <4>1, <4>2
      <3> QED BY <1>8, <3>1, <3>2
    <2>2. ASSUME NEW c \in {"readEarned", "award"}, NEW d \in SUBSET Badge,
                 Become(r, [tx[r] EXCEPT !.pc = c, !.due = d])
          PROVE  Rates'
      <3> DEFINE t == [tx[r] EXCEPT !.pc = c, !.due = d]
      <3>1. /\ t.pc = c /\ t.kind = tx[r].kind /\ t.user = tx[r].user /\ t.sec = tx[r].sec
            /\ t.rate = tx[r].rate /\ t.old = tx[r].old /\ t.locks = tx[r].locks
        BY <1>1 DEF Tx
      <3>2. Become(r, t)
        BY <2>2
      <3> HIDE DEF t
      <3> QED BY <1>2, <1>3, <3>1, <3>2, GoOnRates DEF Unread
    <2> QED BY <1>2, <2>1, <2>2, RollbackRates
  <1> QED BY <1>4, <1>6, <1>7, <1>8

(* The commit of a save.  The row it writes was rated before if and only if
   the one it read was, so the raters grow with the counters. *)
LEMMA SaveCommits ==
  ASSUME Inv, Rates, NEW r \in Slot, Commit(r), ~ tx[r].broken, tx[r].kind = "save"
  PROVE  Rates'
  <1> DEFINE c == IF tx[r].kind = "save" THEN "queueSection" ELSE "ack"
             t == [tx[r] EXCEPT !.pc = c, !.locks = {}, !.new = {}]
             a == tx[r].rate
             b == tx[r].old.rate
             w == Saved(r).rate
  <1>1. tx[r] \in Tx /\ Fits(tx[r]) /\ RateOK(tx[r]) /\ tx[r].pc = "commit"
    BY DEF Inv, Transactions, Rates, Commit, At
  <1>2. PICK me \in User, sec \in Section : me = tx[r].user /\ sec = tx[r].sec
    BY <1>1 DEF Fits
  <1>3. tx' = [tx EXCEPT ![r] = t] /\ log' = [log EXCEPT ![<<me, sec>>] = Saved(r)]
        /\ tally' = Moved(r)
    BY <1>2 DEF Commit, Become
  <1>4. t.pc = "queueSection" /\ t.kind = "save" /\ t.user = me /\ t.sec = sec /\ t.rate = a
        /\ t.old = tx[r].old /\ t.locks = {}
    BY <1>1, <1>2 DEF Tx
  <1>5. tx'[r] = t /\ \A q \in Slot \ {r} : tx'[q] = tx[q]
    BY <1>3 DEF Inv, Transactions
  <1>6. a \in Level \cup {NoLevel} /\ b \in Level \cup {NoLevel} /\ w \in Level \cup {NoLevel}
    <2>1. TheLog(r) \in Row
      BY <1>2 DEF TheLog, Inv, Stored
    <2> QED BY <1>1, <2>1 DEF Tx, Row, Saved
  <1>7. /\ a # NoLevel => w = a
        /\ a = NoLevel => (w # NoLevel <=> log[<<me, sec>>].rate # NoLevel)
    BY <1>1, <1>2 DEF RateOK, Saved, TheLog
  <1>8. a # NoLevel => "section" \in tx[r].locks
                       /\ (b = NoLevel <=> log[<<me, sec>>].rate = NoLevel)
    BY <1>1, <1>2 DEF RateOK, Unlocked
  <1>9. Saved(r).there
    BY DEF Saved
  <1> HIDE DEF t, c
  <1>10. \A x \in User \X Section :
           log'[x] = IF x = <<me, sec>> THEN Saved(r) ELSE log[x]
    BY <1>3 DEF Inv, Stored
  <1>11. \A u \in User, s \in Section :
           log'[<<u, s>>] = IF u = me /\ s = sec THEN Saved(r) ELSE log[<<u, s>>]
    BY <1>10
  <1>12. ASSUME NEW s \in Section
         PROVE  Tallied(tally'[s]) = Cardinality(Raters(log', s))
    <2>1. Tallied(tally[s]) = Cardinality(Raters(log, s))
      BY CountedRaters DEF Rates
    <2>2. CASE s # sec \/ a = NoLevel \/ a = b
      <3>1. tally'[s] = tally[s]
        BY <1>2, <1>3, <2>2 DEF Moved, Inv, Stored
      <3>2. s = sec => (w # NoLevel <=> log[<<me, sec>>].rate # NoLevel)
        BY <1>6, <1>7, <1>8, <2>2
      <3>3. \A u \in User : log'[<<u, s>>].rate # NoLevel <=> log[<<u, s>>].rate # NoLevel
        BY <1>11, <3>2
      <3>4. Raters(log', s) = Raters(log, s)
        BY <3>3 DEF Raters
      <3> QED BY <2>1, <3>1, <3>4
    <2>3. CASE s = sec /\ a # NoLevel /\ a # b
      <3>1. tally[s] \in [Level -> Int] /\ a \in Level
        BY <1>6, <2>3 DEF Inv, Stored
      <3>2. tally'[s] = [l \in Level |->
              tally[s][l] + (IF l = a THEN 1 ELSE IF l = b THEN -1 ELSE 0)]
        BY <1>2, <1>3, <2>3 DEF Moved, Inv, Stored
      <3>3. PICK f, g : f = tally[s] /\ g = tally'[s]
        OBVIOUS
      <3>4. Tallied(g) = Tallied(f) + (IF b = NoLevel THEN 1 ELSE 0) /\ Tallied(f) \in Int
        <4>1. f \in [Level -> Int] /\ a \in Level /\ b \in Level \cup {NoLevel} /\ a # b
          BY <1>6, <2>3, <3>1, <3>3
        <4>2. g = [l \in Level |-> f[l] + (IF l = a THEN 1 ELSE IF l = b THEN -1 ELSE 0)]
          BY <3>2, <3>3
        <4> HIDE DEF a, b
        <4> QED BY <4>1, <4>2, TallyMoved
      <3>5. Raters(log', s) = Raters(log, s) \cup {me}
        BY <1>7, <1>11, <2>3 DEF Raters
      <3>6. me \in Raters(log, s) <=> b # NoLevel
        BY <1>8, <2>3 DEF Raters
      <3>7. IsFiniteSet(Raters(log, s))
        <4>1. Raters(log, s) \subseteq User /\ IsFiniteSet(User)
          BY ProgressAssumption DEF Raters
        <4> QED BY <4>1, FS_Subset
      <3>8. CASE b = NoLevel
        <4>1. Cardinality(Raters(log', s)) = Cardinality(Raters(log, s)) + 1
          BY <3>5, <3>6, <3>7, <3>8, FS_AddElement
        <4> QED BY <2>1, <3>3, <3>4, <3>8, <4>1
      <3>9. CASE b # NoLevel
        <4>1. Raters(log', s) = Raters(log, s)
          BY <3>5, <3>6, <3>9
        <4> QED BY <2>1, <3>3, <3>4, <3>9, <4>1
      <3> QED BY <3>8, <3>9
    <2> QED BY <2>2, <2>3
  <1>13. SectionExclusive'
    BY <1>4, <1>5 DEF Rates, SectionExclusive
  <1>14. ASSUME NEW x \in User \X Section, ~ log'[x].there PROVE log'[x].rate = NoLevel
    BY <1>9, <1>10, <1>14 DEF Rates
  <1>15. ASSUME NEW u \in User, NEW s \in Section, log[<<u, s>>].rate # NoLevel
         PROVE  log'[<<u, s>>].rate # NoLevel
    BY <1>6, <1>7, <1>11, <1>15
  <1>16. ASSUME NEW q \in Slot PROVE RateOK(tx[q])'
    <2>1. CASE q = r
      <3>1. tx[r].old.rate # NoLevel => log'[<<me, sec>>].rate # NoLevel
        BY <1>1, <1>2, <1>15 DEF RateOK
      <3> QED BY <1>4, <1>5, <2>1, <3>1 DEF RateOK, Unlocked, Unread
    <2>2. CASE q # r /\ tx[q].kind = "save"
      <3>1. tx'[q] = tx[q] /\ RateOK(tx[q])
        BY <1>5, <2>2 DEF Rates
      <3>2. PICK v \in User, s \in Section : v = tx[q].user /\ s = tx[q].sec
        BY <2>2 DEF Inv, Transactions, Fits
      <3>3. ASSUME "section" \in tx[q].locks, log[<<v, s>>].rate = NoLevel
            PROVE  log'[<<v, s>>].rate = NoLevel
        <4>1. CASE v = me /\ s = sec
          <5>1. "section" \notin tx[r].locks
            BY <1>2, <2>2, <3>2, <3>3, <4>1 DEF Rates, SectionExclusive
          <5>2. w = NoLevel
            BY <1>7, <1>8, <3>3, <4>1, <5>1
          <5> QED BY <1>11, <4>1, <5>2
        <4> QED BY <1>11, <3>3, <4>1
      <3> QED BY <1>15, <2>2, <3>1, <3>2, <3>3 DEF RateOK
    <2>3. CASE q # r /\ tx[q].kind # "save"
      BY <1>5, <2>3 DEF RateOK
    <2> QED BY <2>1, <2>2, <2>3
  <1>17. RatersCounted'
    BY <1>12, CountedRaters
  <1> QED BY <1>13, <1>14, <1>16, <1>17 DEF Rates

LEMMA CommitRates == ASSUME Inv, Rates, NEW r \in Slot, Commit(r) PROVE Rates'
  <1>1. CASE tx[r].broken
    BY <1>1, RollbackRates DEF Commit, rows
  <1>2. CASE ~ tx[r].broken /\ tx[r].kind # "save"
    <2> DEFINE c == IF tx[r].kind = "save" THEN "queueSection" ELSE "ack"
               t == [tx[r] EXCEPT !.pc = c, !.locks = {}, !.new = {}]
    <2>1. Become(r, t) /\ UNCHANGED <<log, tally>>
      BY <1>2 DEF Commit
    <2>2. t.kind # "save" /\ t.locks = {}
      BY <1>2 DEF Inv, Transactions, Tx
    <2> HIDE DEF t, c
    <2>3. RateOK(t)
      BY <2>2 DEF RateOK
    <2> QED BY <2>1, <2>2, <2>3, MoveRates
  <1> QED BY <1>1, <1>2, SaveCommits

(* The jobs a save queues, and the worker's steps. *)
LEMMA WorkerRates ==
  ASSUME Inv, Rates, NEW r \in Slot,
         \/ QueueSection(r) \/ QueueLesson(r) \/ Ack(r)
         \/ CountSections(r) \/ Existing(r) \/ Complete(r) \/ CountCourse(r)
  PROVE  Rates'
  <1>1. Fits(tx[r])
    BY DEF Inv, Transactions
  <1>2. UNCHANGED <<log, tally>>
    BY DEF QueueSection, QueueLesson, Ack, CountSections, Existing, Complete, CountCourse, rows
  <1>3. CASE Rollback(r)
    BY <1>2, <1>3, RollbackRates
  <1>4. CASE QueueSection(r)
    <2>1. Goto(r, "queueLesson")
      BY <1>4 DEF QueueSection
    <2>2. "stats" # "section"
      OBVIOUS
    <2> QED BY <1>2, <2>1, <2>2, GotoRates
  <1>5. CASE tx[r].pc \in WorkerPc /\ ~ Rollback(r)
    <2>1. tx[r].kind # "save"
      BY <1>1, <1>5 DEF Fits, PcOf, WorkerPc, SavePc, BadgePc
    <2>2. PICK c \in {"existing", "complete", "countCourse", "readStats"},
               lock \in {"course", "stats"} : Goto(r, c) \/ Lock(r, lock, c)
      BY <1>5 DEF QueueSection, QueueLesson, Ack, CountSections, Existing, Complete, CountCourse,
                  At, WorkerPc
    <2>3. lock # "section"
      OBVIOUS
    <2> QED BY <1>2, <2>1, <2>2, <2>3, GotoRates
  <1>6. tx[r].pc \in WorkerPc \/ Rollback(r) \/ QueueSection(r)
    BY DEF QueueLesson, Ack, CountSections, Existing, Complete, CountCourse, Free, At, WorkerPc
  <1> QED BY <1>3, <1>4, <1>5, <1>6

(* Requests and jobs begin with nothing read and nothing locked. *)
LEMMA BeginRates ==
  ASSUME Inv, Rates, NEW r \in Slot, NEW u \in User, NEW kind \in {"section", "lesson"},
         \/ \E s \in Section, done \in BOOLEAN, rate \in Level \cup {NoLevel} :
              StartSave(r, u, s, done, rate)
         \/ TakeJob(r, u, kind)
  PROVE  Rates'
  <1>1. PICK t : /\ Become(r, t) /\ t.locks = {}
                 /\ \/ t.kind # "save"
                    \/ t.pc = "countBefore" /\ t.old.rate = NoLevel
    <2>1. Idle \in Tx /\ Idle.locks = {} /\ Idle.old.rate = NoLevel
      BY IdleFits DEF Fits, Idle, NoRow
    <2>2. CASE TakeJob(r, u, kind)
      <3> DEFINE t == [Idle EXCEPT !.kind = kind, !.user = u,
                         !.pc = IF kind = "section" THEN "readStats" ELSE "countSections"]
      <3>1. Become(r, t)
        BY <2>2 DEF TakeJob
      <3>2. t.locks = {} /\ t.kind # "save"
        BY <2>1 DEF Tx
      <3> HIDE DEF t
      <3> QED BY <3>1, <3>2
    <2>3. ASSUME NEW s \in Section, NEW done \in BOOLEAN, NEW rate \in Level \cup {NoLevel},
                 StartSave(r, u, s, done, rate)
          PROVE  \E t : Become(r, t) /\ t.locks = {} /\ t.pc = "countBefore"
                        /\ t.old.rate = NoLevel
      <3> DEFINE t == [Idle EXCEPT !.pc = "countBefore", !.kind = "save", !.user = u,
                                   !.sec = s, !.done = done, !.rate = rate]
      <3>1. Become(r, t)
        BY <2>3 DEF StartSave
      <3>2. t.locks = {} /\ t.pc = "countBefore" /\ t.old.rate = NoLevel
        BY <2>1 DEF Tx
      <3> HIDE DEF t
      <3> QED BY <3>1, <3>2
    <2> QED BY <2>2, <2>3
  <1>2. RateOK(t)
    BY <1>1 DEF RateOK, Unlocked, Unread
  <1>3. UNCHANGED <<log, tally>>
    BY DEF StartSave, TakeJob, rows
  <1> QED BY <1>1, <1>2, <1>3, MoveRates

LEMMA SameRates == ASSUME Rates, UNCHANGED <<log, tally, tx>> PROVE Rates'
  BY CountedRaters DEF Rates, SectionExclusive, RateOK

LEMMA NextRates == Inv /\ Rates /\ [Next]_vars => Rates'
  <1> SUFFICES ASSUME Inv, Rates, [Next]_vars PROVE Rates'
    OBVIOUS
  <1>1. CASE UNCHANGED vars \/ Rest
    BY <1>1, SameRates DEF Rest, vars
  <1>2. ASSUME NEW r \in Slot, Step(r) PROVE Rates'
    BY <1>2, ReadRates, WriteRates, CommitRates, WorkerRates DEF Step
  <1>3. ASSUME NEW r \in Slot, Redeliver(r) PROVE Rates'
    BY <1>3, SameRates DEF Redeliver, rows
  <1>4. ASSUME NEW r \in Slot, Abort(r) \/ Victim(r) PROVE Rates'
    BY <1>4, RollbackRates DEF Abort, Victim, rows
  <1> QED BY <1>1, <1>2, <1>3, <1>4, BeginRates DEF Next

(* A section's difficulty counters add up to the users who rated it, however
   the ratings of one user or several race (saveSectionProgress). *)
THEOREM RatersCountedHolds == Spec => []RatersCounted
  <1>1. Rates => RatersCounted
    BY DEF Rates
  <1> QED BY <1>1, InitInv, NextInv, InitRates, NextRates, PTL DEF Spec

=============================================================================
