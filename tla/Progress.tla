------------------------------ MODULE Progress ------------------------------
(***************************************************************************)
(* Section progress: saveSectionProgress and the transactions the section  *)
(* event worker runs after it (log.service.ts, log-event.processor.ts,     *)
(* achievement.service.ts), over Postgres at READ COMMITTED.               *)
(*                                                                         *)
(* A slot of Slot holds one transaction at a time, of a request or of a    *)
(* worker.  A statement reads what is committed and what its own           *)
(* transaction wrote.  A row that a transaction writes stays locked until  *)
(* the transaction ends, so its writes are applied at Commit, to the row   *)
(* as it then is, which is the row the statement updated.  Blockers says   *)
(* whom a statement waits for.                                             *)
(*                                                                         *)
(* One lesson, which is a whole course.  The study time of a save (daily   *)
(* activity, streak, page times) only appears as the locks it takes; of    *)
(* the badges, one of each kind of condition.                              *)
(***************************************************************************)
EXTENDS Integers, FiniteSets, Functions

CONSTANTS
    Slot,      \* transactions in flight
    User,
    Section,   \* the sections of the lesson
    Grammar,   \* those that can be rated
    Level,     \* EASY, NORMAL, HARD
    NoUser, NoSection, NoLevel,
    MaxSaves,  \* bound on the saves
    MaxJobs    \* bound on the jobs of one kind and user in the queue

ASSUME ProgressAssumption ==
    /\ Grammar \subseteq Section /\ IsFiniteSet(Section) /\ Section # {}
    /\ IsFiniteSet(User) /\ IsFiniteSet(Level)
    /\ NoUser \notin User /\ NoSection \notin Section /\ NoLevel \notin Level
    /\ MaxSaves \in Nat /\ MaxJobs \in Nat

VARIABLES
    log,     \* user_section_logs: is the row there, isCompleted, difficulty
    tally,   \* a section's difficulty...Count columns
    stats,   \* user_stats: totalCompletedLessons, totalCompletedCourses
    course,  \* the users with a row in user_course_completions
    badge,   \* user_badges
    queue,   \* the section event queue: waiting jobs by kind
    tx,      \* the transactions
    saves    \* saves begun

vars == <<log, tally, stats, course, badge, queue, tx, saves>>

Badge == {"first_start", "lesson_first", "course_1"}
Row   == [there : BOOLEAN, done : BOOLEAN, rate : Level \cup {NoLevel}]
NoRow == [there |-> FALSE, done |-> FALSE, rate |-> NoLevel]

SavePc   == {"countBefore", "lockSection", "readLog", "countLogs", "upsert", "share",
             "activity", "lesson", "awardFirst"}
WorkerPc == {"countSections", "existing", "complete", "countCourse"}
BadgePc  == {"readStats", "readEarned", "award"}
Tx == [pc     : {"idle", "commit", "queueSection", "queueLesson", "ack"}
                \cup SavePc \cup WorkerPc \cup BadgePc,
       kind   : {"none", "save", "section", "lesson"},
       user   : User \cup {NoUser},
       sec    : Section \cup {NoSection},
       done   : BOOLEAN,                  \* the save completes the section
       rate   : Level \cup {NoLevel},
       before : 0..Cardinality(Section),  \* completedBefore
       old    : Row,                      \* beforeLog
       first  : BOOLEAN,                  \* isFirstEverSectionStart
       due    : SUBSET Badge,             \* badges checkStatBadges will create
       new    : SUBSET Badge,             \* badges created, not committed
       locks  : SUBSET {"section", "share", "log", "stats", "course"},
       broken : BOOLEAN]                  \* a statement failed: the rest will too

Idle == [pc |-> "idle", kind |-> "none", user |-> NoUser, sec |-> NoSection,
         done |-> FALSE, rate |-> NoLevel, before |-> 0, old |-> NoRow,
         first |-> FALSE, due |-> {}, new |-> {}, locks |-> {}, broken |-> FALSE]

TypeOK ==
    /\ log \in [User \X Section -> Row]
    /\ tally \in [Section -> [Level -> Int]]
    /\ stats \in [User -> [lessons : Nat, courses : Nat]]
    /\ course \subseteq User
    /\ badge \in [User -> SUBSET Badge]
    /\ queue \in [User -> [section : 0..MaxJobs, lesson : 0..MaxJobs]]
    /\ tx \in [Slot -> Tx] /\ saves \in 0..MaxSaves

Init ==
    /\ log = [x \in User \X Section |-> NoRow]
    /\ tally = [s \in Section |-> [l \in Level |-> 0]]
    /\ stats = [u \in User |-> [lessons |-> 0, courses |-> 0]]
    /\ course = {} /\ badge = [u \in User |-> {}]
    /\ queue = [u \in User |-> [section |-> 0, lesson |-> 0]]
    /\ tx = [r \in Slot |-> Idle] /\ saves = 0

-----------------------------------------------------------------------------
rows == <<log, tally, stats, course, badge>>

At(r, pc) == tx[r].pc = pc
Become(r, t) == tx' = [tx EXCEPT ![r] = t]
Goto(r, pc) == Become(r, [tx[r] EXCEPT !.pc = pc])
Lock(r, lock, pc) == Become(r, [tx[r] EXCEPT !.pc = pc, !.locks = @ \cup {lock}])
Rollback(r) == Become(r, Idle)

TheLog(r) == log[<<tx[r].user, tx[r].sec>>]
Completed(u) == {s \in Section : log[<<u, s>>].done}
SameUser(r, q) == q # r /\ tx[q].user = tx[r].user
SameSection(r, q) == q # r /\ tx[q].sec = tx[r].sec
Created(r, b) == {q \in Slot : SameUser(r, q) /\ b \in tx[q].new}

(* STAT_BADGE_RULES are tried in order. *)
NextDue(r) == IF "course_1" \in tx[r].due THEN "course_1" ELSE "lesson_first"

(* The transactions whose locks the next statement of r waits for.  A new
   row locks the section it refers to against FOR UPDATE, and waits for it. *)
Blockers(r) ==
    CASE At(r, "lockSection") ->
           {q \in Slot : SameSection(r, q) /\ tx[q].locks \cap {"section", "share"} # {}}
      [] At(r, "upsert") ->
           {q \in Slot : SameSection(r, q) /\ SameUser(r, q) /\ "log" \in tx[q].locks}
      [] At(r, "share") ->
           {q \in Slot : SameSection(r, q) /\ "section" \in tx[q].locks}
      [] tx[r].pc \in {"activity", "lesson", "countCourse"} ->
           {q \in Slot : SameUser(r, q) /\ "stats" \in tx[q].locks}
      [] At(r, "complete") ->
           {q \in Slot : SameUser(r, q) /\ "course" \in tx[q].locks}
      [] At(r, "awardFirst") -> Created(r, "first_start")
      [] At(r, "award") /\ tx[r].due # {} -> Created(r, NextDue(r))
      [] OTHER -> {}

Free(r, pc) == At(r, pc) /\ Blockers(r) = {}

-----------------------------------------------------------------------------
(* saveSectionProgress: after the reads of section and user, which only
   check the request, the transaction begins. *)
StartSave(r, u, s, done, rate) ==
    /\ At(r, "idle") /\ saves < MaxSaves
    /\ rate # NoLevel => s \in Grammar
    /\ Become(r, [Idle EXCEPT !.pc = "countBefore", !.kind = "save", !.user = u,
                              !.sec = s, !.done = done, !.rate = rate])
    /\ saves' = saves + 1
    /\ UNCHANGED <<rows, queue>>

CountBefore(r) ==
    /\ At(r, "countBefore")
    /\ Become(r, [tx[r] EXCEPT !.before = Cardinality(Completed(tx[r].user)),
                     !.pc = IF tx[r].rate = NoLevel THEN "readLog" ELSE "lockSection"])
    /\ UNCHANGED <<rows, queue, saves>>

(* Mutant: SELECT without FOR UPDATE. *)
LockSectionNot(r) ==
    /\ At(r, "lockSection")
    /\ Goto(r, "readLog")
    /\ UNCHANGED <<rows, queue, saves>>

(* SELECT ... FOR UPDATE, for a save that rates. *)
LockSection(r) ==
    /\ Free(r, "lockSection")
    /\ Lock(r, "section", "readLog")
    /\ UNCHANGED <<rows, queue, saves>>

(* A rating needs a completed section; the throw rolls back. *)
AfterRead(r, old, first) ==
    IF tx[r].rate # NoLevel /\ ~ tx[r].done /\ ~ old.done
    THEN Rollback(r)
    ELSE Become(r, [tx[r] EXCEPT !.pc = "upsert", !.old = old, !.first = first])

ReadLog(r) ==
    /\ At(r, "readLog")
    /\ IF TheLog(r).there THEN AfterRead(r, TheLog(r), FALSE) ELSE Goto(r, "countLogs")
    /\ UNCHANGED <<rows, queue, saves>>

CountLogs(r) ==
    /\ At(r, "countLogs")
    /\ AfterRead(r, NoRow, \A s \in Section : ~ log[<<tx[r].user, s>>].there)
    /\ UNCHANGED <<rows, queue, saves>>

(* A log row that is new, or a new row for the page, refers to the section;
   the page may also be known, or not be reported. *)
Upsert(r) ==
    /\ Free(r, "upsert")
    /\ \E next \in {"share", "activity", "lesson"} :
         (next = "share" \/ TheLog(r).there) /\ Lock(r, "log", next)
    /\ UNCHANGED <<rows, queue, saves>>

Share(r) ==
    /\ Free(r, "share")
    /\ \E next \in {"activity", "lesson"} : Lock(r, "share", next)
    /\ UNCHANGED <<rows, queue, saves>>

(* recordDailyActivity, if time was spent: the user's activity of the day and
   statistics. *)
Activity(r) ==
    /\ Free(r, "activity")
    /\ Lock(r, "stats", "lesson")
    /\ UNCHANGED <<rows, queue, saves>>

(* isFirstCompletion and isLessonCompleted go by what the transaction read
   before its upsert. *)
FirstCompletion(r) == tx[r].done /\ ~ tx[r].old.done
LessonCompleted(r) ==
    LET n     == Cardinality(Section)
        after == tx[r].before + (IF FirstCompletion(r) THEN 1 ELSE 0)
    IN after = n /\ tx[r].before < n

Lesson(r) ==
    LET next == IF tx[r].first THEN "awardFirst" ELSE "readStats" IN
    /\ At(r, "lesson")
    /\ IF LessonCompleted(r) THEN Blockers(r) = {} /\ Lock(r, "stats", next)
                             ELSE Goto(r, next)
    /\ UNCHANGED <<rows, queue, saves>>

(* The create of a badge; the unique index makes it wait for another
   transaction's, and fail if that one commits.  The catch swallows the
   failure, Postgres ends the transaction all the same. *)
Create(r, b, pc) ==
    IF tx[r].broken \/ b \in badge[tx[r].user]
    THEN Become(r, [tx[r] EXCEPT !.pc = pc, !.due = @ \ {b}, !.broken = TRUE])
    ELSE Become(r, [tx[r] EXCEPT !.pc = pc, !.due = @ \ {b}, !.new = @ \cup {b}])

(* Mutant: a conflict is tried again. *)
AwardFirstRetry(r) ==
    /\ Free(r, "awardFirst")
    /\ IF "first_start" \in badge[tx[r].user]
       THEN Goto(r, "awardFirst")
       ELSE Create(r, "first_start", "readStats")
    /\ UNCHANGED <<rows, queue, saves>>

AwardFirst(r) ==
    /\ Free(r, "awardFirst")
    /\ Create(r, "first_start", "readStats")
    /\ UNCHANGED <<rows, queue, saves>>

-----------------------------------------------------------------------------
(* checkStatBadges: reads the statistics, as this transaction has left them,
   then the badges, then creates what is missing. *)
OwnLessons(r) == stats[tx[r].user].lessons
                 + (IF tx[r].kind = "save" /\ LessonCompleted(r) THEN 1 ELSE 0)
OwnCourses(r) == stats[tx[r].user].courses + (IF tx[r].kind = "lesson" THEN 1 ELSE 0)

(* Mutant: the statistics are read outside the transaction. *)
ReadStatsOutside(r) ==
    /\ At(r, "readStats")
    /\ IF tx[r].broken
       THEN Rollback(r)
       ELSE Become(r, [tx[r] EXCEPT !.pc = "readEarned",
                !.due = {b \in Badge :
                           \/ b = "lesson_first" /\ stats[tx[r].user].lessons >= 1
                           \/ b = "course_1" /\ stats[tx[r].user].courses >= 1}])
    /\ UNCHANGED <<rows, queue, saves>>

ReadStats(r) ==
    /\ At(r, "readStats")
    /\ IF tx[r].broken
       THEN Rollback(r)                        \* findUnique throws
       ELSE Become(r, [tx[r] EXCEPT !.pc = "readEarned",
                !.due = {b \in Badge : \/ b = "lesson_first" /\ OwnLessons(r) >= 1
                                       \/ b = "course_1" /\ OwnCourses(r) >= 1}])
    /\ UNCHANGED <<rows, queue, saves>>

ReadEarned(r) ==
    /\ At(r, "readEarned")
    /\ Become(r, [tx[r] EXCEPT !.pc = "award",
                               !.due = @ \ (badge[tx[r].user] \cup tx[r].new)])
    /\ UNCHANGED <<rows, queue, saves>>

Award(r) ==
    /\ Free(r, "award")
    /\ IF tx[r].due = {} THEN Goto(r, "commit") ELSE Create(r, NextDue(r), "award")
    /\ UNCHANGED <<rows, queue, saves>>

-----------------------------------------------------------------------------
(* What a save leaves of its row: the constants of update, or of create. *)
Saved(r) == LET t == tx[r] IN
    [there |-> TRUE,
     done  |-> t.done \/ t.old.done,
     rate  |-> IF t.rate # NoLevel THEN t.rate
               ELSE IF t.old.rate # NoLevel THEN t.old.rate ELSE TheLog(r).rate]

(* A rating that differs from the one read moves the section's counters. *)
Moved(r) == LET t == tx[r] IN
    IF t.rate = NoLevel \/ t.rate = t.old.rate THEN tally
    ELSE [tally EXCEPT ![t.sec] = [l \in Level |->
             @[l] + (IF l = t.rate THEN 1 ELSE IF l = t.old.rate THEN -1 ELSE 0)]]

(* The transaction ends.  After a failed statement nothing is kept: a save's
   next query throws, a worker's COMMIT rolls back. *)
Commit(r) ==
    LET t == tx[r] IN
    /\ At(r, "commit")
    /\ IF t.broken
       THEN Rollback(r) /\ UNCHANGED rows
       ELSE /\ Become(r, [t EXCEPT !.pc = IF t.kind = "save" THEN "queueSection" ELSE "ack",
                                   !.locks = {}, !.new = {}])
            /\ log' = IF t.kind = "save" THEN [log EXCEPT ![<<t.user, t.sec>>] = Saved(r)] ELSE log
            /\ tally' = IF t.kind = "save" THEN Moved(r) ELSE tally
            /\ stats' = [stats EXCEPT ![t.user] = [lessons |-> OwnLessons(r),
                                                   courses |-> OwnCourses(r)]]
            /\ course' = IF t.kind = "lesson" THEN course \cup {t.user} ELSE course
            /\ badge' = [badge EXCEPT ![t.user] = @ \cup t.new]
    /\ UNCHANGED <<queue, saves>>

(* After the commit: the jobs.  Bound: MaxJobs of a kind stand for any larger
   number, Redeliver brings back those that are not counted. *)
Enqueue(u, kind) ==
    queue' = [queue EXCEPT ![u][kind] = IF @ < MaxJobs THEN @ + 1 ELSE @]

QueueSection(r) ==
    /\ At(r, "queueSection")
    /\ IF FirstCompletion(r) THEN Enqueue(tx[r].user, "section") ELSE UNCHANGED queue
    /\ Goto(r, "queueLesson")
    /\ UNCHANGED <<rows, saves>>

QueueLesson(r) ==
    /\ At(r, "queueLesson")
    /\ IF LessonCompleted(r) THEN Enqueue(tx[r].user, "lesson") ELSE UNCHANGED queue
    /\ Rollback(r)
    /\ UNCHANGED <<rows, saves>>

-----------------------------------------------------------------------------
(* The worker takes a job: checkStatBadges for a section, and for a lesson
   handleLessonCompleted. *)
TakeJob(r, u, kind) ==
    /\ At(r, "idle") /\ queue[u][kind] > 0
    /\ queue' = [queue EXCEPT ![u][kind] = @ - 1]
    /\ Become(r, [Idle EXCEPT !.kind = kind, !.user = u,
                     !.pc = IF kind = "section" THEN "readStats" ELSE "countSections"])
    /\ UNCHANGED <<rows, saves>>

CountSections(r) ==
    /\ At(r, "countSections")
    /\ IF Completed(tx[r].user) # Section THEN Rollback(r) ELSE Goto(r, "existing")
    /\ UNCHANGED <<rows, queue, saves>>

Existing(r) ==
    /\ At(r, "existing")
    /\ IF tx[r].user \in course THEN Rollback(r) ELSE Goto(r, "complete")
    /\ UNCHANGED <<rows, queue, saves>>

(* Mutant: an upsert in place of the create. *)
CompleteUpsert(r) ==
    /\ Free(r, "complete")
    /\ Lock(r, "course", "countCourse")
    /\ UNCHANGED <<rows, queue, saves>>

(* The primary key lets one transaction create the completion; the job of
   another fails, to be tried again or kept as failed. *)
Complete(r) ==
    /\ Free(r, "complete")
    /\ \/ tx[r].user \notin course /\ Lock(r, "course", "countCourse") /\ UNCHANGED queue
       \/ tx[r].user \in course /\ Rollback(r)
          /\ (Enqueue(tx[r].user, "lesson") \/ UNCHANGED queue)
    /\ UNCHANGED <<rows, saves>>

CountCourse(r) ==
    /\ Free(r, "countCourse")
    /\ Lock(r, "stats", "readStats")
    /\ UNCHANGED <<rows, queue, saves>>

(* Mutant: a job that was taken is removed again when it is done. *)
AckRemoves(r) ==
    /\ At(r, "ack")
    /\ queue' = [queue EXCEPT ![tx[r].user][tx[r].kind] = @ - 1]
    /\ Rollback(r)
    /\ UNCHANGED <<rows, saves>>

Ack(r) ==
    /\ At(r, "ack")
    /\ Rollback(r)
    /\ UNCHANGED <<rows, queue, saves>>

-----------------------------------------------------------------------------
(* The queue hands a job out again while, or after, a worker runs it. *)
Redeliver(r) ==
    /\ tx[r].kind \in {"section", "lesson"}
    /\ Enqueue(tx[r].user, tx[r].kind)
    /\ UNCHANGED <<rows, tx, saves>>

(* The process stops, the connection is lost or Prisma's timeout is over. *)
Abort(r) ==
    /\ ~ At(r, "idle")
    /\ Rollback(r)
    /\ UNCHANGED <<rows, queue, saves>>

(* Postgres ends a transaction of a set that wait for each other. *)
Deadlocked(r) == \E S \in SUBSET Slot : r \in S /\ \A q \in S : Blockers(q) \cap S # {}
Victim(r) ==
    /\ Deadlocked(r)
    /\ Rollback(r)
    /\ UNCHANGED <<rows, queue, saves>>

Step(r) ==
    \/ CountBefore(r) \/ LockSection(r) \/ ReadLog(r) \/ CountLogs(r) \/ Upsert(r)
    \/ Share(r) \/ Activity(r) \/ Lesson(r) \/ AwardFirst(r)
    \/ ReadStats(r) \/ ReadEarned(r) \/ Award(r) \/ Commit(r)
    \/ QueueSection(r) \/ QueueLesson(r)
    \/ CountSections(r) \/ Existing(r) \/ Complete(r) \/ CountCourse(r) \/ Ack(r)

(* Bound: with its saves used up, an instance may come to rest. *)
Rest ==
    /\ saves = MaxSaves /\ \A r \in Slot : At(r, "idle")
    /\ \A u \in User : queue[u].section = 0 /\ queue[u].lesson = 0
    /\ UNCHANGED vars

Next ==
    \/ Rest
    \/ \E r \in Slot :
         \/ Step(r) \/ Redeliver(r) \/ Abort(r) \/ Victim(r)
         \/ \E u \in User :
              \/ \E s \in Section, done \in BOOLEAN, rate \in Level \cup {NoLevel} :
                   StartSave(r, u, s, done, rate)
              \/ \E kind \in {"section", "lesson"} : TakeJob(r, u, kind)

Spec == Init /\ [][Next]_vars

(* A statement is run once it need not wait, and Postgres wakes those that
   wait for a lock in turn: none is passed over for ever (strong fairness).
   Deadlocks are resolved. *)
Fairness == \A r \in Slot : SF_vars(Step(r)) /\ WF_vars(Victim(r))
FairSpec == Spec /\ Fairness

-----------------------------------------------------------------------------
(* Properties *)

(* A section's difficulty counters add up to the users who rated it: first
   ratings and changed ratings that race, of one user or several, are never
   counted twice or lost (the FOR UPDATE in saveSectionProgress). *)
RatersCounted ==
    \A s \in Section : FoldFunction(+, 0, tally[s])
                       = Cardinality({u \in User : log[<<u, s>>].rate # NoLevel})

(* However often the lesson's job is queued, retried or run by two workers at
   once, a completed course is counted exactly once (handleLessonCompleted). *)
CourseCountedOnce ==
    \A u \in User : stats[u].courses = IF u \in course THEN 1 ELSE 0

(* A badge and the fact it stands for are committed together: whoever has
   begun, or completed a lesson or a course, has the badge, even when saves
   and workers race for it (saveSectionProgress, checkStatBadges). *)
BadgesCurrent ==
    \A u \in User :
      /\ "first_start" \in badge[u] <=> \E s \in Section : log[<<u, s>>].there
      /\ "lesson_first" \in badge[u] <=> stats[u].lessons >= 1
      /\ "course_1" \in badge[u] <=> stats[u].courses >= 1

(* Every transaction ends, although a save that rates and one that does not
   can block each other over the section's row and its log row. *)
TransactionsEnd == \A r \in Slot : []<> At(r, "idle")

(* A duplicate badge is ignored (achievement.service.ts: "uk_user_badge 충돌 시
   무시"): it does not undo the save that met it. *)
ConflictIgnored == \A r \in Slot : ~ tx[r].broken

(* The counters of each level move with the ratings (sections.controller.ts:
   a rating is saved and the totals are updated with it). *)
RatingsTallied ==
    \A s \in Section, l \in Level :
      tally[s][l] = Cardinality({u \in User : log[<<u, s>>].rate = l})
=============================================================================
