------------------------------ MODULE Activity ------------------------------
(***************************************************************************)
(* Daily activity of one user: the part of saveSectionProgress that books  *)
(* study time on the user's local day, decides whether the day's goal is   *)
(* reached and keeps the cached streak (log.service.ts), and what the      *)
(* dashboard and the home screen show of it.                               *)
(*                                                                         *)
(* As in Progress a slot holds one transaction; what it writes is locked   *)
(* until its end and applied at Commit.  Days and months have no names: a  *)
(* local day is a number, a time zone an offset in ticks of the clock.     *)
(***************************************************************************)
EXTENDS Integers, FiniteSets, FiniteSetsExt

CONSTANTS
    Slot,        \* transactions in flight
    Zone,        \* offsets of the time zones, in ticks
    Goal,        \* daily goals in minutes, 0 for none
    Stay,        \* seconds a save reports
    Minute,      \* seconds in a minute
    DayLen,      \* ticks in a day
    WeekLen,     \* days in a week
    StreakRows,  \* rows a streak looks at (take: 366)
    StreakGoal,  \* days the streak badge asks for
    MaxTime,     \* bound on the clock
    MaxSaves     \* bound on the saves

ASSUME ActivityAssumption ==
    /\ Zone \subseteq Nat /\ Zone # {} /\ IsFiniteSet(Zone)
    /\ Goal \subseteq Nat /\ Goal # {} /\ Stay \subseteq Nat \ {0}
    /\ Minute \in Nat \ {0} /\ DayLen \in Nat \ {0} /\ WeekLen \in Nat \ {0}
    /\ StreakRows \in Nat \ {0} /\ StreakGoal \in Nat \ {0}
    /\ MaxTime \in Nat /\ MaxSaves \in Nat

VARIABLES
    clock,     \* server time
    settings,  \* users: timezone, dailyGoalMin
    day,       \* user_daily_activities: there, studySeconds, snapshot, goalAchieved
    stats,     \* user_stats: totalStudyMin, currentStreak, maxStreak, lastAttendanceDate
    badge,     \* the streak badge is earned
    tx,        \* the transactions
    saves,     \* saves begun
    plain      \* ghost: settings kept, and no day booked after a later one

vars == <<clock, settings, day, stats, badge, tx, saves, plain>>

LocalDay(t, zone) == (t + zone) \div DayLen
Day == {LocalDay(t, z) : t \in 0..MaxTime, z \in Zone}
NoDay == -1

Settings == [zone : Zone, goal : Goal]
DayRow == [there : BOOLEAN, secs : Nat, snap : Nat, hit : BOOLEAN]
NoRow  == [there |-> FALSE, secs |-> 0, snap |-> 0, hit |-> FALSE]
Stats  == [total : Int, streak : 0..StreakRows, max : 0..StreakRows, last : Day \cup {NoDay}]

Tx == [pc   : {"idle", "existing", "upsert", "minutes", "latest", "expire", "rows",
               "readStats", "setStreak", "award", "commit"},
       stay : Nat,
       set  : Settings,           \* read before the transaction
       day  : Day \cup {NoDay},
       old  : Nat,                \* the snapshot found, 0 for none
       row  : DayRow,             \* the day's row as this transaction leaves it
       mins : Int,                \* added to totalStudyMin
       to   : 0..StreakRows \cup {NoDay},  \* currentStreak to write, if any
       max  : 0..StreakRows,      \* maxStreak read, then to write
       due  : BOOLEAN,            \* the badge will be created
       locks : SUBSET {"day", "stats"}]

AnySettings == CHOOSE set \in Settings : TRUE
Idle == [pc |-> "idle", stay |-> 0, set |-> AnySettings, day |-> NoDay, old |-> 0,
         row |-> NoRow, mins |-> 0, to |-> NoDay, max |-> 0, due |-> FALSE, locks |-> {}]

TypeOK ==
    /\ clock \in 0..MaxTime /\ settings \in Settings
    /\ day \in [Day -> DayRow] /\ stats \in Stats /\ badge \in BOOLEAN
    /\ tx \in [Slot -> Tx] /\ saves \in 0..MaxSaves /\ plain \in BOOLEAN

Init ==
    /\ clock = 0 /\ settings \in Settings
    /\ day = [d \in Day |-> NoRow]
    /\ stats = [total |-> 0, streak |-> 0, max |-> 0, last |-> NoDay]
    /\ badge = FALSE /\ plain = TRUE
    /\ tx = [r \in Slot |-> Idle] /\ saves = 0

-----------------------------------------------------------------------------
At(r, pc) == tx[r].pc = pc
Become(r, t) == tx' = [tx EXCEPT ![r] = t]
Rollback(r) == Become(r, Idle)

database == <<settings, day, stats, badge>>
Achieved == {d \in Day : day[d].hit}

(* What a SELECT of this transaction finds achieved. *)
Seen(r) == IF tx[r].row.hit THEN Achieved \cup {tx[r].day} ELSE Achieved

(* n days, at most StreakRows, end at d without a gap: the loops of
   recalculateGoalStreak and currentGoalStreakFromDates. *)
IsStreak(S, d, n) == /\ n \in 0..StreakRows
                     /\ \A i \in 0..(n - 1) : d - i \in S
                     /\ n = StreakRows \/ d - n \notin S

LockedBy(r, lock) == {q \in Slot \ {r} : lock \in tx[q].locks}
DayFree(r)   == \A q \in LockedBy(r, "day") : tx[q].day # tx[r].day
StatsFree(r) == LockedBy(r, "stats") = {}

-----------------------------------------------------------------------------
(* The settings are read with the section, before the transaction. *)
StartSave(r, stay) ==
    /\ At(r, "idle") /\ saves < MaxSaves
    /\ Become(r, [Idle EXCEPT !.pc = "existing", !.stay = stay, !.set = settings])
    /\ saves' = saves + 1
    /\ UNCHANGED <<clock, database, plain>>

(* The local day is fixed here; so is the snapshot that an update keeps. *)
FindExisting(r) ==
    LET d == LocalDay(clock, tx[r].set.zone) IN
    /\ At(r, "existing")
    /\ Become(r, [tx[r] EXCEPT !.pc = "upsert", !.day = d, !.old = day[d].snap])
    /\ UNCHANGED <<clock, database, saves, plain>>

AddedMinutes(secs, stay) == (secs \div Minute) - ((secs - stay) \div Minute)

GoalOpen(row) == row.snap # 0 /\ row.secs >= row.snap * Minute /\ ~ row.hit
AfterMinutes(row) == IF GoalOpen(row) THEN "rows" ELSE "latest"

(* Mutant: the snapshot is kept, the seconds are written as read. *)
UpsertAbsolute(r) ==
    LET t   == tx[r]
        row == [there |-> TRUE, secs |-> day[t.day].secs + t.stay,
                snap |-> IF t.old # 0 THEN t.old ELSE t.set.goal, hit |-> day[t.day].hit]
        add == t.stay \div Minute IN
    /\ At(r, "upsert") /\ DayFree(r)
    /\ Become(r, [t EXCEPT !.row = row, !.mins = add, !.locks = {"day"},
                           !.pc = IF add > 0 THEN "minutes" ELSE AfterMinutes(row)])
    /\ UNCHANGED <<clock, database, saves, plain>>

(* INSERT ... ON CONFLICT DO UPDATE, which waits for the day's row and
   returns it as it now is. *)
Upsert(r) ==
    LET t   == tx[r]
        row == [there |-> TRUE, secs |-> day[t.day].secs + t.stay,
                snap |-> IF t.old # 0 THEN t.old ELSE t.set.goal, hit |-> day[t.day].hit]
        add == AddedMinutes(row.secs, t.stay) IN
    /\ At(r, "upsert") /\ DayFree(r)
    /\ Become(r, [t EXCEPT !.row = row, !.mins = add, !.locks = {"day"},
                           !.pc = IF add > 0 THEN "minutes" ELSE AfterMinutes(row)])
    /\ UNCHANGED <<clock, database, saves, plain>>

(* Mutant: minutes are added after the transaction, without its lock. *)
AddMinutesUnlocked(r) ==
    /\ At(r, "minutes")
    /\ Become(r, [tx[r] EXCEPT !.pc = AfterMinutes(tx[r].row)])
    /\ UNCHANGED <<clock, database, saves, plain>>

(* A goal is first reached on a whole minute, so whoever reaches it holds the
   statistics from here on. *)
AddMinutes(r) ==
    /\ At(r, "minutes") /\ StatsFree(r)
    /\ Become(r, [tx[r] EXCEPT !.pc = AfterMinutes(tx[r].row), !.locks = @ \cup {"stats"}])
    /\ UNCHANGED <<clock, database, saves, plain>>

(* expireCachedGoalStreak: a last achieved day before yesterday ends it. *)
FindLatest(r) ==
    LET recent == \E d \in Seen(r) : d <= tx[r].day /\ tx[r].day - d <= 1 IN
    /\ At(r, "latest")
    /\ Become(r, [tx[r] EXCEPT !.pc = IF recent THEN "award" ELSE "expire"])
    /\ UNCHANGED <<clock, database, saves, plain>>

Expire(r) ==
    /\ At(r, "expire")
    /\ IF stats.streak = 0
       THEN Become(r, [tx[r] EXCEPT !.pc = "award"])
       ELSE /\ StatsFree(r)
            /\ Become(r, [tx[r] EXCEPT !.pc = "award", !.to = 0, !.max = stats.max,
                                       !.locks = @ \cup {"stats"}])
    /\ UNCHANGED <<clock, database, saves, plain>>

(* Mutant: a day that was missed does not end the run. *)
FindRowsGaps(r) ==
    LET hit == Achieved \cup {tx[r].day} IN
    /\ At(r, "rows")
    /\ Become(r, [tx[r] EXCEPT !.pc = "readStats", !.row.hit = TRUE,
                               !.to = Cardinality({d \in hit : d <= tx[r].day})])
    /\ UNCHANGED <<clock, database, saves, plain>>

(* The claim, of a row this transaction holds, then recalculateGoalStreak. *)
FindRows(r) ==
    /\ At(r, "rows")
    /\ \E n \in 0..StreakRows :
         /\ IsStreak(Achieved \cup {tx[r].day}, tx[r].day, n)
         /\ Become(r, [tx[r] EXCEPT !.pc = "readStats", !.row.hit = TRUE, !.to = n])
    /\ UNCHANGED <<clock, database, saves, plain>>

ReadStats(r) ==
    /\ At(r, "readStats")
    /\ Become(r, [tx[r] EXCEPT !.pc = "setStreak", !.max = stats.max])
    /\ UNCHANGED <<clock, database, saves, plain>>

SetStreak(r) ==
    LET t == tx[r] IN
    /\ At(r, "setStreak") /\ StatsFree(r)
    /\ Become(r, [t EXCEPT !.pc = "award", !.max = IF t.to > @ THEN t.to ELSE @,
                           !.locks = @ \cup {"stats"}])
    /\ UNCHANGED <<clock, database, saves, plain>>

(* checkStatBadges: the streak as this transaction sees it. *)
OwnStreak(r) == IF tx[r].to = NoDay THEN stats.streak ELSE tx[r].to
Award(r) ==
    /\ At(r, "award")
    /\ Become(r, [tx[r] EXCEPT !.pc = "commit",
                               !.due = OwnStreak(r) >= StreakGoal /\ ~ badge])
    /\ UNCHANGED <<clock, database, saves, plain>>

(* A badge another transaction created meanwhile ends this one (see Progress). *)
Commit(r) ==
    LET t == tx[r] IN
    /\ At(r, "commit")
    /\ IF t.due /\ badge
       THEN UNCHANGED <<database, plain>>
       ELSE /\ day' = [day EXCEPT ![t.day] = t.row]
            /\ stats' = IF t.to = NoDay THEN [stats EXCEPT !.total = @ + t.mins]
                        ELSE [total |-> stats.total + t.mins, streak |-> t.to, max |-> t.max,
                              last |-> IF t.to = 0 THEN stats.last ELSE t.day]
            /\ badge' = (badge \/ t.due)
            /\ plain' = (plain /\ \A d \in Day : day[d].there => d <= t.day)
            /\ UNCHANGED settings
    /\ Rollback(r)
    /\ UNCHANGED <<clock, saves>>

(* The process stops, the connection is lost, the transaction times out. *)
Abort(r) ==
    /\ ~ At(r, "idle")
    /\ Rollback(r)
    /\ UNCHANGED <<clock, database, saves, plain>>

(* patchMe of goal or time zone. *)
ChangeSettings(set) ==
    /\ set # settings
    /\ settings' = set /\ plain' = FALSE
    /\ UNCHANGED <<clock, day, stats, badge, tx, saves>>

Tick ==
    /\ clock < MaxTime /\ clock' = clock + 1
    /\ UNCHANGED <<database, tx, saves, plain>>

Step(r) ==
    \/ FindExisting(r) \/ Upsert(r) \/ AddMinutes(r) \/ FindLatest(r) \/ Expire(r)
    \/ FindRows(r) \/ ReadStats(r) \/ SetStreak(r) \/ Award(r) \/ Commit(r)

Next ==
    \/ Tick \/ \E set \in Settings : ChangeSettings(set)
    \/ \E r \in Slot : Step(r) \/ Abort(r) \/ \E stay \in Stay : StartSave(r, stay)

Spec == Init /\ [][Next]_vars

-----------------------------------------------------------------------------
(* What the user is shown: getDashboard and getResume. *)
Today == LocalDay(clock, settings.zone)
(* Mutant: every achieved day counts. *)
ShownDays == Cardinality(Achieved)

ShownStreak == LET from == IF Today \in Achieved THEN Today ELSE Today - 1
               IN CHOOSE n \in 0..StreakRows : IsStreak(Achieved, from, n)
Dashboard == [current |-> ShownStreak, best |-> stats.max, total |-> stats.total]

Secs(d) == IF d \in Day THEN day[d].secs ELSE 0
HomeResume ==
    LET monday == Today - (Today % WeekLen)
        week   == monday..(monday + WeekLen - 1)
    IN [dailyStreak      |-> ShownStreak,
        todayMin         |-> Secs(Today) \div Minute,
        weekMin          |-> MapThenSumSet(Secs, week) \div Minute,
        weeklyAttendance |-> [i \in 0..(WeekLen - 1) |-> monday + i \in Achieved]]

-----------------------------------------------------------------------------
(* Properties *)

(* The total counts every whole minute of every day once, however saves of
   the same day interleave or abort (recordDailyActivity). *)
Minutes(d) == day[d].secs \div Minute
MinutesCounted == stats.total = MapThenSumSet(Minutes, Day)

(* No streak is made up: the best streak, and the badge, stand for days
   achieved in a row, whatever the user changes meanwhile. *)
Reached(n) == \E d \in Day \cup {NoDay} : \A i \in 0..(n - 1) : d - i \in Achieved
StreakDeserved ==
    /\ stats.streak <= stats.max /\ Reached(stats.max)
    /\ badge => Reached(StreakGoal)

(* No streak is lost while days are booked in order under the same settings:
   the best one covers every run, and the cached one is expired or the run
   that ends at lastAttendanceDate.  Two claims at midnight rely on the lock
   that the minutes took. *)
BestStreakKept ==
    plain => \A n \in 0..StreakRows :
      /\ \A d \in Achieved : IsStreak(Achieved, d, n) => n <= stats.max
      /\ stats.last # NoDay /\ IsStreak(Achieved, stats.last, n) => stats.streak \in {0, n}

(* The two screens agree: a streak shown is never above the best one, and the
   week's minutes, of summed seconds, exceed the total, of summed minutes, by
   less than one a day (getDashboard, getResume). *)
ScreensAgree ==
    /\ plain => Dashboard.current <= Dashboard.best
    /\ HomeResume.todayMin <= HomeResume.weekMin
    /\ HomeResume.weekMin < Dashboard.total + WeekLen
    /\ HomeResume.weeklyAttendance[Today % WeekLen] => HomeResume.dailyStreak > 0
=============================================================================
