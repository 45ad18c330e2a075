--------------------------- MODULE ActivityProofs ---------------------------
(***************************************************************************)
(* Proofs about Activity: type correctness, that no streak is made up and  *)
(* none is lost, that every minute is counted once, and that the two       *)
(* screens agree, for any number of transactions, days, goals and zones.   *)
(***************************************************************************)
EXTENDS Activity, FiniteSetTheorems, WellFoundedInduction, TLAPS

(* What a transaction with record t finds achieved, and a run of n days in it. *)
SeenBy(t) == IF t.row.hit THEN Achieved \cup {t.day} ELSE Achieved
Run(S, n) == \E d \in Day \cup {NoDay} : \A i \in 0..(n - 1) : d - i \in S

Early == {"idle", "existing", "upsert"}

(* From the upsert on a transaction holds its day, whose row it never takes
   the goal from; what it will write of the streak is a run of what it sees. *)
TxOK(t) ==
    /\ t.pc # "idle" => t.pc = "existing" \/ t.day \in Day
    /\ t.pc \in Early => t.locks = {} /\ t.to = NoDay /\ t.max = 0
    /\ t.pc \notin Early => /\ "day" \in t.locks
                            /\ day[t.day].hit => t.row.hit
    /\ t.pc \in {"minutes", "latest", "expire", "rows"} => t.to = NoDay /\ t.max = 0
    /\ t.pc \in {"readStats", "setStreak"} => t.to # NoDay /\ Run(SeenBy(t), t.to)
    /\ t.pc \in {"setStreak", "award", "commit"} => Run(SeenBy(t), t.max)
    /\ t.pc \in {"award", "commit"} /\ t.to # NoDay => t.to <= t.max
    /\ t.pc = "commit" /\ t.due => Run(SeenBy(t), StreakGoal)

Exclusive ==
    \A q, r \in Slot : q # r /\ "day" \in tx[q].locks /\ "day" \in tx[r].locks =>
                         tx[q].day # tx[r].day

Inv == TypeOK /\ Exclusive /\ (\A r \in Slot : TxOK(tx[r])) /\ StreakDeserved

-----------------------------------------------------------------------------
LEMMA IdleOK == Idle \in Tx /\ Idle.pc = "idle" /\ Idle.locks = {} /\ TxOK(Idle)
<1>1. AnySettings \in Settings
  <2>1. PICK z \in Zone : TRUE  BY ActivityAssumption
  <2>2. PICK g \in Goal : TRUE  BY ActivityAssumption
  <2>3. [zone |-> z, goal |-> g] \in Settings  BY <2>1, <2>2 DEF Settings
  <2> QED  BY <2>3 DEF AnySettings
<1>2. Idle \in Tx  BY <1>1, ActivityAssumption DEF Idle, Tx, NoRow, DayRow, NoDay
<1> QED  BY <1>2 DEF Idle, TxOK, Early

LEMMA RunLess ==
  ASSUME NEW S, NEW T, S \subseteq T, NEW n \in Nat, NEW m \in Nat, m <= n, Run(S, n)
  PROVE  Run(T, m)
<1>1. PICK d \in Day \cup {NoDay} : \A i \in 0..(n - 1) : d - i \in S  BY DEF Run
<1>2. \A i \in 0..(m - 1) : i \in 0..(n - 1)  OBVIOUS
<1> QED  BY <1>1, <1>2 DEF Run

LEMMA RunZero == ASSUME NEW S PROVE Run(S, 0)
BY DEF Run, NoDay

LEMMA Deserved == StreakDeserved <=> /\ stats.streak <= stats.max
                                     /\ Run(Achieved, stats.max)
                                     /\ badge => Run(Achieved, StreakGoal)
BY DEF StreakDeserved, Reached, Run

LEMMA InitInv == Init => Inv
<1> SUFFICES ASSUME Init PROVE Inv  OBVIOUS
<1>1. TypeOK
  <2>1. NoRow \in DayRow  BY DEF NoRow, DayRow
  <2>2. stats \in Stats  BY ActivityAssumption DEF Init, Stats
  <2>3. tx \in [Slot -> Tx]  BY IdleOK DEF Init
  <2>4. day \in [Day -> DayRow]  BY <2>1 DEF Init
  <2>5. clock \in 0..MaxTime /\ saves \in 0..MaxSaves  BY ActivityAssumption DEF Init
  <2>6. settings \in Settings /\ badge \in BOOLEAN /\ plain \in BOOLEAN  BY DEF Init
  <2> QED  BY <2>2, <2>3, <2>4, <2>5, <2>6 DEF TypeOK
<1>2. \A r \in Slot : tx[r] = Idle  BY DEF Init
<1>3. StreakDeserved
  BY RunZero, Deserved DEF Init
<1> QED  BY <1>1, <1>2, <1>3, IdleOK DEF Inv, Exclusive

-----------------------------------------------------------------------------
(* A step that leaves the database alone keeps the invariant if the record
   it gives its transaction is right. *)
LEMMA LocalStep ==
  ASSUME Inv, NEW r \in Slot, NEW t, t \in Tx, TxOK(t), Become(r, t),
         UNCHANGED <<database, clock, plain>>, saves' \in 0..MaxSaves,
         "day" \in t.locks => \/ "day" \in tx[r].locks /\ tx[r].day = t.day
                             \/ \A q \in Slot \ {r} :
                                  "day" \in tx[q].locks => tx[q].day # t.day
  PROVE  Inv'
<1>1. tx' = [tx EXCEPT ![r] = t] /\ tx \in [Slot -> Tx]  BY DEF Become, Inv, TypeOK
<1>2. tx'[r] = t /\ \A q \in Slot \ {r} : tx'[q] = tx[q]  BY <1>1
<1>3. TypeOK'  BY <1>1 DEF Inv, TypeOK, database
<1>4. Exclusive'  BY <1>2 DEF Inv, Exclusive
<1>5. day' = day  BY DEF database
<1>6. \A u : TxOK(u)' <=> TxOK(u)
  BY <1>5 DEF TxOK, SeenBy, Achieved, Run
<1>7. \A q \in Slot : TxOK(tx[q])'  BY <1>2, <1>6 DEF Inv
<1>8. StreakDeserved'  BY DEF Inv, StreakDeserved, Reached, Achieved, database
<1> QED  BY <1>3, <1>4, <1>7, <1>8 DEF Inv
LEMMA EarlySteps ==
  ASSUME Inv, NEW r \in Slot, FindExisting(r) \/ Upsert(r) PROVE Inv'
<1> DEFINE t == tx[r]
<1>0. t \in Tx /\ TxOK(t)  BY DEF Inv, TypeOK
<1>d. \A d \in Day : day[d] \in DayRow  BY DEF Inv, TypeOK
<1>s. saves \in 0..MaxSaves  BY DEF Inv, TypeOK
<1>1. CASE FindExisting(r)
  <2> DEFINE d == LocalDay(clock, t.set.zone)
             u == [t EXCEPT !.pc = "upsert", !.day = d, !.old = day[d].snap]
  <2>1. d \in Day  BY <1>0 DEF Inv, TypeOK, Tx, Settings, Day
  <2>2. day[d].snap \in Nat  BY <2>1, <1>d DEF DayRow
  <2>3. t.pc = "existing" /\ Become(r, u)  BY <1>1 DEF FindExisting, At
  <2>4. UNCHANGED <<database, clock, plain>> /\ saves' = saves  BY <1>1 DEF FindExisting
  <2> HIDE DEF d
  <2>5. u \in Tx /\ u.pc = "upsert" /\ u.day \in Day /\ u.locks = t.locks /\ u.to = t.to
        /\ u.max = t.max
    BY <1>0, <2>1, <2>2 DEF Tx
  <2>6. TxOK(u) /\ u.locks = {}  BY <1>0, <2>3, <2>5 DEF TxOK, Early
  <2> HIDE DEF u
  <2> QED  BY <1>s, <2>3, <2>4, <2>5, <2>6, LocalStep
<1>2. CASE Upsert(r)
  <2> DEFINE row == [there |-> TRUE, secs |-> day[t.day].secs + t.stay,
                     snap |-> IF t.old # 0 THEN t.old ELSE t.set.goal,
                     hit |-> day[t.day].hit]
             add == AddedMinutes(row.secs, t.stay)
             pc  == IF add > 0 THEN "minutes" ELSE AfterMinutes(row)
             u   == [t EXCEPT !.row = row, !.mins = add, !.locks = {"day"}, !.pc = pc]
  <2>1. t.pc = "upsert" /\ Become(r, u) /\ DayFree(r)  BY <1>2 DEF Upsert, At
  <2>2. t.day \in Day  BY <1>0, <2>1 DEF TxOK
  <2>3. row \in DayRow /\ row.hit = day[t.day].hit
    <3>1. day[t.day] \in DayRow  BY <1>d, <2>2
    <3>2. t.stay \in Nat /\ t.old \in Nat /\ t.set.goal \in Goal  BY <1>0 DEF Tx, Settings
    <3>3. t.set.goal \in Nat  BY <3>2, ActivityAssumption
    <3>4. row.secs \in Nat  BY <3>1, <3>2 DEF DayRow
    <3>5. row.snap \in Nat /\ row.hit \in BOOLEAN  BY <3>1, <3>2, <3>3 DEF DayRow
    <3> QED  BY <3>4, <3>5 DEF DayRow
  <2>4. add \in Int  BY <1>0, <2>3, ActivityAssumption DEF AddedMinutes, DayRow, Tx
  <2>5. pc \in {"minutes", "rows", "latest"}  BY DEF AfterMinutes
  <2>6. UNCHANGED <<database, clock, plain>> /\ saves' = saves  BY <1>2 DEF Upsert
  <2> HIDE DEF row, add, pc
  <2>7. u \in Tx /\ u.pc = pc /\ u.day = t.day /\ u.locks = {"day"} /\ u.row = row
        /\ u.to = t.to /\ u.max = t.max
    BY <1>0, <2>3, <2>4, <2>5 DEF Tx
  <2>8. TxOK(u)  BY <1>0, <2>1, <2>2, <2>3, <2>5, <2>7 DEF TxOK, Early
  <2>9. \A q \in Slot \ {r} : "day" \in tx[q].locks => tx[q].day # u.day
    BY <2>1, <2>7 DEF DayFree, LockedBy
  <2> HIDE DEF u
  <2> QED  BY <1>s, <2>1, <2>6, <2>7, <2>8, <2>9, LocalStep
<1> QED  BY <1>1, <1>2

(* The rest of a transaction keeps its day and its row, but for the claim. *)
LEMMA LateStep ==
  ASSUME Inv, NEW r \in Slot, NEW u, u \in Tx, tx[r].pc \notin Early, u.pc \notin Early,
         u.day = tx[r].day, u.row = tx[r].row \/ u.row.hit, tx[r].locks \subseteq u.locks,
         u.pc \in {"minutes", "latest", "expire", "rows"} => u.to = NoDay /\ u.max = 0,
         u.pc \in {"readStats", "setStreak"} => u.to # NoDay /\ Run(SeenBy(u), u.to),
         u.pc \in {"setStreak", "award", "commit"} => Run(SeenBy(u), u.max),
         u.pc \in {"award", "commit"} /\ u.to # NoDay => u.to <= u.max,
         u.pc = "commit" /\ u.due => Run(SeenBy(u), StreakGoal),
         Become(r, u), UNCHANGED <<clock, database, saves, plain>>
  PROVE  Inv'
<1>1. TxOK(tx[r]) /\ tx[r].day \in Day /\ "day" \in tx[r].locks /\ saves \in 0..MaxSaves
  BY DEF Inv, TypeOK, TxOK, Early
<1>2. day[u.day].hit => u.row.hit  BY <1>1 DEF TxOK
<1>3. TxOK(u)  BY <1>1, <1>2 DEF TxOK, Early
<1> QED  BY <1>1, <1>3, LocalStep

LEMMA LateSteps ==
  ASSUME Inv, NEW r \in Slot,
         \/ AddMinutes(r) \/ FindLatest(r) \/ Expire(r) \/ FindRows(r) \/ ReadStats(r)
         \/ SetStreak(r) \/ Award(r)
  PROVE  Inv'
<1> DEFINE t == tx[r]
<1>0. t \in Tx /\ TxOK(t)  BY DEF Inv, TypeOK
<1>s. stats \in Stats /\ StreakRows \in Nat /\ StreakGoal \in Nat
  BY ActivityAssumption DEF Inv, TypeOK
<1>h. stats.streak <= stats.max /\ Run(Achieved, stats.max)  BY Deserved DEF Inv
<1>a. Achieved \subseteq SeenBy(t)  BY DEF SeenBy
<1>m. Run(SeenBy(t), stats.max)
  BY <1>s, <1>h, <1>a, RunLess DEF Stats
<1>1. CASE AddMinutes(r)
  <2> DEFINE u == [t EXCEPT !.pc = AfterMinutes(t.row), !.locks = @ \cup {"stats"}]
  <2>1. t.pc = "minutes" /\ Become(r, u) /\ UNCHANGED <<clock, database, saves, plain>>
    BY <1>1 DEF AddMinutes, At
  <2>2. AfterMinutes(t.row) \in {"rows", "latest"}  BY DEF AfterMinutes
  <2>3. u \in Tx /\ u.pc \in {"rows", "latest"} /\ u.day = t.day /\ u.row = t.row
        /\ t.locks \subseteq u.locks /\ u.to = t.to /\ u.max = t.max
    BY <1>0, <2>2 DEF Tx
  <2>4. t.to = NoDay /\ t.max = 0  BY <1>0, <2>1 DEF TxOK
  <2> HIDE DEF u
  <2> QED  BY <2>1, <2>3, <2>4, LateStep DEF Early
<1>2. CASE FindLatest(r)
  <2>1. PICK next \in {"award", "expire"} :
          Become(r, [t EXCEPT !.pc = next])
    BY <1>2 DEF FindLatest
  <2> DEFINE u == [t EXCEPT !.pc = next]
  <2>2. t.pc = "latest" /\ UNCHANGED <<clock, database, saves, plain>>
    BY <1>2 DEF FindLatest, At
  <2>3. u \in Tx /\ u.pc = next /\ u.day = t.day /\ u.row = t.row
        /\ t.locks \subseteq u.locks /\ u.to = t.to /\ u.max = t.max
    BY <1>0 DEF Tx
  <2>4. t.to = NoDay /\ t.max = 0  BY <1>0, <2>2 DEF TxOK
  <2>5. Run(SeenBy(u), u.max)  BY <2>3, <2>4, RunZero
  <2> HIDE DEF u
  <2> QED  BY <2>1, <2>2, <2>3, <2>4, <2>5, LateStep DEF u, Early
<1>3. CASE Expire(r)
  <2>1. t.pc = "expire" /\ UNCHANGED <<clock, database, saves, plain>>
    BY <1>3 DEF Expire, At
  <2>2. t.to = NoDay /\ t.max = 0  BY <1>0, <2>1 DEF TxOK
  <2>3. CASE stats.streak = 0
    <3> DEFINE u == [t EXCEPT !.pc = "award"]
    <3>1. Become(r, u)  BY <1>3, <2>3 DEF Expire
    <3>2. u \in Tx /\ u.pc = "award" /\ u.day = t.day /\ u.row = t.row
          /\ t.locks \subseteq u.locks /\ u.to = t.to /\ u.max = t.max
      BY <1>0 DEF Tx
    <3>3. Run(SeenBy(u), u.max)  BY <2>2, <3>2, RunZero
    <3> HIDE DEF u
    <3> QED  BY <2>1, <2>2, <3>1, <3>2, <3>3, LateStep DEF Early
  <2>4. CASE stats.streak # 0
    <3> DEFINE u == [t EXCEPT !.pc = "award", !.to = 0, !.max = stats.max,
                              !.locks = @ \cup {"stats"}]
    <3>1. Become(r, u)  BY <1>3, <2>4 DEF Expire
    <3>2. u \in Tx /\ u.pc = "award" /\ u.day = t.day /\ u.row = t.row
          /\ t.locks \subseteq u.locks /\ u.to = 0 /\ u.max = stats.max
      <4>1. stats.max \in 0..StreakRows /\ 0 \in 0..StreakRows  BY <1>s DEF Stats
      <4>2. t.locks \cup {"stats"} \in SUBSET {"day", "stats"}  BY <1>0 DEF Tx
      <4> QED  BY <1>0, <4>1, <4>2 DEF Tx
    <3>3. SeenBy(u) = SeenBy(t)  BY <3>2 DEF SeenBy
    <3>4. Run(SeenBy(u), u.max) /\ u.to <= u.max  BY <1>s, <1>m, <3>2, <3>3 DEF Stats
    <3> HIDE DEF u
    <3> QED  BY <2>1, <3>1, <3>2, <3>4, LateStep DEF Early
  <2> QED  BY <2>3, <2>4
<1>4. CASE FindRows(r)
  <2>1. PICK n \in 0..StreakRows :
          /\ IsStreak(Achieved \cup {t.day}, t.day, n)
          /\ Become(r, [t EXCEPT !.pc = "readStats", !.row.hit = TRUE, !.to = n])
    BY <1>4 DEF FindRows
  <2> DEFINE u == [t EXCEPT !.pc = "readStats", !.row.hit = TRUE, !.to = n]
  <2>2. t.pc = "rows" /\ UNCHANGED <<clock, database, saves, plain>>
    BY <1>4 DEF FindRows, At
  <2>3. u \in Tx /\ u.pc = "readStats" /\ u.day = t.day /\ u.row.hit
        /\ t.locks \subseteq u.locks /\ u.to = n
    BY <1>0 DEF Tx, DayRow
  <2>4. t.day \in Day /\ n # NoDay  BY <1>0, <1>s, <2>2 DEF TxOK, NoDay
  <2>5. SeenBy(u) = Achieved \cup {t.day}  BY <2>3 DEF SeenBy
  <2>6. Run(SeenBy(u), n)  BY <2>1, <2>4, <2>5 DEF IsStreak, Run
  <2>7. Become(r, u)  BY <2>1
  <2> HIDE DEF u
  <2> QED  BY <2>2, <2>3, <2>4, <2>6, <2>7, LateStep DEF Early
<1>5. CASE ReadStats(r)
  <2> DEFINE u == [t EXCEPT !.pc = "setStreak", !.max = stats.max]
  <2>1. t.pc = "readStats" /\ Become(r, u) /\ UNCHANGED <<clock, database, saves, plain>>
    BY <1>5 DEF ReadStats, At
  <2>2. u \in Tx /\ u.pc = "setStreak" /\ u.day = t.day /\ u.row = t.row
        /\ t.locks \subseteq u.locks /\ u.to = t.to /\ u.max = stats.max
    BY <1>0, <1>s DEF Tx, Stats
  <2>3. SeenBy(u) = SeenBy(t)  BY <2>2 DEF SeenBy
  <2>4. t.to # NoDay /\ Run(SeenBy(t), t.to)  BY <1>0, <2>1 DEF TxOK
  <2> HIDE DEF u
  <2> QED  BY <1>m, <2>1, <2>2, <2>3, <2>4, LateStep DEF Early
<1>6. CASE SetStreak(r)
  <2> DEFINE max == IF t.to > t.max THEN t.to ELSE t.max
             u   == [t EXCEPT !.pc = "award", !.max = max, !.locks = @ \cup {"stats"}]
  <2>1. t.pc = "setStreak" /\ Become(r, u) /\ UNCHANGED <<clock, database, saves, plain>>
    BY <1>6 DEF SetStreak, At
  <2>2. t.to # NoDay /\ Run(SeenBy(t), t.to) /\ Run(SeenBy(t), t.max)
    BY <1>0, <2>1 DEF TxOK
  <2>3. t.to \in 0..StreakRows /\ t.max \in 0..StreakRows  BY <1>0, <2>2 DEF Tx
  <2>4. max \in 0..StreakRows /\ t.to <= max /\ Run(SeenBy(t), max)
    BY <1>s, <2>2, <2>3
  <2> HIDE DEF max
  <2>5. u \in Tx /\ u.pc = "award" /\ u.day = t.day /\ u.row = t.row
        /\ t.locks \subseteq u.locks /\ u.to = t.to /\ u.max = max
    BY <1>0, <2>4 DEF Tx
  <2>6. SeenBy(u) = SeenBy(t)  BY <2>5 DEF SeenBy
  <2> HIDE DEF u
  <2> QED  BY <2>1, <2>4, <2>5, <2>6, LateStep DEF Early
<1>7. CASE Award(r)
  <2> DEFINE due == OwnStreak(r) >= StreakGoal /\ ~ badge
             u   == [t EXCEPT !.pc = "commit", !.due = due]
  <2>1. t.pc = "award" /\ Become(r, u) /\ UNCHANGED <<clock, database, saves, plain>>
    BY <1>7 DEF Award, At
  <2>2. Run(SeenBy(t), t.max) /\ (t.to # NoDay => t.to <= t.max)
    BY <1>0, <2>1 DEF TxOK
  <2>3. ASSUME due PROVE Run(SeenBy(t), StreakGoal)
    <3>1. CASE t.to = NoDay
      BY <1>s, <1>h, <1>m, <2>3, <3>1, RunLess DEF OwnStreak, Stats
    <3>2. CASE t.to # NoDay
      <4>1. t.to \in 0..StreakRows /\ t.max \in 0..StreakRows  BY <1>0, <3>2 DEF Tx
      <4>2. StreakGoal <= t.max  BY <1>s, <2>2, <2>3, <3>2, <4>1 DEF OwnStreak
      <4> QED  BY <1>s, <2>2, <4>1, <4>2, RunLess
    <3> QED  BY <3>1, <3>2
  <2>4. due \in BOOLEAN  OBVIOUS
  <2> HIDE DEF due
  <2>5. u \in Tx /\ u.pc = "commit" /\ u.day = t.day /\ u.row = t.row /\ u.due = due
        /\ t.locks \subseteq u.locks /\ u.to = t.to /\ u.max = t.max
    BY <1>0, <2>4 DEF Tx
  <2>6. SeenBy(u) = SeenBy(t)  BY <2>5 DEF SeenBy
  <2> HIDE DEF u
  <2> QED  BY <2>1, <2>2, <2>3, <2>5, <2>6, LateStep DEF Early
<1> QED  BY <1>1, <1>2, <1>3, <1>4, <1>5, <1>6, <1>7

(* A commit applies the row it locked: what it has seen is then achieved. *)
LEMMA CommitInv == ASSUME Inv, NEW r \in Slot, Commit(r) PROVE Inv'
<1> DEFINE t == tx[r]
<1>0. t \in Tx /\ TxOK(t) /\ t.pc = "commit"  BY DEF Inv, TypeOK, Commit, At
<1>1. tx' = [tx EXCEPT ![r] = Idle] /\ tx \in [Slot -> Tx]
  BY DEF Commit, Rollback, Become, Inv, TypeOK
<1>2. tx'[r] = Idle /\ \A q \in Slot \ {r} : tx'[q] = tx[q]  BY <1>1
<1>3. Exclusive'  BY <1>2, IdleOK DEF Inv, Exclusive
<1>4. clock' = clock /\ saves' = saves  BY DEF Commit
<1>5. CASE t.due /\ badge
  BY <1>5, <1>4, IdleOK, LocalStep DEF Commit, Rollback, Inv, TypeOK
<1>6. CASE ~ (t.due /\ badge)
  <2>1. t.day \in Day /\ "day" \in t.locks /\ (day[t.day].hit => t.row.hit)
    BY <1>0 DEF TxOK, Early
  <2>2. /\ day' = [day EXCEPT ![t.day] = t.row]
        /\ stats' = IF t.to = NoDay THEN [stats EXCEPT !.total = @ + t.mins]
                    ELSE [total |-> stats.total + t.mins, streak |-> t.to, max |-> t.max,
                          last |-> IF t.to = 0 THEN stats.last ELSE t.day]
        /\ badge' = (badge \/ t.due) /\ settings' = settings
        /\ plain' \in BOOLEAN
    BY <1>6 DEF Commit, Inv, TypeOK
  <2>3. stats \in Stats /\ t.row \in DayRow /\ t.mins \in Int /\ day \in [Day -> DayRow]
    BY <1>0 DEF Inv, TypeOK, Tx
  <2>4. Achieved' = SeenBy(t)
    BY <2>1, <2>2, <2>3 DEF Achieved, SeenBy
  <2>5. Achieved \subseteq Achieved'  BY <2>4 DEF SeenBy
  <2>6. stats' \in Stats
    <3>1. CASE t.to = NoDay
      BY <2>2, <2>3, <3>1 DEF Stats
    <3>2. CASE t.to # NoDay
      <4>1. t.to \in 0..StreakRows /\ t.max \in 0..StreakRows  BY <1>0, <3>2 DEF Tx
      <4>2. stats.total + t.mins \in Int  BY <2>3 DEF Stats
      <4>3. (IF t.to = 0 THEN stats.last ELSE t.day) \in Day \cup {NoDay}
        BY <2>1, <2>3 DEF Stats
      <4> QED  BY <2>2, <3>2, <4>1, <4>2, <4>3 DEF Stats
    <3> QED  BY <3>1, <3>2
  <2>7. day' \in [Day -> DayRow]  BY <2>1, <2>2, <2>3
  <2>8. badge' \in BOOLEAN  BY <1>0, <2>2 DEF Inv, TypeOK, Tx
  <2>9. tx' \in [Slot -> Tx]  BY <1>1, IdleOK
  <2>10. TypeOK'
    BY <1>4, <2>2, <2>6, <2>7, <2>8, <2>9 DEF Inv, TypeOK
  <2>11. \A S : \A n : Run(S, n)' <=> Run(S, n)  BY DEF Run
  <2>12. ASSUME NEW q \in Slot \ {r} PROVE TxOK(tx[q])'
    <3> DEFINE v == tx[q]
    <3>1. tx'[q] = v /\ v \in Tx /\ TxOK(v)  BY <1>2 DEF Inv, TypeOK
    <3>2. v.pc \notin Early => v.day # t.day /\ v.day \in Day
      BY <2>1, <3>1 DEF Inv, Exclusive, TxOK, Early
    <3>3. v.pc \notin Early => day'[v.day] = day[v.day]
      BY <2>2, <2>3, <3>2
    <3>4. PICK S : S = SeenBy(v)  OBVIOUS
    <3>5. PICK T : T = (IF v.row.hit THEN Achieved' \cup {v.day} ELSE Achieved')  OBVIOUS
    <3>6. S \subseteq T  BY <2>5, <3>4, <3>5 DEF SeenBy
    <3>7. \A n \in Nat : Run(S, n) => Run(T, n)  BY <3>6, RunLess
    <3>8. (v.to # NoDay => v.to \in Nat) /\ v.max \in Nat /\ StreakGoal \in Nat
      BY <3>1, ActivityAssumption DEF Tx
    <3>9. TxOK(tx[q])' <=>
            /\ v.pc # "idle" => v.pc = "existing" \/ v.day \in Day
            /\ v.pc \in Early => v.locks = {} /\ v.to = NoDay /\ v.max = 0
            /\ v.pc \notin Early => /\ "day" \in v.locks
                                    /\ day'[v.day].hit => v.row.hit
            /\ v.pc \in {"minutes", "latest", "expire", "rows"} => v.to = NoDay /\ v.max = 0
            /\ v.pc \in {"readStats", "setStreak"} => v.to # NoDay /\ Run(T, v.to)
            /\ v.pc \in {"setStreak", "award", "commit"} => Run(T, v.max)
            /\ v.pc \in {"award", "commit"} /\ v.to # NoDay => v.to <= v.max
            /\ v.pc = "commit" /\ v.due => Run(T, StreakGoal)
      BY <3>1, <3>5 DEF TxOK, SeenBy, Run, Early
    <3> HIDE DEF v
    <3> QED  BY <3>1, <3>3, <3>4, <3>7, <3>8, <3>9 DEF TxOK
  <2>13. TxOK(tx[r])'
    BY <1>2, IdleOK DEF TxOK, Idle, Early
  <2>14. stats'.streak <= stats'.max /\ Run(SeenBy(t), stats'.max)
    <3>0. stats.streak <= stats.max /\ Run(Achieved, stats.max)  BY Deserved DEF Inv
    <3>1. CASE t.to = NoDay
      <4>1. stats'.streak = stats.streak /\ stats'.max = stats.max /\ stats.max \in Nat
        BY <2>2, <2>3, <3>1, ActivityAssumption DEF Stats
      <4> QED  BY <2>4, <2>5, <3>0, <4>1, RunLess
    <3>2. CASE t.to # NoDay
      BY <1>0, <2>2, <3>2 DEF TxOK
    <3> QED  BY <3>1, <3>2
  <2>15. badge' => Run(SeenBy(t), StreakGoal)
    <3>1. CASE badge
      BY <2>4, <2>5, <3>1, RunLess, Deserved, ActivityAssumption DEF Inv
    <3>2. CASE ~ badge
      BY <1>0, <2>2, <3>2 DEF TxOK
    <3> QED  BY <3>1, <3>2
  <2>16. StreakDeserved'
    BY <2>4, <2>14, <2>15 DEF StreakDeserved, Reached, Run
  <2> QED  BY <1>2, <1>3, <2>10, <2>12, <2>13, <2>16 DEF Inv
<1> QED  BY <1>5, <1>6

LEMMA NextInv == Inv /\ [Next]_vars => Inv'
<1> SUFFICES ASSUME Inv, [Next]_vars PROVE Inv'  OBVIOUS
<1>1. ASSUME NEW r \in Slot, Step(r) PROVE Inv'
  BY <1>1, EarlySteps, LateSteps, CommitInv DEF Step
<1>2. ASSUME NEW r \in Slot, Abort(r) PROVE Inv'
  BY <1>2, IdleOK, LocalStep DEF Abort, Rollback, Inv, TypeOK
<1>3. ASSUME NEW r \in Slot, NEW stay \in Stay, StartSave(r, stay) PROVE Inv'
  <2> DEFINE u == [Idle EXCEPT !.pc = "existing", !.stay = stay, !.set = settings]
  <2>1. Become(r, u) /\ saves' \in 0..MaxSaves /\ UNCHANGED <<database, clock, plain>>
    <3>1. Become(r, u) /\ UNCHANGED <<database, clock, plain>>  BY <1>3 DEF StartSave
    <3>2. saves < MaxSaves /\ saves' = saves + 1 /\ saves \in 0..MaxSaves /\ MaxSaves \in Nat
      BY <1>3, ActivityAssumption DEF StartSave, Inv, TypeOK
    <3> QED  BY <3>1, <3>2
  <2>2. settings \in Settings /\ stay \in Nat  BY ActivityAssumption DEF Inv, TypeOK
  <2>3. u \in Tx /\ u.pc = "existing" /\ u.locks = {} /\ u.to = NoDay /\ u.max = 0
    BY <2>2, IdleOK DEF Tx, Idle
  <2>4. TxOK(u)  BY <2>3 DEF TxOK, Early
  <2> HIDE DEF u
  <2> QED  BY <2>1, <2>3, <2>4, LocalStep
<1>4. CASE Tick \/ (\E set \in Settings : ChangeSettings(set)) \/ UNCHANGED vars
  <2>1. UNCHANGED <<day, stats, badge, tx, saves>> /\ clock' \in 0..MaxTime
        /\ settings' \in Settings /\ plain' \in BOOLEAN
    <3>0. clock \in 0..MaxTime /\ MaxTime \in Nat /\ settings \in Settings /\ plain \in BOOLEAN
      BY ActivityAssumption DEF Inv, TypeOK
    <3>1. CASE Tick  BY <3>0, <3>1 DEF Tick, database
    <3>2. CASE \E set \in Settings : ChangeSettings(set)  BY <3>0, <3>2 DEF ChangeSettings
    <3>3. CASE UNCHANGED vars  BY <3>0, <3>3 DEF vars
    <3> QED  BY <1>4, <3>1, <3>2, <3>3
  <2>2. TypeOK'  BY <2>1 DEF Inv, TypeOK
  <2>3. \A u : TxOK(u)' <=> TxOK(u)  BY <2>1 DEF TxOK, SeenBy, Achieved, Run
  <2>4. Exclusive' /\ StreakDeserved'
    BY <2>1 DEF Inv, Exclusive, StreakDeserved, Reached, Achieved
  <2> QED  BY <2>1, <2>2, <2>3, <2>4 DEF Inv
<1> QED  BY <1>1, <1>2, <1>3, <1>4 DEF Next

(* Every reachable state is well typed. *)
THEOREM TypeCorrect == Spec => []TypeOK
<1>1. Inv => TypeOK  BY DEF Inv
<1> QED  BY <1>1, InitInv, NextInv, PTL DEF Spec

(* No streak is made up: the cached and the best streak, and the badge, stand
   for days achieved in a row, whatever races, aborts or changes of goal and
   time zone come between. *)
THEOREM StreakDeservedHolds == Spec => []StreakDeserved
<1>1. Inv => StreakDeserved  BY DEF Inv
<1> QED  BY <1>1, InitInv, NextInv, PTL DEF Spec
-----------------------------------------------------------------------------
(* Sums over finite sets. *)
LEMMA SmallestNat ==
  ASSUME NEW B, B \subseteq Nat, B # {}
  PROVE  \E n \in B : \A m \in B : n <= m
<1> DEFINE R == {ss \in Nat \X Nat : ss[1] < ss[2]}
<1>1. IsWellFoundedOn(R, Nat)  BY NatLessThanWellFounded DEF OpToRel
<1>2. PICK n \in B : \A m \in B : ~ (<<m, n>> \in R)  BY <1>1, WFMin
<1>3. \A m \in B : ~ (m < n)  BY <1>2
<1> QED  BY <1>3

LEMMA SmallestSubset ==
  ASSUME NEW D, IsFiniteSet(D), NEW B, B \subseteq SUBSET D, B # {}
  PROVE  \E s \in B : \A t \in B : t \subseteq s => t = s
<1>1. IsWellFoundedOn(StrictSubsetOrdering(D), SUBSET D)
  BY FS_StrictSubsetOrderingWellFounded, FS_FiniteSubsetsOfFinite
<1>2. PICK s \in B : \A t \in B : <<t, s>> \notin StrictSubsetOrdering(D)
  BY <1>1, WFMin
<1>3. ASSUME NEW t \in B, t \subseteq s PROVE t = s
  <2>1. <<t, s>> \in (SUBSET D) \X (SUBSET D)  OBVIOUS
  <2> QED  BY <1>2, <1>3, <2>1 DEF StrictSubsetOrdering
<1> QED  BY <1>3

(* h maps every subset of D to the sum of g over it, added up in the order of
   the folds of the community modules. *)
Pick(s) == CHOOSE x \in s : TRUE
Adds(h, g, S) ==
    h = [s \in S |-> IF s = {} THEN 0 ELSE g[Pick(s)] + h[s \ {Pick(s)}]]
IsSum(h, g, D) == Adds(h, g, SUBSET D)

LEMMA PickIn == ASSUME NEW s, s # {} PROVE Pick(s) \in s
BY DEF Pick

LEMMA AddsAt ==
  ASSUME NEW h, NEW g, NEW S, Adds(h, g, S), NEW s \in S
  PROVE  h[s] = IF s = {} THEN 0 ELSE g[Pick(s)] + h[s \ {Pick(s)}]
<1> DEFINE k == [t \in S |-> IF t = {} THEN 0 ELSE g[Pick(t)] + h[t \ {Pick(t)}]]
<1>1. h = k  BY DEF Adds
<1>2. k[s] = IF s = {} THEN 0 ELSE g[Pick(s)] + h[s \ {Pick(s)}]  OBVIOUS
<1> HIDE DEF k
<1> QED  BY <1>1, <1>2

(* There is one for every finite set, built up over the cardinality. *)
LEMMA SumExists ==
  ASSUME NEW D, IsFiniteSet(D), NEW g
  PROVE  \E h : IsSum(h, g, D)
<1> DEFINE L(n) == {s \in SUBSET D : Cardinality(s) <= n}
           Bad  == {n \in Nat : ~ \E h : Adds(h, g, L(n))}
<1>0. \A s \in SUBSET D : IsFiniteSet(s) /\ Cardinality(s) \in Nat
  BY FS_Subset, FS_CardinalityType
<1>1. Bad = {}
  <2> SUFFICES ASSUME Bad # {} PROVE FALSE  OBVIOUS
  <2>1. PICK n \in Bad : \A m \in Bad : n <= m
    <3>1. Bad \subseteq Nat  OBVIOUS
    <3> HIDE DEF Bad
    <3> QED  BY <3>1, SmallestNat
  <2>2. CASE n = 0
    <3>1. \A s \in L(n) : s = {}
      BY <1>0, <2>2, FS_EmptySet
    <3>2. Adds([s \in L(n) |-> 0], g, L(n))  BY <3>1 DEF Adds
    <3> QED  BY <3>2
  <2>3. CASE n # 0
    <3> DEFINE m == n - 1
    <3>1. m \in Nat /\ m < n /\ m + 1 = n  BY <2>3
    <3>2. m \notin Bad
      <4>1. n \in Nat /\ ~ (n <= m)  BY <3>1
      <4> HIDE DEF Bad, m
      <4> QED  BY <2>1, <4>1
    <3>3. PICK h : Adds(h, g, L(m))  BY <3>1, <3>2
    <3> DEFINE k == [s \in L(n) |-> IF s = {} THEN 0 ELSE g[Pick(s)] + h[s \ {Pick(s)}]]
    <3>4. ASSUME NEW s \in L(n), s # {} PROVE s \ {Pick(s)} \in L(m) /\ s \ {Pick(s)} \in L(n)
      <4>1. Pick(s) \in s  BY <3>4, PickIn
      <4>2. s \ {Pick(s)} \in SUBSET D /\ Cardinality(s \ {Pick(s)}) = Cardinality(s) - 1
        BY <1>0, <4>1, FS_RemoveElement
      <4>3. Cardinality(s) \in Nat /\ Cardinality(s) <= n  BY <1>0
      <4>4. Cardinality(s) - 1 <= m /\ Cardinality(s) - 1 <= n  BY <3>1, <4>3
      <4> QED  BY <4>2, <4>4
    <3>5. \A s \in L(m) : s \in L(n)  
      <4>1. ASSUME NEW s \in L(m) PROVE s \in L(n)
        <5>1. Cardinality(s) \in Nat /\ Cardinality(s) <= m  BY <1>0
        <5> QED  BY <3>1, <5>1
      <4> QED  BY <4>1
    <3> HIDE DEF m
    <3>6. \A s \in L(m) : k[s] = h[s]
      <4>1. ASSUME NEW s \in L(m) PROVE k[s] = h[s]
        <5>1. h[s] = IF s = {} THEN 0 ELSE g[Pick(s)] + h[s \ {Pick(s)}]
          BY <3>3, AddsAt
        <5>2. s \in L(n)  BY <3>5
        <5>3. k[s] = IF s = {} THEN 0 ELSE g[Pick(s)] + h[s \ {Pick(s)}]  BY <5>2
        <5> QED  BY <5>1, <5>3
      <4> QED  BY <4>1
    <3>7. \A s \in L(n) : s # {} => k[s \ {Pick(s)}] = h[s \ {Pick(s)}]
      BY <3>4, <3>6
    <3>8. k = [s \in L(n) |-> IF s = {} THEN 0 ELSE g[Pick(s)] + k[s \ {Pick(s)}]]
      BY <3>7
    <3> HIDE DEF k
    <3>9. Adds(k, g, L(n))  BY <3>8 DEF Adds
    <3> QED  BY <3>9
  <2> QED  BY <2>2, <2>3
<1> DEFINE c == Cardinality(D)
<1>2. c \in Nat  BY FS_CardinalityType
<1>3. PICK h : Adds(h, g, L(c))  BY <1>1, <1>2
<1>4. L(c) = SUBSET D
  BY FS_Subset
<1> QED  BY <1>3, <1>4 DEF IsSum


LEMMA SumStep ==
  ASSUME NEW D, NEW h, NEW g, IsSum(h, g, D)
  PROVE  \A s \in SUBSET D : h[s] = IF s = {} THEN 0 ELSE g[Pick(s)] + h[s \ {Pick(s)}]
BY AddsAt DEF IsSum

LEMMA SumAt ==
  ASSUME NEW D, NEW h, NEW g, IsSum(h, g, D), NEW s, s \subseteq D
  PROVE  /\ s = {} => h[s] = 0
         /\ s # {} => h[s] = g[Pick(s)] + h[s \ {Pick(s)}]
BY AddsAt DEF IsSum

LEMMA SumType ==
  ASSUME NEW D, IsFiniteSet(D), NEW h, NEW g, IsSum(h, g, D), \A x \in D : g[x] \in Int
  PROVE  \A s \in SUBSET D : h[s] \in Int
<1> DEFINE Bad == {s \in SUBSET D : h[s] \notin Int}
<1> SUFFICES ASSUME Bad # {} PROVE FALSE  OBVIOUS
<1>1. PICK s \in Bad : \A t \in Bad : t \subseteq s => t = s
  <2>1. Bad \subseteq SUBSET D  OBVIOUS
  <2> HIDE DEF Bad
  <2> QED  BY <2>1, SmallestSubset
<1>2. s # {}
  <2>1. s = {} => h[s] = 0  BY SumAt
  <2> QED  BY <2>1
<1> DEFINE x == Pick(s)
<1>3. x \in s  BY <1>2, PickIn
<1>4. s \ {x} \notin Bad /\ s \ {x} \subseteq D  BY <1>1, <1>3
<1>5. h[s \ {x}] \in Int /\ g[x] \in Int  BY <1>3, <1>4
<1>6. h[s] = g[x] + h[s \ {x}]  BY <1>2, SumAt
<1>7. h[s] \in Int  BY <1>5, <1>6
<1> QED  BY <1>7

(* The order of adding does not matter. *)
LEMMA SumAny ==
  ASSUME NEW D, IsFiniteSet(D), NEW h, NEW g, IsSum(h, g, D), \A x \in D : g[x] \in Int
  PROVE  \A s \in SUBSET D : \A y \in s : h[s] = g[y] + h[s \ {y}]
<1> DEFINE Bad == {s \in SUBSET D : \E y \in s : h[s] # g[y] + h[s \ {y}]}
<1> SUFFICES ASSUME Bad # {} PROVE FALSE  OBVIOUS
<1>1. PICK s \in Bad : \A t \in Bad : t \subseteq s => t = s
  <2>1. Bad \subseteq SUBSET D  OBVIOUS
  <2> HIDE DEF Bad
  <2> QED  BY <2>1, SmallestSubset
<1>2. PICK y \in s : h[s] # g[y] + h[s \ {y}]  OBVIOUS
<1> DEFINE x == Pick(s)
<1>3. x \in s /\ x \in D /\ y \in D  BY PickIn
<1>4. h[s] = g[x] + h[s \ {x}]  BY SumAt
<1> DEFINE t == s \ {x}
           u == s \ {y}
           v == s \ {x, y}
<1>5. x # y  BY <1>2, <1>4
<1>6. h[t] = g[y] + h[v]
  <2>1. t \notin Bad /\ t \in SUBSET D /\ y \in t  BY <1>1, <1>3, <1>5
  <2>2. t \ {y} = v  OBVIOUS
  <2> QED  BY <2>1, <2>2
<1>7. h[u] = g[x] + h[v]
  <2>1. u \notin Bad /\ u \in SUBSET D /\ x \in u  BY <1>1, <1>3, <1>5
  <2>2. u \ {x} = v  OBVIOUS
  <2> QED  BY <2>1, <2>2
<1>8. g[x] \in Int /\ g[y] \in Int /\ h[v] \in Int  BY <1>3, SumType
<1> HIDE DEF t, u, v, x
<1>9. g[x] + (g[y] + h[v]) = g[y] + (g[x] + h[v])  BY <1>8
<1>10. h[s] = g[y] + h[u]  BY <1>4, <1>6, <1>7, <1>9 DEF t
<1> QED  BY <1>2, <1>10 DEF u

LEMMA SumAgree ==
  ASSUME NEW D, IsFiniteSet(D), NEW h, NEW g, IsSum(h, g, D),
         NEW E, NEW k, NEW f, IsSum(k, f, E),
         NEW s, s \subseteq D, s \subseteq E, \A x \in s : f[x] = g[x]
  PROVE  k[s] = h[s]
<1>h. \A t \in SUBSET D :
        h[t] = IF t = {} THEN 0 ELSE g[Pick(t)] + h[t \ {Pick(t)}]
  BY SumStep
<1>k. \A t \in SUBSET E :
        k[t] = IF t = {} THEN 0 ELSE f[Pick(t)] + k[t \ {Pick(t)}]
  BY SumStep
<1> DEFINE Bad == {t \in SUBSET s : k[t] # h[t]}
<1>1. IsFiniteSet(s)  BY FS_Subset
<1> SUFFICES ASSUME Bad # {} PROVE FALSE  OBVIOUS
<1>2. PICK t \in Bad : \A u \in Bad : u \subseteq t => u = t
  <2>1. Bad \subseteq SUBSET s  OBVIOUS
  <2> HIDE DEF Bad
  <2> QED  BY <1>1, <2>1, SmallestSubset
<1>3. t \in SUBSET D /\ t \in SUBSET E /\ k[t] # h[t]  OBVIOUS
<1>4. t # {}
  <2>1. t = {} => h[t] = 0  BY <1>3, <1>h
  <2>2. t = {} => k[t] = 0  BY <1>3, <1>k
  <2> QED  BY <1>3, <2>1, <2>2
<1> DEFINE x == Pick(t)
<1>5. x \in t  BY <1>4, PickIn
<1>6. t \ {x} \notin Bad /\ t \ {x} \in SUBSET s  BY <1>2, <1>5
<1>7. h[t] = g[x] + h[t \ {x}]  BY <1>3, <1>4, <1>h
<1>8. k[t] = f[x] + k[t \ {x}]  BY <1>3, <1>4, <1>k
<1>9. f[x] = g[x] /\ k[t \ {x}] = h[t \ {x}]  BY <1>5, <1>6
<1>10. k[t] = h[t]  BY <1>7, <1>8, <1>9
<1> QED  BY <1>10

(* One value that changes changes the sum by as much. *)
LEMMA SumChange ==
  ASSUME NEW D, IsFiniteSet(D), NEW h, NEW g, IsSum(h, g, D), \A x \in D : g[x] \in Int,
         NEW k, NEW f, IsSum(k, f, D), \A x \in D : f[x] \in Int,
         NEW d \in D, \A x \in D \ {d} : f[x] = g[x]
  PROVE  k[D] = h[D] + f[d] - g[d]
<1> DEFINE s == D \ {d}
<1>1. k[s] = h[s]  BY SumAgree
<1>2. h[D] = g[d] + h[s] /\ k[D] = f[d] + k[s]
  <2>1. \A y \in D : h[D] = g[y] + h[D \ {y}]  BY SumAny
  <2>2. \A y \in D : k[D] = f[y] + k[D \ {y}]  BY SumAny
  <2> QED  BY <2>1, <2>2
<1>3. h[s] \in Int /\ g[d] \in Int /\ f[d] \in Int  BY SumType
<1> HIDE DEF s
<1> QED  BY <1>1, <1>2, <1>3

(* A sum of values that are not negative grows with its set. *)
LEMMA SumGrows ==
  ASSUME NEW D, IsFiniteSet(D), NEW h, NEW g, IsSum(h, g, D), \A x \in D : g[x] \in Nat,
         NEW s, s \subseteq D
  PROVE  0 <= h[s] /\ h[s] <= h[D]
<1>0. \A t \in SUBSET D : h[t] \in Int  BY SumType
<1>1. ASSUME NEW u, u \subseteq D PROVE \A t \in SUBSET D : u \subseteq t => h[u] <= h[t]
  <2> DEFINE Bad == {t \in SUBSET D : u \subseteq t /\ ~ (h[u] <= h[t])}
  <2> SUFFICES ASSUME Bad # {} PROVE FALSE  OBVIOUS
  <2>1. PICK t \in Bad : \A v \in Bad : v \subseteq t => v = t
    <3>1. Bad \subseteq SUBSET D  OBVIOUS
    <3> HIDE DEF Bad
    <3> QED  BY <3>1, SmallestSubset
  <2>2. u # t  BY <1>0, <1>1
  <2>3. PICK x \in t : x \notin u  BY <2>2
  <2>4. h[t] = g[x] + h[t \ {x}]  BY SumAny
  <2>5. t \ {x} \notin Bad /\ t \ {x} \in SUBSET D /\ u \subseteq t \ {x}  BY <2>1, <2>3
  <2>6. h[u] <= h[t \ {x}] /\ h[t \ {x}] \in Int /\ h[u] \in Int /\ g[x] \in Nat
    BY <1>0, <1>1, <2>5
  <2>7. h[u] <= h[t]  BY <2>4, <2>6
  <2> QED  BY <2>7
<1>2. h[{}] = 0  BY SumAt
<1> QED  BY <1>1, <1>2

(* Values that are zero add nothing. *)
LEMMA SumZeros ==
  ASSUME NEW D, IsFiniteSet(D), NEW h, NEW g, IsSum(h, g, D), \A x \in D : g[x] \in Int,
         NEW u, u \subseteq D, \A x \in D \ u : g[x] = 0
  PROVE  h[D] = h[u]
<1> DEFINE Bad == {t \in SUBSET D : u \subseteq t /\ h[t] # h[u]}
<1> SUFFICES ASSUME Bad # {} PROVE FALSE  OBVIOUS
<1>1. PICK t \in Bad : \A v \in Bad : v \subseteq t => v = t
  <2>1. Bad \subseteq SUBSET D  OBVIOUS
  <2> HIDE DEF Bad
  <2> QED  BY <2>1, SmallestSubset
<1>2. PICK x \in t : x \notin u  OBVIOUS
<1>3. h[t] = g[x] + h[t \ {x}]  BY SumAny
<1>4. t \ {x} \notin Bad /\ t \ {x} \in SUBSET D /\ u \subseteq t \ {x}  BY <1>1, <1>2
<1>5. h[t \ {x}] = h[u] /\ g[x] = 0  BY <1>2, <1>4
<1>6. h[u] \in Int  BY SumType
<1>7. h[t] = h[u]  BY <1>3, <1>5, <1>6
<1> QED  BY <1>7

(* Values bounded by a multiple of others and a constant, and so their sums. *)
LEMMA SumBounded ==
  ASSUME NEW D, IsFiniteSet(D), NEW h, NEW g, IsSum(h, g, D), \A x \in D : g[x] \in Int,
         NEW k, NEW f, IsSum(k, f, D), \A x \in D : f[x] \in Int,
         NEW m \in Int, NEW c \in Int, \A x \in D : g[x] <= m * f[x] + c
  PROVE  h[D] <= m * k[D] + c * Cardinality(D)
<1> DEFINE Bad == {s \in SUBSET D : ~ (h[s] <= m * k[s] + c * Cardinality(s))}
<1> SUFFICES ASSUME Bad # {} PROVE FALSE  OBVIOUS
<1>1. PICK s \in Bad : \A t \in Bad : t \subseteq s => t = s
  <2>1. Bad \subseteq SUBSET D  OBVIOUS
  <2> HIDE DEF Bad
  <2> QED  BY <2>1, SmallestSubset
<1>2. s # {}
  <2>1. s = {} => h[s] = 0 /\ k[s] = 0 /\ Cardinality(s) = 0  BY SumAt, FS_EmptySet
  <2> QED  BY <2>1
<1>3. PICK x \in s : TRUE  BY <1>2
<1> DEFINE t == s \ {x}
<1>4. t \notin Bad /\ t \in SUBSET D /\ s \in SUBSET D  BY <1>1
<1>5. h[s] = g[x] + h[t] /\ k[s] = f[x] + k[t]  BY SumAny
<1>6. IsFiniteSet(s) /\ IsFiniteSet(t)  BY <1>4, FS_Subset
<1>7. Cardinality(t) = Cardinality(s) - 1 /\ Cardinality(t) \in Nat /\ Cardinality(s) \in Nat
  BY <1>3, <1>6, FS_RemoveElement, FS_CardinalityType
<1>8. h[t] <= m * k[t] + c * Cardinality(t)  BY <1>4
<1>9. h[t] \in Int /\ k[t] \in Int /\ g[x] \in Int /\ f[x] \in Int  BY <1>4, SumType
<1>10. g[x] <= m * f[x] + c  OBVIOUS
<1>11. h[s] <= m * k[s] + c * Cardinality(s)
  <2> DEFINE n == Cardinality(t)
             p == h[t]
             q == k[t]
             a == g[x]
             b == f[x]
  <2>1. p \in Int /\ q \in Int /\ a \in Int /\ b \in Int /\ n \in Nat  BY <1>7, <1>9
  <2>2. p <= m * q + c * n /\ a <= m * b + c  BY <1>8, <1>10
  <2>3. Cardinality(s) = n + 1  BY <1>7
  <2> HIDE DEF n, p, q, a, b
  <2>4. m * (b + q) = m * b + m * q /\ c * (n + 1) = c * n + c  BY <2>1
  <2>5. m * b \in Int /\ m * q \in Int /\ c * n \in Int  BY <2>1
  <2>6. a + p <= m * (b + q) + c * (n + 1)  BY <2>1, <2>2, <2>4, <2>5
  <2> QED  BY <1>5, <2>3, <2>6 DEF p, q, a, b
<1> QED  BY <1>11

-----------------------------------------------------------------------------
(* Every minute is counted once.  A transaction that holds its day adds to the
   total what its row adds to the whole minutes of that day. *)
Total(rows) ==
    LET sum == CHOOSE h : h = [s \in SUBSET Day |-> IF s = {} THEN 0
                 ELSE (rows[Pick(s)].secs \div Minute) + h[s \ {Pick(s)}]]
    IN sum[Day]

Booked(t) == t.pc \notin Early =>
    t.mins = (t.row.secs \div Minute) - (day[t.day].secs \div Minute)

MinutesInv == MinutesCounted /\ \A r \in Slot : Booked(tx[r])

LEMMA DayFinite == IsFiniteSet(Day) /\ Day \subseteq Nat
<1> DEFINE P == (0..MaxTime) \X Zone
           f == [x \in P |-> LocalDay(x[1], x[2])]
<1>1. IsFiniteSet(P)
  <2>1. IsFiniteSet(0..MaxTime) /\ IsFiniteSet(Zone)  BY ActivityAssumption, FS_Interval
  <2> QED  BY <2>1, FS_Product
<1>2. \A x \in P : f[x] = LocalDay(x[1], x[2])  OBVIOUS
<1>3. \A t \in 0..MaxTime : \A z \in Zone : <<t, z>> \in P /\ f[<<t, z>>] = LocalDay(t, z)
  OBVIOUS
<1>4. \A x \in P : x[1] \in 0..MaxTime /\ x[2] \in Zone  OBVIOUS
<1> HIDE DEF f, P
<1>5. \A d \in Day : \E x \in P : f[x] = d
  <2>1. ASSUME NEW d \in Day PROVE \E x \in P : f[x] = d
    <3>1. PICK t \in 0..MaxTime, z \in Zone : d = LocalDay(t, z)  BY DEF Day
    <3> QED  BY <1>3, <3>1
  <2> QED  BY <2>1
<1>6. IsFiniteSet(Day)
  <2>1. \A x \in P : f[x] \in Day  BY <1>2, <1>4 DEF Day
  <2>2. f = [x \in P |-> f[x]]  BY DEF f
  <2>3. f \in Surjection(P, Day)  BY <1>5, <2>1, <2>2 DEF Surjection
  <2> QED  BY <1>1, <2>3, FS_Surjection
<1>7. Day \subseteq Nat
  <2> SUFFICES ASSUME NEW t \in 0..MaxTime, NEW z \in Zone PROVE LocalDay(t, z) \in Nat
    BY DEF Day
  <2>1. t + z \in Nat /\ DayLen \in Nat \ {0}  BY ActivityAssumption
  <2> QED  BY <2>1 DEF LocalDay
<1> QED  BY <1>6, <1>7

LEMMA TotalIsSum ==
  ASSUME NEW rows
  PROVE  \E h : /\ IsSum(h, [d \in Day |-> rows[d].secs \div Minute], Day)
               /\ Total(rows) = h[Day]
<1> DEFINE g == [d \in Day |-> rows[d].secs \div Minute]
           h == CHOOSE k : k = [s \in SUBSET Day |-> IF s = {} THEN 0
                  ELSE (rows[Pick(s)].secs \div Minute) + k[s \ {Pick(s)}]]
<1>1. PICK k : IsSum(k, g, Day)  BY DayFinite, SumExists
<1>2. \A s \in SUBSET Day : s # {} => g[Pick(s)] = rows[Pick(s)].secs \div Minute
  BY PickIn
<1>3. k = [s \in SUBSET Day |-> IF s = {} THEN 0 ELSE g[Pick(s)] + k[s \ {Pick(s)}]]
  BY <1>1 DEF IsSum, Adds
<1> HIDE DEF g
<1>4. k = [s \in SUBSET Day |-> IF s = {} THEN 0
             ELSE (rows[Pick(s)].secs \div Minute) + k[s \ {Pick(s)}]]
  BY <1>2, <1>3
<1>5. h = [s \in SUBSET Day |-> IF s = {} THEN 0
             ELSE (rows[Pick(s)].secs \div Minute) + h[s \ {Pick(s)}]]
  BY <1>4
<1>6. Total(rows) = h[Day]  BY DEF Total
<1> HIDE DEF h
<1>7. h = [s \in SUBSET Day |-> IF s = {} THEN 0 ELSE g[Pick(s)] + h[s \ {Pick(s)}]]
  BY <1>2, <1>5
<1> QED  BY <1>6, <1>7 DEF IsSum, Adds, g

LEMMA CountedTotal ==
  /\ MinutesCounted <=> stats.total = Total(day)
  /\ MinutesCounted' <=> stats'.total = Total(day')
BY DEF MinutesCounted, Minutes, MapThenSumSet, MapThenFoldSet, Total, Pick

(* A day that changes changes the total by as much. *)
LEMMA TotalChange ==
  ASSUME NEW rows \in [Day -> DayRow], NEW d \in Day, NEW row \in DayRow,
         NEW after, after = [rows EXCEPT ![d] = row]
  PROVE  Total(after) = Total(rows) + (row.secs \div Minute) - (rows[d].secs \div Minute)
<1> DEFINE g == [x \in Day |-> rows[x].secs \div Minute]
           f == [x \in Day |-> after[x].secs \div Minute]
<1>1. PICK h : IsSum(h, g, Day) /\ Total(rows) = h[Day]  BY TotalIsSum
<1>2. PICK k : IsSum(k, f, Day) /\ Total(after) = k[Day]  BY TotalIsSum
<1>3. after \in [Day -> DayRow] /\ after[d] = row /\ \A x \in Day \ {d} : after[x] = rows[x]
  OBVIOUS
<1>4. Minute \in Nat \ {0}  BY ActivityAssumption
<1>5. (\A x \in Day : g[x] \in Int) /\ (\A x \in Day : f[x] \in Int)
  BY <1>3, <1>4 DEF DayRow
<1>6. \A x \in Day \ {d} : f[x] = g[x]  BY <1>3
<1>7. f[d] = row.secs \div Minute /\ g[d] = rows[d].secs \div Minute  BY <1>3
<1> HIDE DEF f, g
<1>8. k[Day] = h[Day] + f[d] - g[d]
  <2>1. IsFiniteSet(Day)  BY DayFinite
  <2>2. IsSum(h, g, Day) BY <1>1
  <2>3. IsSum(k, f, Day) BY <1>2
  <2>4. \A x \in Day : g[x] \in Int BY <1>5
  <2>5. \A x \in Day : f[x] \in Int BY <1>5
  <2> QED BY <2>1, <2>2, <2>3, <2>4, <2>5, <1>6, SumChange
<1> QED  BY <1>1, <1>2, <1>7, <1>8

LEMMA InitMinutes == Init => MinutesInv
<1> SUFFICES ASSUME Init PROVE MinutesInv  OBVIOUS
<1>1. \A r \in Slot : Booked(tx[r])  BY DEF Init, Booked, Idle, Early
<1>2. Total(day) = 0
  <2> DEFINE g == [d \in Day |-> day[d].secs \div Minute]
  <2>1. \A d \in Day : g[d] = 0
    <3>1. Minute \in Nat \ {0}  BY ActivityAssumption
    <3>2. 0 \div Minute = 0  BY <3>1
    <3>3. \A d \in Day : day[d].secs = 0  BY DEF Init, NoRow
    <3> QED  BY <3>2, <3>3
  <2>2. PICK h : IsSum(h, g, Day) /\ Total(day) = h[Day]  BY TotalIsSum
  <2> HIDE DEF g
  <2>3. (\A d \in Day : g[d] \in Int) /\ (\A d \in Day \ {} : g[d] = 0)  BY <2>1
  <2>4. h[Day] = h[{}]
   <3>1. IsFiniteSet(Day)  BY DayFinite
   <3>2. IsSum(h, g, Day) BY <2>2
   <3>3. {} \subseteq Day OBVIOUS
   <3>4. \A x \in Day : g[x] \in Int BY <2>3
   <3>5. \A x \in Day \ {} : g[x] = 0 BY <2>3
   <3> QED BY <3>1, <3>2, <3>3, <3>4, <3>5, SumZeros
  <2>5. h[{}] = 0  BY <2>2, SumAt
  <2> QED  BY <2>2, <2>4, <2>5
<1> QED  BY <1>1, <1>2, CountedTotal DEF MinutesInv, Init

(* A step that leaves the days and the statistics alone. *)
LEMMA LocalBooked ==
  ASSUME Inv, MinutesInv, NEW r \in Slot, NEW t, Become(r, t), Booked(t),
         day' = day, stats' = stats
  PROVE  MinutesInv'
<1>1. \A q \in Slot : tx'[q] = IF q = r THEN t ELSE tx[q]
  BY DEF Become, Inv, TypeOK
<1>2. \A q \in Slot : Booked(tx[q])'  BY <1>1 DEF Booked, MinutesInv
<1> QED  BY <1>2, CountedTotal DEF MinutesInv

LEMMA IdleBooked == Booked(Idle)
BY DEF Booked, Idle, Early

LEMMA UpsertBooked == ASSUME Inv, MinutesInv, NEW r \in Slot, Upsert(r) PROVE MinutesInv'
<1> DEFINE t == tx[r]
           row == [there |-> TRUE, secs |-> day[t.day].secs + t.stay,
                   snap |-> IF t.old # 0 THEN t.old ELSE t.set.goal,
                   hit |-> day[t.day].hit]
           add == AddedMinutes(row.secs, t.stay)
           pc  == IF add > 0 THEN "minutes" ELSE AfterMinutes(row)
           u   == [t EXCEPT !.row = row, !.mins = add, !.locks = {"day"}, !.pc = pc]
<1>1. Become(r, u) /\ day' = day /\ stats' = stats  BY DEF Upsert, database
<1>2. t \in Tx /\ t.day \in Day  BY DEF Inv, TypeOK, TxOK, Upsert, At
<1>3. row.secs = day[t.day].secs + t.stay /\ t.stay \in Nat /\ day[t.day].secs \in Nat
  BY <1>2 DEF Inv, TypeOK, DayRow, Tx
<1>4. add = (row.secs \div Minute) - (day[t.day].secs \div Minute)
  <2>1. row.secs - t.stay = day[t.day].secs  BY <1>3
  <2> QED  BY <2>1 DEF AddedMinutes
<1> HIDE DEF row, add, pc
<1>5. u.row = row /\ u.mins = add /\ u.day = t.day  BY <1>2 DEF Tx
<1>6. Booked(u)  BY <1>4, <1>5 DEF Booked
<1> HIDE DEF u
<1> QED  BY <1>1, <1>6, LocalBooked

(* The rest of a transaction keeps its day, its seconds and its minutes. *)
LEMMA LateBooked ==
  ASSUME Inv, MinutesInv, NEW r \in Slot,
         \/ AddMinutes(r) \/ FindLatest(r) \/ Expire(r) \/ FindRows(r) \/ ReadStats(r)
         \/ SetStreak(r) \/ Award(r)
  PROVE  MinutesInv'
<1> DEFINE t == tx[r]
           Kept(u) == u.mins = t.mins /\ u.row.secs = t.row.secs /\ u.day = t.day
<1>1. t \in Tx /\ t.row \in DayRow  BY DEF Inv, TypeOK, Tx
<1>2. t.pc \notin Early /\ day' = day /\ stats' = stats
  BY DEF AddMinutes, FindLatest, Expire, FindRows, ReadStats, SetStreak, Award, At, Early,
         database
<1>3. \E u : Become(r, u) /\ Kept(u)
  <2>1. CASE AddMinutes(r)
    <3>1. Kept([t EXCEPT !.pc = AfterMinutes(t.row), !.locks = @ \cup {"stats"}])
      BY <1>1 DEF Tx
    <3> QED  BY <2>1, <3>1 DEF AddMinutes
  <2>2. CASE FindLatest(r)
    <3>1. PICK pc \in {"award", "expire"} : Become(r, [t EXCEPT !.pc = pc])
      BY <2>2 DEF FindLatest
    <3>2. Kept([t EXCEPT !.pc = pc])  BY <1>1 DEF Tx
    <3> QED  BY <3>1, <3>2
  <2>3. CASE Expire(r)
    <3>1. /\ Kept([t EXCEPT !.pc = "award"])
          /\ Kept([t EXCEPT !.pc = "award", !.to = 0, !.max = stats.max,
                            !.locks = @ \cup {"stats"}])
      BY <1>1 DEF Tx
    <3> QED  BY <2>3, <3>1 DEF Expire
  <2>4. CASE FindRows(r)
    <3>1. PICK n \in 0..StreakRows :
            Become(r, [t EXCEPT !.pc = "readStats", !.row.hit = TRUE, !.to = n])
      BY <2>4 DEF FindRows
    <3>2. Kept([t EXCEPT !.pc = "readStats", !.row.hit = TRUE, !.to = n])
      BY <1>1 DEF Tx, DayRow
    <3> QED  BY <3>1, <3>2
  <2>5. CASE ReadStats(r)
    <3>1. Kept([t EXCEPT !.pc = "setStreak", !.max = stats.max])  BY <1>1 DEF Tx
    <3> QED  BY <2>5, <3>1 DEF ReadStats
  <2>6. CASE SetStreak(r)
    <3> DEFINE max == IF t.to > t.max THEN t.to ELSE t.max
    <3>1. Become(r, [t EXCEPT !.pc = "award", !.max = max, !.locks = @ \cup {"stats"}])
      BY <2>6 DEF SetStreak
    <3> HIDE DEF max
    <3>2. Kept([t EXCEPT !.pc = "award", !.max = max, !.locks = @ \cup {"stats"}])
      BY <1>1 DEF Tx
    <3> QED  BY <3>1, <3>2
  <2>7. CASE Award(r)
    <3> DEFINE due == OwnStreak(r) >= StreakGoal /\ ~ badge
    <3>1. Become(r, [t EXCEPT !.pc = "commit", !.due = due])  BY <2>7 DEF Award
    <3> HIDE DEF due
    <3>2. Kept([t EXCEPT !.pc = "commit", !.due = due])  BY <1>1 DEF Tx
    <3> QED  BY <3>1, <3>2
  <2> QED  BY <2>1, <2>2, <2>3, <2>4, <2>5, <2>6, <2>7
<1>4. PICK u : Become(r, u) /\ Kept(u)  BY <1>3
<1>5. Booked(u)  BY <1>2, <1>4 DEF Booked, MinutesInv
<1> QED  BY <1>2, <1>4, <1>5, LocalBooked

LEMMA CommitBooked == ASSUME Inv, MinutesInv, NEW r \in Slot, Commit(r) PROVE MinutesInv'
<1> DEFINE t == tx[r]
<1>0. t \in Tx /\ TxOK(t) /\ t.pc = "commit" /\ Become(r, Idle) /\ Booked(t)
  BY DEF Inv, TypeOK, Commit, At, Rollback, MinutesInv
<1>1. CASE t.due /\ badge
  BY <1>0, <1>1, IdleBooked, LocalBooked DEF Commit, database
<1>2. CASE ~ (t.due /\ badge)
  <2>1. t.day \in Day /\ "day" \in t.locks /\ t.row \in DayRow /\ t.mins \in Int
    BY <1>0 DEF TxOK, Early, Tx
  <2>2. day' = [day EXCEPT ![t.day] = t.row] /\ stats'.total = stats.total + t.mins
    <3>1. day' = [day EXCEPT ![t.day] = t.row]  BY <1>2 DEF Commit
    <3>2. CASE t.to = NoDay
      BY <1>2, <3>2 DEF Commit, Inv, TypeOK, Stats
    <3>3. CASE t.to # NoDay
      BY <1>2, <3>3 DEF Commit
    <3> QED  BY <3>1, <3>2, <3>3
  <2>3. day \in [Day -> DayRow]  BY DEF Inv, TypeOK
  <2>4. Total(day') = Total(day) + (t.row.secs \div Minute) - (day[t.day].secs \div Minute)
    BY <2>1, <2>2, <2>3, TotalChange
  <2>5. t.mins = (t.row.secs \div Minute) - (day[t.day].secs \div Minute)
    BY <1>0 DEF Booked, Early
  <2>6. stats.total = Total(day) /\ stats.total \in Int
    BY CountedTotal DEF MinutesInv, Inv, TypeOK, Stats
  <2>7. (t.row.secs \div Minute) \in Int /\ (day[t.day].secs \div Minute) \in Int
    BY <2>1, <2>3, ActivityAssumption DEF DayRow
  <2>8. MinutesCounted'  BY <2>2, <2>4, <2>5, <2>6, <2>7, CountedTotal
  <2>9. ASSUME NEW q \in Slot PROVE Booked(tx[q])'
    <3>1. CASE q = r
      BY <1>0, <3>1, IdleBooked DEF Become, Inv, TypeOK, Booked, Idle, Early
    <3>2. CASE q # r
      <4>1. tx'[q] = tx[q] /\ Booked(tx[q])
        BY <1>0, <3>2 DEF Become, Inv, TypeOK, MinutesInv
      <4>2. tx[q].pc \notin Early => tx[q].day # t.day /\ tx[q].day \in Day
        BY <2>1, <3>2 DEF Inv, Exclusive, TxOK, Early
      <4>3. tx[q].pc \notin Early => day'[tx[q].day] = day[tx[q].day]
        BY <2>2, <2>3, <4>2
      <4> QED  BY <4>1, <4>3 DEF Booked
    <3> QED  BY <3>1, <3>2
  <2> QED  BY <2>8, <2>9 DEF MinutesInv
<1> QED  BY <1>1, <1>2

LEMMA NextMinutes == ASSUME Inv, MinutesInv, [Next]_vars PROVE MinutesInv'
<1>1. ASSUME NEW r \in Slot, FindExisting(r) PROVE MinutesInv'
  <2> DEFINE d == LocalDay(clock, tx[r].set.zone)
             u == [tx[r] EXCEPT !.pc = "upsert", !.day = d, !.old = day[d].snap]
  <2>1. Become(r, u) /\ day' = day /\ stats' = stats  BY <1>1 DEF FindExisting, database
  <2> HIDE DEF d
  <2>2. u.pc = "upsert"  BY DEF Inv, TypeOK, Tx
  <2> HIDE DEF u
  <2>3. Booked(u)  BY <2>2 DEF Booked, Early
  <2> QED  BY <2>1, <2>3, LocalBooked
<1>2. ASSUME NEW r \in Slot, Step(r) PROVE MinutesInv'
  BY <1>1, <1>2, UpsertBooked, LateBooked, CommitBooked DEF Step
<1>3. ASSUME NEW r \in Slot, Abort(r) PROVE MinutesInv'
  BY <1>3, IdleBooked, LocalBooked DEF Abort, Rollback, database
<1>4. ASSUME NEW r \in Slot, NEW stay \in Stay, StartSave(r, stay) PROVE MinutesInv'
  <2> DEFINE u == [Idle EXCEPT !.pc = "existing", !.stay = stay, !.set = settings]
  <2>1. Become(r, u) /\ day' = day /\ stats' = stats  BY <1>4 DEF StartSave, database
  <2>2. u.pc = "existing"  BY DEF Idle
  <2> HIDE DEF u
  <2>3. Booked(u)  BY <2>2 DEF Booked, Early
  <2> QED  BY <2>1, <2>3, LocalBooked
<1>5. CASE Tick \/ (\E set \in Settings : ChangeSettings(set)) \/ UNCHANGED vars
  <2>1. UNCHANGED <<day, stats, tx>>  BY <1>5 DEF Tick, ChangeSettings, vars, database
  <2>2. \A r \in Slot : Booked(tx[r])'  BY <2>1 DEF MinutesInv, Booked
  <2> QED  BY <2>1, <2>2, CountedTotal DEF MinutesInv
<1> QED  BY <1>2, <1>3, <1>4, <1>5 DEF Next

LEMMA InvHolds == Spec => []Inv
BY InitInv, NextInv, PTL DEF Spec

LEMMA MinutesHolds == Spec => []MinutesInv
BY InvHolds, InitMinutes, NextMinutes, PTL DEF Spec

(* The total counts every whole minute of every day once, for any number of
   saves, however they interleave or abort. *)
THEOREM MinutesCountedHolds == Spec => []MinutesCounted
<1>1. MinutesInv => MinutesCounted  BY DEF MinutesInv
<1> QED  BY <1>1, MinutesHolds, PTL

-----------------------------------------------------------------------------
(* No streak is lost.  While the settings are kept and days are booked in
   order, every row carries the goal in force and is achieved as soon as its
   seconds reach it, so a goal is only ever opened by a save that adds a whole
   minute: the claim is made, and the best streak read and written, under the
   lock of the statistics. *)
RowKept(row) ==
    /\ ~ row.there => row.snap = 0 /\ row.secs = 0 /\ ~ row.hit
    /\ row.there => row.snap = settings.goal
    /\ ~ GoalOpen(row)

Claim(t) == IsStreak(Achieved \cup {t.day}, t.day, t.to)

TxKept(t) ==
    /\ t.pc # "idle" => t.set = settings
    /\ t.pc = "upsert" => t.old \in {0, settings.goal}
    /\ t.pc \notin Early => t.row.there /\ t.row.snap = settings.goal
    /\ t.pc \in {"minutes", "latest", "expire"} => t.row.hit = day[t.day].hit
    /\ t.pc \in {"latest", "expire", "award", "commit"} => ~ GoalOpen(t.row)
    /\ t.pc \in {"rows", "readStats", "setStreak"} => "stats" \in t.locks
    /\ t.pc \in {"readStats", "setStreak"} => t.row.hit /\ Claim(t)
    /\ t.pc = "setStreak" => t.max = stats.max
    /\ t.pc \in {"award", "commit"} /\ t.to = NoDay => t.row.hit = day[t.day].hit
    /\ t.pc \in {"award", "commit"} /\ t.to # NoDay =>
          /\ "stats" \in t.locks /\ stats.max <= t.max
          /\ \/ t.to = 0 /\ t.row.hit = day[t.day].hit
             \/ t.to # 0 /\ t.row.hit /\ Claim(t)

StatsExclusive ==
    \A q, r \in Slot : "stats" \in tx[q].locks /\ "stats" \in tx[r].locks => q = r

KeptInv ==
    /\ StatsExclusive
    /\ plain => /\ \A d \in Day : RowKept(day[d])
                /\ \A r \in Slot : TxKept(tx[r])
    /\ BestStreakKept

(* Whole minutes: what \div and % give. *)
LEMMA DivRest ==
  ASSUME NEW a \in Nat, NEW m \in Nat \ {0}
  PROVE  /\ a \div m \in Nat /\ m * (a \div m) \in Nat
         /\ m * (a \div m) <= a /\ a < m * (a \div m) + m
OBVIOUS

LEMMA DivLess ==
  ASSUME NEW a \in Nat, NEW m \in Nat \ {0}, NEW g \in Int
  PROVE  a \div m < g <=> a < g * m
OBVIOUS

LEMMA DivMono ==
  ASSUME NEW a \in Nat, NEW b \in Nat, NEW m \in Nat \ {0}, a <= b
  PROVE  a \div m <= b \div m
OBVIOUS

LEMMA ModBound ==
  ASSUME NEW a \in Nat, NEW m \in Nat \ {0}
  PROVE  a % m \in Nat /\ a % m < m /\ a % m <= a
OBVIOUS

(* A day ends one streak only, and it is a matter of the days before it. *)
LEMMA StreakUnique ==
  ASSUME NEW S, NEW d \in Int, NEW n, NEW m, IsStreak(S, d, n), IsStreak(S, d, m)
  PROVE  n = m
<1>0. n \in Nat /\ m \in Nat /\ n <= StreakRows /\ m <= StreakRows /\ StreakRows \in Nat
  BY ActivityAssumption DEF IsStreak
<1>1. ASSUME NEW i \in Nat, NEW j \in Nat, i < j, IsStreak(S, d, i), IsStreak(S, d, j)
      PROVE  FALSE
  <2>1. j <= StreakRows /\ StreakRows \in Nat  BY <1>1, ActivityAssumption DEF IsStreak
  <2>2. d - i \notin S  BY <1>1, <2>1 DEF IsStreak
  <2>3. i \in 0..(j - 1)  BY <1>1
  <2> QED  BY <1>1, <2>2, <2>3 DEF IsStreak
<1>2. ~ (n < m) /\ ~ (m < n)  BY <1>0, <1>1
<1> QED  BY <1>0, <1>2

LEMMA StreakSame ==
  ASSUME NEW S, NEW T, NEW d \in Int, NEW n, IsStreak(S, d, n),
         \A x \in Int : x <= d => (x \in S <=> x \in T)
  PROVE  IsStreak(T, d, n)
<1>1. n \in Nat  BY ActivityAssumption DEF IsStreak
<1>2. \A i \in 0..(n - 1) : d - i \in T
  <2> SUFFICES ASSUME NEW i \in 0..(n - 1) PROVE d - i \in T  OBVIOUS
  <2>1. d - i \in Int /\ d - i <= d  BY <1>1
  <2> QED  BY <2>1 DEF IsStreak
<1>3. d - n \in Int /\ d - n <= d  BY <1>1
<1> QED  BY <1>2, <1>3 DEF IsStreak

LEMMA StreakNotZero ==
  ASSUME NEW S, NEW d \in Int, d \in S, NEW n, IsStreak(S, d, n)
  PROVE  n # 0
<1>1. ASSUME n = 0 PROVE FALSE
  <2>1. d - n = d /\ n # StreakRows  BY <1>1, ActivityAssumption
  <2> QED  BY <2>1 DEF IsStreak
<1> QED  BY <1>1

LEMMA StreakExists ==
  ASSUME NEW S, NEW d \in Int
  PROVE  \E n \in 0..StreakRows : IsStreak(S, d, n)
<1> DEFINE B == {n \in Nat : n = StreakRows \/ d - n \notin S}
<1>0. StreakRows \in Nat  BY ActivityAssumption
<1>1. StreakRows \in B  BY <1>0
<1>2. PICK n \in B : \A m \in B : n <= m
  <2>1. B \subseteq Nat /\ B # {}  BY <1>1
  <2> HIDE DEF B
  <2> QED  BY <2>1, SmallestNat
<1>3. n \in Nat /\ n <= StreakRows  BY <1>1, <1>2
<1>4. ASSUME NEW i \in 0..(n - 1) PROVE d - i \in S
  <2>1. i \in Nat /\ ~ (n <= i)  BY <1>3
  <2>2. i \notin B  BY <1>2, <2>1
  <2> QED  BY <2>1, <2>2
<1>5. n \in 0..StreakRows  BY <1>0, <1>3
<1>6. IsStreak(S, d, n)  BY <1>4, <1>5 DEF IsStreak
<1> QED  BY <1>5, <1>6

LEMMA InitKept == Init => KeptInv
<1> SUFFICES ASSUME Init PROVE KeptInv  OBVIOUS
<1>1. \A r \in Slot : tx[r] = Idle  BY DEF Init
<1>2. \A d \in Day : RowKept(day[d])  BY DEF Init, NoRow, RowKept, GoalOpen
<1>3. \A r \in Slot : TxKept(tx[r])  BY <1>1 DEF TxKept, Idle, Early
<1>4. Achieved = {} /\ stats.last = NoDay  BY DEF Init, NoRow, Achieved
<1> QED  BY <1>1, <1>2, <1>3, <1>4, IdleOK DEF KeptInv, StatsExclusive, BestStreakKept

LEMMA IdleKept == TxKept(Idle)
BY DEF TxKept, Idle, Early

(* A step that leaves the database alone. *)
LEMMA LocalKept ==
  ASSUME Inv, KeptInv, NEW r \in Slot, NEW t, Become(r, t), UNCHANGED <<database, plain>>,
         plain => TxKept(t),
         "stats" \in t.locks => \/ "stats" \in tx[r].locks
                               \/ \A q \in Slot \ {r} : "stats" \notin tx[q].locks
  PROVE  KeptInv'
<1>1. tx'[r] = t /\ \A q \in Slot \ {r} : tx'[q] = tx[q]
  BY DEF Become, Inv, TypeOK
<1>2. UNCHANGED <<settings, day, stats, plain>>  BY DEF database
<1>3. StatsExclusive'  BY <1>1 DEF KeptInv, StatsExclusive
<1>4. \A d \in Day : RowKept(day[d]) => RowKept(day[d])'  BY <1>2 DEF RowKept
<1>5. \A u : TxKept(u) => TxKept(u)'
  BY <1>2 DEF TxKept, Claim, Achieved
<1>6. plain => \A q \in Slot : TxKept(tx[q])'  BY <1>1, <1>5 DEF KeptInv
<1>7. BestStreakKept'  BY <1>2 DEF KeptInv, BestStreakKept, Achieved
<1> QED  BY <1>2, <1>3, <1>4, <1>6, <1>7 DEF KeptInv

(* A booking that opens the goal adds a whole minute at least. *)
LEMMA OpenAdds ==
  ASSUME NEW old \in DayRow, RowKept(old), settings.goal \in Nat, NEW stay \in Nat,
         NEW row \in DayRow, row.secs = old.secs + stay, row.snap = settings.goal,
         row.hit = old.hit, GoalOpen(row)
  PROVE  AddedMinutes(row.secs, stay) > 0
<1> DEFINE g == settings.goal
           a == old.secs
           b == row.secs
<1>0. Minute \in Nat \ {0} /\ a \in Nat /\ b \in Nat  BY ActivityAssumption DEF DayRow
<1>1. g # 0 /\ g \in Nat /\ b >= g * Minute /\ ~ row.hit  BY DEF GoalOpen
<1>2. a < g * Minute
  <2>1. CASE ~ old.there
    <3>1. a = 0  BY <2>1 DEF RowKept
    <3>2. g * Minute > 0  BY <1>0, <1>1
    <3> QED  BY <3>1, <3>2
  <2>2. CASE old.there
    <3>1. ~ (a >= g * Minute)  BY <1>1, <2>2 DEF RowKept, GoalOpen
    <3>2. g * Minute \in Int  BY <1>0, <1>1
    <3> QED  BY <1>0, <3>1, <3>2
  <2> QED  BY <2>1, <2>2
<1>3. b - stay = a  BY <1>0
<1> HIDE DEF g, a, b
<1>4. ~ (b < g * Minute)
  <2>1. g * Minute \in Int  BY <1>0, <1>1
  <2> QED  BY <1>0, <1>1, <2>1
<1>5. a \div Minute < g /\ ~ (b \div Minute < g)
  BY <1>0, <1>1, <1>2, <1>4, DivLess
<1>6. (a \div Minute) \in Int /\ (b \div Minute) \in Int  BY <1>0, DivRest
<1>7. (b \div Minute) - (a \div Minute) > 0  BY <1>1, <1>5, <1>6
<1> QED  BY <1>3, <1>7 DEF AddedMinutes, b

LEMMA UpsertKept == ASSUME Inv, KeptInv, NEW r \in Slot, Upsert(r) PROVE KeptInv'
<1> DEFINE t == tx[r]
           row == [there |-> TRUE, secs |-> day[t.day].secs + t.stay,
                   snap |-> IF t.old # 0 THEN t.old ELSE t.set.goal,
                   hit |-> day[t.day].hit]
           add == AddedMinutes(row.secs, t.stay)
           pc  == IF add > 0 THEN "minutes" ELSE AfterMinutes(row)
           u   == [t EXCEPT !.row = row, !.mins = add, !.locks = {"day"}, !.pc = pc]
<1>1. t.pc = "upsert" /\ Become(r, u) /\ UNCHANGED <<database, plain>>
  BY DEF Upsert, At
<1>2. t \in Tx /\ t.day \in Day /\ day[t.day] \in DayRow
  BY <1>1 DEF Inv, TypeOK, TxOK
<1>3. /\ row.secs = day[t.day].secs + t.stay /\ t.stay \in Nat /\ day[t.day].secs \in Nat
      /\ row.there /\ row.hit = day[t.day].hit
      /\ row.snap = IF t.old # 0 THEN t.old ELSE t.set.goal
  BY <1>2 DEF DayRow, Tx
<1>4. row \in DayRow
  <2>1. t.old \in Nat /\ t.set.goal \in Nat /\ day[t.day].hit \in BOOLEAN
    BY <1>2, ActivityAssumption DEF Tx, Settings, DayRow
  <2> QED  BY <1>3, <2>1 DEF DayRow
<1> HIDE DEF row
<1>5. ASSUME plain PROVE row.snap = settings.goal /\ (GoalOpen(row) => add > 0)
  <2>1. TxKept(t) /\ RowKept(day[t.day])  BY <1>2, <1>5 DEF KeptInv
  <2>2. t.set = settings /\ t.old \in {0, settings.goal}  BY <1>1, <2>1 DEF TxKept
  <2>3. settings.goal \in Nat  BY ActivityAssumption DEF Inv, TypeOK, Settings
  <2>4. row.snap = settings.goal  BY <1>3, <2>2
  <2> QED  BY <1>2, <1>3, <1>4, <2>1, <2>3, <2>4, OpenAdds
<1> HIDE DEF add
<1>6. u.pc = pc /\ u.row = row /\ u.set = t.set /\ u.day = t.day /\ u.locks = {"day"}
  BY <1>2 DEF Tx
<1>7. ASSUME plain PROVE TxKept(u)
  <2>1. pc \in {"minutes", "latest"} /\ (pc = "latest" => ~ GoalOpen(row))
    BY <1>5, <1>7 DEF AfterMinutes
  <2>2. u.set = settings  BY <1>1, <1>6, <1>7 DEF KeptInv, TxKept
  <2> HIDE DEF u, pc
  <2> QED  BY <1>3, <1>5, <1>6, <1>7, <2>1, <2>2 DEF TxKept
<1> HIDE DEF u
<1> QED  BY <1>1, <1>6, <1>7, LocalKept

LEMMA LateKept ==
  ASSUME Inv, KeptInv, NEW r \in Slot,
         AddMinutes(r) \/ FindLatest(r) \/ Expire(r)
  PROVE  KeptInv'
<1> DEFINE t == tx[r]
<1>0. t \in Tx /\ UNCHANGED <<database, plain>> /\ TxOK(t)
  BY DEF Inv, TypeOK, AddMinutes, FindLatest, Expire
<1>k. plain => TxKept(t)  BY DEF KeptInv
<1>1. CASE AddMinutes(r)
  <2> DEFINE pc == AfterMinutes(t.row)
             u  == [t EXCEPT !.pc = pc, !.locks = @ \cup {"stats"}]
  <2>1. t.pc = "minutes" /\ Become(r, u) /\ StatsFree(r)  BY <1>1 DEF AddMinutes, At
  <2>2. pc \in {"rows", "latest"} /\ (pc = "latest" => ~ GoalOpen(t.row))
    BY DEF AfterMinutes
  <2> HIDE DEF pc
  <2>3. u.pc = pc /\ u.row = t.row /\ u.set = t.set /\ u.day = t.day
        /\ u.locks = t.locks \cup {"stats"}
    BY <1>0 DEF Tx
  <2> HIDE DEF u
  <2>4. plain => TxKept(u)  BY <1>k, <2>1, <2>2, <2>3 DEF TxKept, Early
  <2>5. \A q \in Slot \ {r} : "stats" \notin tx[q].locks
    BY <2>1 DEF StatsFree, LockedBy
  <2> QED  BY <1>0, <2>1, <2>4, <2>5, LocalKept
<1>2. CASE FindLatest(r)
  <2>1. PICK pc \in {"award", "expire"} : Become(r, [t EXCEPT !.pc = pc])
    BY <1>2 DEF FindLatest
  <2> DEFINE u == [t EXCEPT !.pc = pc]
  <2>2. t.pc = "latest" /\ t.to = NoDay  BY <1>0, <1>2 DEF FindLatest, At, TxOK
  <2>3. u.pc = pc /\ u.row = t.row /\ u.set = t.set /\ u.day = t.day
        /\ u.locks = t.locks /\ u.to = t.to
    BY <1>0 DEF Tx
  <2>4. Become(r, u)  BY <2>1
  <2> HIDE DEF u
  <2>5. plain => TxKept(u)  BY <1>k, <2>2, <2>3 DEF TxKept, Early
  <2> QED  BY <1>0, <2>3, <2>4, <2>5, LocalKept
<1>3. CASE Expire(r)
  <2>1. t.pc = "expire" /\ t.to = NoDay  BY <1>0, <1>3 DEF Expire, At, TxOK
  <2>2. CASE stats.streak = 0
    <3> DEFINE u == [t EXCEPT !.pc = "award"]
    <3>1. Become(r, u)  BY <1>3, <2>2 DEF Expire
    <3>2. u.pc = "award" /\ u.row = t.row /\ u.set = t.set /\ u.day = t.day
          /\ u.locks = t.locks /\ u.to = t.to
      BY <1>0 DEF Tx
    <3> HIDE DEF u
    <3>3. plain => TxKept(u)  BY <1>k, <2>1, <3>2 DEF TxKept, Early
    <3> QED  BY <1>0, <3>1, <3>2, <3>3, LocalKept
  <2>3. CASE stats.streak # 0
    <3> DEFINE u == [t EXCEPT !.pc = "award", !.to = 0, !.max = stats.max,
                              !.locks = @ \cup {"stats"}]
    <3>1. Become(r, u) /\ StatsFree(r)  BY <1>3, <2>3 DEF Expire
    <3>2. u.pc = "award" /\ u.row = t.row /\ u.set = t.set /\ u.day = t.day
          /\ u.locks = t.locks \cup {"stats"} /\ u.to = 0 /\ u.max = stats.max
      BY <1>0 DEF Tx
    <3>3. stats.max <= stats.max
      BY ActivityAssumption DEF Inv, TypeOK, Stats
    <3> HIDE DEF u
    <3>4. plain => TxKept(u)  BY <1>k, <2>1, <3>2, <3>3 DEF TxKept, Early, NoDay
    <3>5. \A q \in Slot \ {r} : "stats" \notin tx[q].locks
      BY <3>1 DEF StatsFree, LockedBy
    <3> QED  BY <1>0, <3>1, <3>4, <3>5, LocalKept
  <2> QED  BY <2>2, <2>3
<1> QED  BY <1>1, <1>2, <1>3

LEMMA ClaimKept ==
  ASSUME Inv, KeptInv, NEW r \in Slot,
         FindRows(r) \/ ReadStats(r) \/ SetStreak(r) \/ Award(r)
  PROVE  KeptInv'
<1> DEFINE t == tx[r]
<1>0. t \in Tx /\ UNCHANGED <<database, plain>> /\ TxOK(t)
  BY DEF Inv, TypeOK, FindRows, ReadStats, SetStreak, Award
<1>k. plain => TxKept(t)  BY DEF KeptInv
<1>1. CASE FindRows(r)
  <2>1. PICK n \in 0..StreakRows :
          /\ IsStreak(Achieved \cup {t.day}, t.day, n)
          /\ Become(r, [t EXCEPT !.pc = "readStats", !.row.hit = TRUE, !.to = n])
    BY <1>1 DEF FindRows
  <2> DEFINE u == [t EXCEPT !.pc = "readStats", !.row.hit = TRUE, !.to = n]
  <2>2. t.pc = "rows"  BY <1>1 DEF FindRows, At
  <2>3. u.pc = "readStats" /\ u.row.hit /\ u.row.there = t.row.there
        /\ u.row.snap = t.row.snap /\ u.set = t.set /\ u.day = t.day
        /\ u.locks = t.locks /\ u.to = n
    BY <1>0 DEF Tx, DayRow
  <2>4. Become(r, u)  BY <2>1
  <2> HIDE DEF u
  <2>5. Claim(u)  BY <2>1, <2>3 DEF Claim
  <2>6. plain => TxKept(u)  BY <1>k, <2>2, <2>3, <2>5 DEF TxKept, Early
  <2> QED  BY <1>0, <2>3, <2>4, <2>6, LocalKept
<1>2. CASE ReadStats(r)
  <2> DEFINE u == [t EXCEPT !.pc = "setStreak", !.max = stats.max]
  <2>1. t.pc = "readStats" /\ Become(r, u)  BY <1>2 DEF ReadStats, At
  <2>2. u.pc = "setStreak" /\ u.row = t.row /\ u.set = t.set /\ u.day = t.day
        /\ u.locks = t.locks /\ u.to = t.to /\ u.max = stats.max
    BY <1>0 DEF Tx
  <2> HIDE DEF u
  <2>3. plain => TxKept(u)  BY <1>k, <2>1, <2>2 DEF TxKept, Early, Claim
  <2> QED  BY <1>0, <2>1, <2>2, <2>3, LocalKept
<1>3. CASE SetStreak(r)
  <2> DEFINE max == IF t.to > t.max THEN t.to ELSE t.max
             u   == [t EXCEPT !.pc = "award", !.max = max, !.locks = @ \cup {"stats"}]
  <2>1. t.pc = "setStreak" /\ Become(r, u) /\ StatsFree(r)  BY <1>3 DEF SetStreak, At
  <2>2. t.to # NoDay /\ t.to \in Nat /\ t.max \in Nat /\ stats.max \in Nat /\ t.day \in Day
    BY <1>0, <2>1, ActivityAssumption DEF TxOK, Tx, Inv, TypeOK, Stats
  <2>3. t.max <= max  BY <2>2
  <2> HIDE DEF max
  <2>4. u.pc = "award" /\ u.row = t.row /\ u.set = t.set /\ u.day = t.day
        /\ u.locks = t.locks \cup {"stats"} /\ u.to = t.to /\ u.max = max
    BY <1>0 DEF Tx
  <2> HIDE DEF u
  <2>5. ASSUME plain PROVE TxKept(u)
    <3>1. TxKept(t)  BY <1>k, <2>5
    <3>2. t.max = stats.max /\ t.row.hit /\ Claim(t) /\ t.row.there
          /\ t.row.snap = settings.goal /\ t.set = settings
      BY <2>1, <3>1 DEF TxKept, Early
    <3>3. t.to # 0
      <4>1. t.day \in Nat
        <5>1. t.day \in Day  BY <2>2
        <5> QED  BY <5>1, DayFinite
      <4> QED  BY <3>2, <4>1, StreakNotZero DEF Claim
    <3>4. Claim(u) /\ ~ GoalOpen(u.row)  BY <2>4, <3>2 DEF Claim, GoalOpen
    <3> QED  BY <2>2, <2>3, <2>4, <3>2, <3>3, <3>4 DEF TxKept
  <2>6. \A q \in Slot \ {r} : "stats" \notin tx[q].locks
    BY <2>1 DEF StatsFree, LockedBy
  <2> QED  BY <1>0, <2>1, <2>5, <2>6, LocalKept
<1>4. CASE Award(r)
  <2> DEFINE due == OwnStreak(r) >= StreakGoal /\ ~ badge
             u   == [t EXCEPT !.pc = "commit", !.due = due]
  <2>1. t.pc = "award" /\ Become(r, u)  BY <1>4 DEF Award, At
  <2> HIDE DEF due
  <2>2. u.pc = "commit" /\ u.row = t.row /\ u.set = t.set /\ u.day = t.day
        /\ u.locks = t.locks /\ u.to = t.to /\ u.max = t.max
    BY <1>0 DEF Tx
  <2> HIDE DEF u
  <2>3. plain => TxKept(u)  BY <1>k, <2>1, <2>2 DEF TxKept, Early, Claim
  <2> QED  BY <1>0, <2>1, <2>2, <2>3, LocalKept
<1> QED  BY <1>1, <1>2, <1>3, <1>4

LEMMA CommitWrites ==
  ASSUME Inv, NEW r \in Slot, Commit(r), ~ (tx[r].due /\ badge)
  PROVE  /\ day' = [day EXCEPT ![tx[r].day] = tx[r].row] /\ Achieved' = SeenBy(tx[r])
         /\ stats'.streak = IF tx[r].to = NoDay THEN stats.streak ELSE tx[r].to
         /\ stats'.max = IF tx[r].to = NoDay THEN stats.max ELSE tx[r].max
         /\ stats'.last = IF tx[r].to \in {0, NoDay} THEN stats.last ELSE tx[r].day
         /\ settings' = settings
         /\ plain' = (plain /\ \A d \in Day : day[d].there => d <= tx[r].day)
<1> DEFINE t == tx[r]
<1>0. t \in Tx /\ TxOK(t) /\ t.pc = "commit"  BY DEF Inv, TypeOK, Commit, At
<1>1. t.day \in Day /\ (day[t.day].hit => t.row.hit)  BY <1>0 DEF TxOK, Early
<1>2. /\ day' = [day EXCEPT ![t.day] = t.row] /\ settings' = settings
      /\ stats' = IF t.to = NoDay THEN [stats EXCEPT !.total = @ + t.mins]
                  ELSE [total |-> stats.total + t.mins, streak |-> t.to, max |-> t.max,
                        last |-> IF t.to = 0 THEN stats.last ELSE t.day]
      /\ plain' = (plain /\ \A d \in Day : day[d].there => d <= t.day)
  BY DEF Commit
<1>3. day \in [Day -> DayRow] /\ stats \in Stats  BY DEF Inv, TypeOK
<1>4. Achieved' = SeenBy(t)  BY <1>1, <1>2, <1>3 DEF Achieved, SeenBy
<1>5. /\ stats'.streak = IF t.to = NoDay THEN stats.streak ELSE t.to
      /\ stats'.max = IF t.to = NoDay THEN stats.max ELSE t.max
      /\ stats'.last = IF t.to \in {0, NoDay} THEN stats.last ELSE t.day
  BY <1>2, <1>3 DEF Stats, NoDay
<1> QED  BY <1>2, <1>4, <1>5

(* The one commit that writes the streak is a claim or an expiry, and it holds
   the statistics since before it read them. *)
LEMMA CommitBest ==
  ASSUME Inv, KeptInv, NEW r \in Slot, Commit(r), ~ (tx[r].due /\ badge)
  PROVE  BestStreakKept'
<1> DEFINE t == tx[r]
<1> SUFFICES ASSUME plain' PROVE BestStreakKept'  BY DEF BestStreakKept
<1>0. t \in Tx /\ TxOK(t) /\ t.pc = "commit" /\ t.day \in Day
  BY DEF Inv, TypeOK, Commit, At, TxOK
<1>1. /\ stats'.streak = IF t.to = NoDay THEN stats.streak ELSE t.to
      /\ stats'.max = IF t.to = NoDay THEN stats.max ELSE t.max
      /\ stats'.last = IF t.to \in {0, NoDay} THEN stats.last ELSE t.day
      /\ Achieved' = SeenBy(t) /\ plain
      /\ \A d \in Day : day[d].there => d <= t.day
  BY CommitWrites
<1>2. TxKept(t) /\ BestStreakKept /\ \A d \in Day : RowKept(day[d])
  BY <1>1 DEF KeptInv
<1>3. /\ stats.max \in Nat /\ stats.streak \in Nat /\ t.max \in Nat
      /\ t.to = NoDay \/ t.to \in Nat
  BY <1>0, ActivityAssumption DEF Inv, TypeOK, Stats, Tx
<1>4. \A n \in 0..StreakRows :
        /\ \A d \in Achieved : IsStreak(Achieved, d, n) => n <= stats.max
        /\ stats.last # NoDay /\ IsStreak(Achieved, stats.last, n) => stats.streak \in {0, n}
  BY <1>1, <1>2 DEF BestStreakKept
<1> DEFINE Goal1 == \A n \in 0..StreakRows :
             /\ \A d \in Achieved' : IsStreak(Achieved', d, n) => n <= stats'.max
             /\ stats'.last # NoDay /\ IsStreak(Achieved', stats'.last, n)
                  => stats'.streak \in {0, n}
<1>5. Goal1 => BestStreakKept'
  BY DEF BestStreakKept, IsStreak
<1>6. CASE t.row.hit = day[t.day].hit
  <2>1. Achieved' = Achieved
    BY <1>0, <1>1, <1>6 DEF SeenBy, Achieved
  <2>2. CASE t.to = NoDay
    <3>1. stats'.streak = stats.streak /\ stats'.max = stats.max /\ stats'.last = stats.last
      BY <1>1, <2>2
    <3>2. Goal1  BY <1>4, <2>1, <3>1
    <3> QED  BY <1>5, <3>2
  <2>3. CASE t.to = 0
    <3>1. stats'.streak = 0 /\ stats'.max = t.max /\ stats.max <= t.max
      BY <1>0, <1>1, <1>2, <2>3 DEF TxKept, NoDay
    <3>2. \A n \in 0..StreakRows : n \in Nat  BY ActivityAssumption
    <3>3. Goal1  BY <1>3, <1>4, <2>1, <3>1, <3>2
    <3> QED  BY <1>5, <3>3
  <2>4. CASE t.to # 0 /\ t.to # NoDay
    <3>1. Claim(t)  BY <1>0, <1>2, <2>4 DEF TxKept
    <3>2. t.row.hit  BY <1>0, <1>2, <2>4 DEF TxKept
    <3>3. stats'.streak = t.to /\ stats'.max = t.max /\ stats'.last = t.day
          /\ stats.max <= t.max /\ t.to <= t.max
      BY <1>0, <1>1, <1>2, <2>4 DEF TxKept, TxOK
    <3>4. Achieved \cup {t.day} = Achieved  BY <1>0, <1>6, <3>2 DEF Achieved
    <3>5. IsStreak(Achieved, t.day, t.to)  BY <3>1, <3>4 DEF Claim
    <3>6. t.day \in Nat  BY <1>0, DayFinite
    <3>7. \A n : IsStreak(Achieved, t.day, n) => n = t.to  BY <3>5, <3>6, StreakUnique
    <3>8. \A n \in 0..StreakRows : n \in Nat  BY ActivityAssumption
    <3>9. Goal1  BY <1>3, <1>4, <2>1, <3>3, <3>7, <3>8
    <3> QED  BY <1>5, <3>9
  <2> QED  BY <2>2, <2>3, <2>4
<1>7. CASE t.row.hit # day[t.day].hit
  <2>1. t.to # NoDay /\ t.to # 0 /\ t.row.hit /\ Claim(t) /\ stats.max <= t.max
    BY <1>0, <1>2, <1>7 DEF TxKept
  <2>2. t.to <= t.max /\ t.to \in Nat  BY <1>0, <1>3, <2>1 DEF TxOK
  <2>3. Achieved' = Achieved \cup {t.day}  BY <1>1, <2>1 DEF SeenBy
  <2>4. IsStreak(Achieved', t.day, t.to)  BY <2>1, <2>3 DEF Claim
  <2>5. t.day \in Nat /\ \A d \in Day : d \in Nat  BY <1>0, DayFinite
  <2>6. stats'.streak = t.to /\ stats'.max = t.max /\ stats'.last = t.day  BY <1>1, <2>1
  <2> DEFINE S == Achieved'
  <2>7. \A n : IsStreak(S, t.day, n) => n = t.to
    BY <2>4, <2>5, StreakUnique
  <2>8. \A n \in 0..StreakRows : n \in Nat  BY ActivityAssumption
  <2>9. ASSUME NEW n \in 0..StreakRows, NEW d \in S, IsStreak(S, d, n)
        PROVE  n <= t.max
    <3>1. CASE d = t.day  BY <2>2, <2>7, <2>9, <3>1
    <3>2. CASE d # t.day
      <4>1. d \in Achieved /\ d \in Day /\ day[d].hit  BY <2>3, <3>2 DEF Achieved
      <4>2. day[d].there  BY <1>2, <4>1 DEF RowKept
      <4>3. d <= t.day /\ d \in Nat  BY <1>1, <2>5, <4>1, <4>2
      <4>4. \A x \in Int : x <= d => (x \in S <=> x \in Achieved)
        BY <2>3, <2>5, <3>2, <4>3
      <4> HIDE DEF S
      <4>5. IsStreak(Achieved, d, n)  BY <2>9, <4>3, <4>4, StreakSame
      <4>6. n <= stats.max  BY <1>4, <4>1, <4>5
      <4> QED  BY <1>3, <2>1, <2>8, <4>6
    <3> QED  BY <3>1, <3>2
  <2>10. Goal1  BY <2>6, <2>7, <2>9
  <2> QED  BY <1>5, <2>10
<1> QED  BY <1>6, <1>7

LEMMA CommitKept == ASSUME Inv, KeptInv, NEW r \in Slot, Commit(r) PROVE KeptInv'
<1> DEFINE t == tx[r]
<1>0. t \in Tx /\ TxOK(t) /\ t.pc = "commit" /\ t.day \in Day /\ Become(r, Idle)
  BY DEF Inv, TypeOK, Commit, At, TxOK, Rollback
<1>1. CASE t.due /\ badge
  <2>1. UNCHANGED <<database, plain>>  BY <1>1 DEF Commit
  <2>2. "stats" \notin Idle.locks  BY IdleOK
  <2> QED  BY <1>0, <2>1, <2>2, IdleKept, LocalKept
<1>2. CASE ~ (t.due /\ badge)
  <2>0. day \in [Day -> DayRow]  BY DEF Inv, TypeOK
  <2>1. tx'[r] = Idle /\ \A q \in Slot \ {r} : tx'[q] = tx[q]
    BY <1>0 DEF Become, Inv, TypeOK
  <2>2. StatsExclusive'  BY <2>1, IdleOK DEF KeptInv, StatsExclusive
  <2>3. BestStreakKept'  BY <1>2, CommitBest
  <2>4. /\ day' = [day EXCEPT ![t.day] = t.row] /\ Achieved' = SeenBy(t)
        /\ stats'.max = IF t.to = NoDay THEN stats.max ELSE t.max
        /\ settings' = settings /\ (plain' => plain)
    BY <1>2, CommitWrites
  <2>5. ASSUME plain' PROVE \A d \in Day : RowKept(day[d])'
    <3>1. TxKept(t)  BY <2>4, <2>5 DEF KeptInv
    <3>2. t.row.there /\ t.row.snap = settings.goal /\ ~ GoalOpen(t.row)
      BY <1>0, <3>1 DEF TxKept, Early
    <3>3. RowKept(t.row)  BY <3>2 DEF RowKept
    <3>4. \A d \in Day : RowKept(day'[d])
      BY <1>0, <2>0, <2>4, <2>5, <3>3 DEF KeptInv
    <3> QED  BY <2>4, <3>4 DEF RowKept
  <2>6. ASSUME plain', NEW q \in Slot PROVE TxKept(tx[q])'
    <3>1. CASE q = r  BY <2>1, <3>1, IdleKept DEF TxKept, Idle, Early
    <3>2. CASE q # r
      <4> DEFINE v == tx[q]
      <4>1. tx'[q] = v /\ TxKept(v) /\ TxOK(v) /\ v \in Tx
        BY <2>1, <2>4, <2>6, <3>2 DEF KeptInv, Inv, TypeOK
      <4>2. "day" \in t.locks  BY <1>0 DEF TxOK, Early
      <4>3. v.pc \notin Early => day'[v.day] = day[v.day]
        <5>1. v.pc \notin Early => v.day # t.day /\ v.day \in Day
          BY <3>2, <4>1, <4>2 DEF Inv, Exclusive, TxOK, Early
        <5> QED  BY <2>0, <2>4, <5>1
      <4>4. "stats" \in v.locks => Achieved' = Achieved /\ stats'.max = stats.max
        <5> SUFFICES ASSUME "stats" \in v.locks
                     PROVE  Achieved' = Achieved /\ stats'.max = stats.max
          OBVIOUS
        <5>1. "stats" \notin t.locks  BY <3>2 DEF KeptInv, StatsExclusive
        <5>2. TxKept(t)  BY <2>4, <2>6 DEF KeptInv
        <5>3. t.to = NoDay /\ t.row.hit = day[t.day].hit  BY <1>0, <5>1, <5>2 DEF TxKept
        <5> QED  BY <1>0, <2>4, <5>3 DEF SeenBy, Achieved
      <4>5. "stats" \in v.locks => (Claim(v) => IsStreak(Achieved' \cup {v.day}, v.day, v.to))
        BY <4>4 DEF Claim
      <4>6. TxKept(tx[q])' <=>
              /\ v.pc # "idle" => v.set = settings'
              /\ v.pc = "upsert" => v.old \in {0, settings'.goal}
              /\ v.pc \notin Early => v.row.there /\ v.row.snap = settings'.goal
              /\ v.pc \in {"minutes", "latest", "expire"} => v.row.hit = day'[v.day].hit
              /\ v.pc \in {"latest", "expire", "award", "commit"} => ~ GoalOpen(v.row)
              /\ v.pc \in {"rows", "readStats", "setStreak"} => "stats" \in v.locks
              /\ v.pc \in {"readStats", "setStreak"} =>
                   v.row.hit /\ IsStreak(Achieved' \cup {v.day}, v.day, v.to)
              /\ v.pc = "setStreak" => v.max = stats'.max
              /\ v.pc \in {"award", "commit"} /\ v.to = NoDay => v.row.hit = day'[v.day].hit
              /\ v.pc \in {"award", "commit"} /\ v.to # NoDay =>
                   /\ "stats" \in v.locks /\ stats'.max <= v.max
                   /\ \/ v.to = 0 /\ v.row.hit = day'[v.day].hit
                      \/ v.to # 0 /\ v.row.hit
                           /\ IsStreak(Achieved' \cup {v.day}, v.day, v.to)
        BY <4>1 DEF TxKept, Claim, IsStreak, GoalOpen, Early
      <4> HIDE DEF v
      <4> QED  BY <2>4, <4>1, <4>3, <4>4, <4>5, <4>6 DEF TxKept, Early
    <3> QED  BY <3>1, <3>2
  <2> QED  BY <2>2, <2>3, <2>5, <2>6 DEF KeptInv
<1> QED  BY <1>1, <1>2

LEMMA NextKept == ASSUME Inv, KeptInv, [Next]_vars PROVE KeptInv'
<1>1. ASSUME NEW r \in Slot, FindExisting(r) PROVE KeptInv'
  <2> DEFINE t == tx[r]
             d == LocalDay(clock, t.set.zone)
             u == [t EXCEPT !.pc = "upsert", !.day = d, !.old = day[d].snap]
  <2>0. t \in Tx /\ t.pc = "existing"  BY <1>1 DEF Inv, TypeOK, FindExisting, At
  <2>1. Become(r, u) /\ UNCHANGED <<database, plain>>  BY <1>1 DEF FindExisting
  <2>2. d \in Day  BY <2>0 DEF Inv, TypeOK, Tx, Settings, Day
  <2> HIDE DEF d
  <2>3. u.pc = "upsert" /\ u.set = t.set /\ u.old = day[d].snap /\ u.locks = t.locks
    BY <2>0 DEF Tx
  <2> HIDE DEF u
  <2>4. ASSUME plain PROVE TxKept(u)
    <3>1. TxKept(t) /\ RowKept(day[d])  BY <2>2, <2>4 DEF KeptInv
    <3>2. day[d].there \in BOOLEAN  BY <2>2 DEF Inv, TypeOK, DayRow
    <3>3. u.set = settings /\ u.old \in {0, settings.goal}
      BY <2>0, <2>3, <3>1, <3>2 DEF TxKept, RowKept
    <3> QED  BY <2>3, <3>3 DEF TxKept, Early
  <2> QED  BY <2>1, <2>3, <2>4, LocalKept
<1>2. ASSUME NEW r \in Slot, Step(r) PROVE KeptInv'
  BY <1>1, <1>2, UpsertKept, LateKept, ClaimKept, CommitKept DEF Step
<1>3. ASSUME NEW r \in Slot, Abort(r) PROVE KeptInv'
  <2>1. Become(r, Idle) /\ UNCHANGED <<database, plain>>  BY <1>3 DEF Abort, Rollback
  <2> QED  BY <2>1, IdleKept, IdleOK, LocalKept
<1>4. ASSUME NEW r \in Slot, NEW stay \in Stay, StartSave(r, stay) PROVE KeptInv'
  <2> DEFINE u == [Idle EXCEPT !.pc = "existing", !.stay = stay, !.set = settings]
  <2>1. Become(r, u) /\ UNCHANGED <<database, plain>>  BY <1>4 DEF StartSave
  <2>2. u.pc = "existing" /\ u.set = settings /\ u.locks = {}  BY DEF Idle
  <2> HIDE DEF u
  <2>3. TxKept(u)  BY <2>2 DEF TxKept, Early
  <2> QED  BY <2>1, <2>2, <2>3, LocalKept
<1>5. CASE Tick \/ UNCHANGED vars
  <2>1. UNCHANGED <<settings, day, stats, tx, plain>>  BY <1>5 DEF Tick, vars, database
  <2> QED  BY <2>1 DEF KeptInv, StatsExclusive, RowKept, TxKept, Claim, Achieved,
                       BestStreakKept
<1>6. ASSUME NEW set \in Settings, ChangeSettings(set) PROVE KeptInv'
  BY <1>6 DEF ChangeSettings, KeptInv, StatsExclusive, BestStreakKept
<1> QED  BY <1>2, <1>3, <1>4, <1>5, <1>6 DEF Next

LEMMA KeptHolds == Spec => []KeptInv
BY InvHolds, InitKept, NextKept, PTL DEF Spec

(* No streak is lost while days are booked in order under the same settings:
   the best one covers every run, and the cached one is the run that ends at
   lastAttendanceDate or has expired, however saves of one day and of two days
   overlap at midnight. *)
THEOREM BestStreakKeptHolds == Spec => []BestStreakKept
<1>1. KeptInv => BestStreakKept  BY DEF KeptInv
<1> QED  BY <1>1, KeptHolds, PTL

-----------------------------------------------------------------------------
(* The two screens agree: what they show follows from what is kept. *)
LEMMA WeekIsSum ==
  ASSUME NEW W, IsFiniteSet(W)
  PROVE  \E h : IsSum(h, [x \in W |-> Secs(x)], W) /\ MapThenSumSet(Secs, W) = h[W]
<1> DEFINE g == [x \in W |-> Secs(x)]
           h == CHOOSE k : k = [s \in SUBSET W |-> IF s = {} THEN 0
                  ELSE Secs(Pick(s)) + k[s \ {Pick(s)}]]
<1>1. PICK k : IsSum(k, g, W)  BY SumExists
<1>2. \A s \in SUBSET W : s # {} => g[Pick(s)] = Secs(Pick(s))  BY PickIn
<1>3. k = [s \in SUBSET W |-> IF s = {} THEN 0 ELSE g[Pick(s)] + k[s \ {Pick(s)}]]
  BY <1>1 DEF IsSum, Adds
<1> HIDE DEF g
<1>4. k = [s \in SUBSET W |-> IF s = {} THEN 0 ELSE Secs(Pick(s)) + k[s \ {Pick(s)}]]
  BY <1>2, <1>3
<1>5. h = [s \in SUBSET W |-> IF s = {} THEN 0 ELSE Secs(Pick(s)) + h[s \ {Pick(s)}]]
  BY <1>4
<1>6. MapThenSumSet(Secs, W) = h[W]
  BY DEF MapThenSumSet, MapThenFoldSet, Pick
<1> HIDE DEF h
<1>7. h = [s \in SUBSET W |-> IF s = {} THEN 0 ELSE g[Pick(s)] + h[s \ {Pick(s)}]]
  BY <1>2, <1>5
<1> QED  BY <1>6, <1>7 DEF IsSum, Adds, g

(* The seconds of a week against its days and against the total: each day's
   seconds exceed its whole minutes by less than a minute. *)
LEMMA WeekBound ==
  ASSUME Inv, MinutesInv, NEW W, IsFiniteSet(W), NEW today \in W,
         NEW sum, sum = MapThenSumSet(Secs, W)
  PROVE  /\ sum \in Nat /\ Secs(today) \in Nat /\ Secs(today) <= sum
         /\ stats.total \in Nat
         /\ sum <= Minute * stats.total + (Minute - 1) * Cardinality(W)
<1> DEFINE D == Day \cup W
           g == [x \in W |-> Secs(x)]
           f == [x \in D |-> Secs(x) \div Minute]
           m == [x \in Day |-> day[x].secs \div Minute]
<1>0. IsFiniteSet(D) /\ IsFiniteSet(Day)  BY DayFinite, FS_Union
<1>m. Minute \in Nat \ {0}  BY ActivityAssumption
<1>1. \A x : Secs(x) \in Nat
  BY DEF Secs, Inv, TypeOK, DayRow
<1>2. \A x : /\ Secs(x) \div Minute \in Nat
             /\ Secs(x) <= Minute * (Secs(x) \div Minute) + (Minute - 1)
  <2> SUFFICES ASSUME NEW x
               PROVE  /\ Secs(x) \div Minute \in Nat
                      /\ Secs(x) <= Minute * (Secs(x) \div Minute) + (Minute - 1)
    OBVIOUS
  <2> DEFINE a == Secs(x)
             b == Minute * (a \div Minute)
  <2>1. a \in Nat  BY <1>1
  <2> HIDE DEF a
  <2>2. a \div Minute \in Nat /\ b \in Nat /\ a < b + Minute  BY <1>m, <2>1, DivRest
  <2> HIDE DEF b
  <2>3. a <= b + (Minute - 1)  BY <1>m, <2>1, <2>2
  <2> QED  BY <2>2, <2>3 DEF a, b
<1>3. PICK h : IsSum(h, g, W) /\ sum = h[W]  BY WeekIsSum
<1>4. PICK k : IsSum(k, f, D)  BY <1>0, SumExists
<1>5. PICK j : IsSum(j, m, Day) /\ Total(day) = j[Day]  BY TotalIsSum
<1>6. W \subseteq D /\ Day \subseteq D  OBVIOUS
<1>7. (\A x \in W : g[x] = Secs(x)) /\ (\A x \in D : f[x] = Secs(x) \div Minute)
      /\ (\A x \in Day : m[x] = f[x])
  BY DEF Secs
<1>8. \A x \in D \ Day : f[x] = 0
  <2>1. 0 \div Minute = 0  BY <1>m
  <2> QED  BY <2>1 DEF Secs
<1> HIDE DEF D, f, g, m
<1>9. (\A x \in W : g[x] \in Nat) /\ (\A x \in D : f[x] \in Nat)
  BY <1>1, <1>2, <1>7
<1>10. sum \in Nat /\ Secs(today) <= sum
  <2>1. \A x \in W : g[x] \in Nat  BY <1>9
  <2>2. IsSum(h, g, W)  BY <1>3
  <2>3. {today} \subseteq W /\ W \subseteq W  OBVIOUS
  <2>4. 0 <= h[W] /\ h[{today}] <= h[W]  BY <2>1, <2>2, <2>3, SumGrows
  <2>5. \A x \in W : g[x] \in Int  BY <2>1
  <2>6. \A t \in SUBSET W : h[t] \in Int  BY <2>2, <2>5, SumType
  <2>7. h[W] \in Int  BY <2>6
  <2>8. h[{today}] = g[today] + h[{today} \ {today}]
    <3>1. Pick({today}) = today  BY PickIn
    <3> QED  BY <2>2, <2>3, <3>1, SumAt
  <2>9. {today} \ {today} = {}  OBVIOUS
  <2>10. h[{}] = 0  BY <2>2, SumAt
  <2>11. h[{today}] = g[today] + 0  BY <2>8, <2>9, <2>10
  <2>12. g[today] = Secs(today) /\ g[today] \in Nat  BY <1>7, <1>9
  <2> QED  BY <1>3, <2>4, <2>7, <2>11, <2>12
<1>11. k[W] <= k[D] /\ 0 <= k[D] /\ k[W] \in Int /\ k[D] \in Int
  <2>1. \A x \in D : f[x] \in Nat  BY <1>9
  <2>2. W \subseteq D /\ IsFiniteSet(D)  BY <1>0, <1>6
  <2>3. 0 <= k[W] /\ k[W] <= k[D]  BY <1>4, <2>1, <2>2, SumGrows
  <2>4. \A x \in D : f[x] \in Int  BY <2>1
  <2>5. \A t \in SUBSET D : k[t] \in Int  BY <1>4, <2>2, <2>4, SumType
  <2>6. k[W] \in Int /\ k[D] \in Int  BY <2>2, <2>5
  <2> QED  BY <2>3, <2>6
<1>12. k[D] = stats.total
  <2>1. \A x \in D : f[x] \in Int  BY <1>9
  <2>2. k[D] = k[Day]
    BY <1>0, <1>4, <1>6, <1>8, <2>1, SumZeros
  <2>3. IsSum(j, m, Day)  BY <1>5
  <2>4. k[Day] = j[Day]
    BY <1>0, <1>4, <1>6, <1>7, <2>3, SumAgree
  <2>5. stats.total = Total(day)  BY CountedTotal DEF MinutesInv
  <2> QED  BY <1>5, <2>2, <2>4, <2>5
<1>13. h[W] <= Minute * k[W] + (Minute - 1) * Cardinality(W)
  <2> DEFINE e == [x \in W |-> f[x]]
  <2>1. PICK i : IsSum(i, e, W)  BY SumExists
  <2>2. \A x \in W : e[x] = f[x]  OBVIOUS
  <2> HIDE DEF e
  <2>3. i[W] = k[W]
    <3>1. W \subseteq W  OBVIOUS
    <3> QED  BY <1>0, <1>4, <1>6, <2>1, <2>2, <3>1, SumAgree
  <2>4. \A x \in W : e[x] \in Int  BY <1>6, <1>9, <2>2
  <2>5. \A x \in W : g[x] \in Int  BY <1>9
  <2>6. \A x \in W : g[x] <= Minute * e[x] + (Minute - 1)
    BY <1>2, <1>6, <1>7, <2>2
  <2>7. Minute \in Int /\ Minute - 1 \in Int  BY <1>m
  <2>8. IsSum(h, g, W)  BY <1>3
  <2>9. h[W] <= Minute * i[W] + (Minute - 1) * Cardinality(W)
    BY <2>1, <2>4, <2>5, <2>6, <2>7, <2>8, SumBounded
  <2> QED  BY <2>3, <2>9
<1>14. Minute * k[W] <= Minute * k[D]
  <2> DEFINE a == k[W]
             b == k[D]
  <2>1. a \in Int /\ b \in Int /\ a <= b  BY <1>11
  <2> HIDE DEF a, b
  <2>2. Minute * a <= Minute * b  BY <1>m, <2>1
  <2> QED  BY <2>2 DEF a, b
<1>15. sum <= Minute * k[D] + (Minute - 1) * Cardinality(W)
  <2> DEFINE a == Minute * k[W]
             b == Minute * k[D]
             c == (Minute - 1) * Cardinality(W)
  <2>1. Cardinality(W) \in Nat  BY FS_CardinalityType
  <2>2. a \in Int /\ b \in Int /\ c \in Int  BY <1>m, <1>11, <2>1
  <2>3. a <= b /\ sum <= a + c  BY <1>3, <1>13, <1>14
  <2> HIDE DEF a, b, c
  <2>4. sum <= b + c  BY <1>10, <2>2, <2>3
  <2> QED  BY <2>4 DEF b, c
<1>16. stats.total \in Nat  BY <1>11, <1>12
<1> QED  BY <1>1, <1>10, <1>12, <1>15, <1>16

LEMMA ScreensFollow == Inv /\ MinutesInv /\ KeptInv => ScreensAgree
<1> SUFFICES ASSUME Inv, MinutesInv, KeptInv PROVE ScreensAgree  OBVIOUS
<1> DEFINE monday == Today - (Today % WeekLen)
           week   == monday..(monday + WeekLen - 1)
           from   == IF Today \in Achieved THEN Today ELSE Today - 1
           sum    == MapThenSumSet(Secs, week)
<1>1. Today \in Day /\ Today \in Nat
  <2>1. Today \in Day  BY DEF Today, Day, Inv, TypeOK, Settings
  <2> QED  BY <2>1, DayFinite
<1>2. WeekLen \in Nat \ {0} /\ Minute \in Nat \ {0} /\ StreakRows \in Nat \ {0}
  BY ActivityAssumption
<1>3. Today % WeekLen \in Nat /\ Today % WeekLen < WeekLen /\ Today % WeekLen <= Today
  BY <1>1, <1>2, ModBound
<1>4. monday \in Nat /\ Today \in week /\ monday + (Today % WeekLen) = Today
      /\ Today % WeekLen \in 0..(WeekLen - 1)
  <2> DEFINE w == Today % WeekLen
  <2>1. w \in Nat /\ w < WeekLen /\ w <= Today  BY <1>3
  <2>2. monday = Today - w  OBVIOUS
  <2> HIDE DEF w, monday
  <2>3. monday \in Nat /\ monday <= Today /\ Today <= monday + WeekLen - 1
        /\ monday + w = Today /\ w \in 0..(WeekLen - 1)
    BY <1>1, <1>2, <2>1, <2>2
  <2>4. Today \in week  BY <1>1, <1>2, <2>3
  <2> QED  BY <2>3, <2>4 DEF w
<1>5. ShownStreak \in 0..StreakRows /\ IsStreak(Achieved, from, ShownStreak)
  <2>1. from \in Int  BY <1>1
  <2> HIDE DEF from
  <2>2. \E n \in 0..StreakRows : IsStreak(Achieved, from, n)  BY <2>1, StreakExists
  <2> QED  BY <2>2 DEF ShownStreak, from
<1>6. plain => Dashboard.current <= Dashboard.best
  <2> SUFFICES ASSUME plain PROVE ShownStreak <= stats.max  BY DEF Dashboard
  <2>1. ShownStreak \in Nat /\ stats.max \in Nat
    BY <1>5, ActivityAssumption DEF Inv, TypeOK, Stats
  <2>2. CASE ShownStreak = 0  BY <2>1, <2>2
  <2>3. CASE ShownStreak # 0
    <3>1. 0 \in 0..(ShownStreak - 1)  BY <2>1, <2>3
    <3>2. from - 0 \in Achieved  BY <1>5, <3>1 DEF IsStreak
    <3>3. from - 0 = from  BY <1>1
    <3> QED  BY <1>5, <3>2, <3>3 DEF KeptInv, BestStreakKept
  <2> QED  BY <2>2, <2>3
<1>7. IsFiniteSet(week) /\ Cardinality(week) = WeekLen
  <2> HIDE DEF monday
  <2>1. monday \in Int /\ monday + WeekLen - 1 \in Int  BY <1>2, <1>4
  <2>2. IsFiniteSet(week) /\ Cardinality(week) =
          IF monday > monday + WeekLen - 1 THEN 0
          ELSE (monday + WeekLen - 1) - monday + 1
    BY <2>1, FS_Interval
  <2> QED  BY <1>2, <1>4, <2>2
<1> HIDE DEF week
<1>8. /\ sum \in Nat /\ Secs(Today) \in Nat /\ Secs(Today) <= sum
      /\ stats.total \in Nat
      /\ sum <= Minute * stats.total + (Minute - 1) * Cardinality(week)
  BY <1>4, <1>7, WeekBound
<1>9. HomeResume.todayMin = Secs(Today) \div Minute /\ HomeResume.weekMin = sum \div Minute
      /\ HomeResume.dailyStreak = ShownStreak /\ Dashboard.total = stats.total
  BY DEF HomeResume, Dashboard, week
<1> HIDE DEF sum
<1>10. HomeResume.todayMin <= HomeResume.weekMin  BY <1>2, <1>8, <1>9, DivMono
<1>11. HomeResume.weekMin < Dashboard.total + WeekLen
  <2> DEFINE a == stats.total
             g == a + WeekLen
  <2>1. a \in Nat /\ g \in Int /\ sum <= Minute * a + (Minute - 1) * WeekLen
    BY <1>2, <1>7, <1>8
  <2>2. g * Minute = Minute * a + (Minute - 1) * WeekLen + WeekLen
    BY <1>2, <2>1
  <2>3. Minute * a + (Minute - 1) * WeekLen \in Int  BY <1>2, <2>1
  <2> HIDE DEF g, a
  <2>4. sum < g * Minute  BY <1>2, <1>8, <2>1, <2>2, <2>3
  <2>5. sum \div Minute < g  BY <1>2, <1>8, <2>1, <2>4, DivLess
  <2> QED  BY <1>9, <2>5 DEF g, a
<1>12. HomeResume.weeklyAttendance[Today % WeekLen] => HomeResume.dailyStreak > 0
  <2> SUFFICES ASSUME HomeResume.weeklyAttendance[Today % WeekLen] PROVE ShownStreak > 0
    BY <1>9
  <2>1. HomeResume.weeklyAttendance = [i \in 0..(WeekLen - 1) |-> monday + i \in Achieved]
    BY DEF HomeResume
  <2>2. monday + (Today % WeekLen) \in Achieved
    <3> DEFINE w == Today % WeekLen
               M == monday
    <3>1. w \in 0..(WeekLen - 1)  BY <1>4
    <3>2. HomeResume.weeklyAttendance[w]  OBVIOUS
    <3>3. HomeResume.weeklyAttendance = [i \in 0..(WeekLen - 1) |-> M + i \in Achieved]
      BY <2>1
    <3> HIDE DEF w, M
    <3>4. [i \in 0..(WeekLen - 1) |-> M + i \in Achieved][w] = (M + w \in Achieved)
      BY <3>1
    <3>5. M + w \in Achieved  BY <3>2, <3>3, <3>4, Zenon
    <3> QED  BY <3>5 DEF w, M
  <2>3. Today \in Achieved  BY <1>4, <2>2
  <2>4. from = Today  BY <2>3
  <2>5. ShownStreak # 0  BY <1>1, <1>5, <2>3, <2>4, StreakNotZero
  <2> QED  BY <1>2, <1>5, <2>5
<1> QED  BY <1>6, <1>10, <1>11, <1>12 DEF ScreensAgree

(* The two screens agree, in every reachable state: a streak shown is never
   above the best one while days are booked in order, and the minutes of the
   week exceed the total by less than one a day. *)
THEOREM ScreensAgreeHolds == Spec => []ScreensAgree
BY InvHolds, MinutesHolds, KeptHolds, ScreensFollow, PTL
=============================================================================
