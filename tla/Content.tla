------------------------------- MODULE Content -------------------------------
(***************************************************************************)
(* The course tree: courses, lessons, sections and the cards, materials    *)
(* and questions of a section.  It is written by the administration        *)
(* handlers and by three import scripts (prisma/seed.ts, seed-courses.js,  *)
(* notion-sync.ts), none of which runs in a transaction and none of which  *)
(* is protected by a unique constraint.  A learner's rows hang below the   *)
(* tree: deleting a section deletes its logs, deleting a question deletes  *)
(* its answer counts, and a bookmark of a deleted row only loses its       *)
(* reference.                                                              *)
(*                                                                         *)
(* A row of the kind card, material or question stands for the rows of     *)
(* that kind one createMany wrote.  There is one learner: no query here    *)
(* reads another learner's rows.                                           *)
(***************************************************************************)
EXTENDS Naturals, Sequences, FiniteSets, SequencesExt

CONSTANTS Run,       \* runs of the import scripts, each used once
          Admin,     \* administration requests, each used once
          File,      \* what the scripts import: entries in depth-first order
          Launches,  \* the <<script, mode>> pairs a run may be started with
          MaxRows,   \* bound on the rows ever created
          NoId

\* What the flags of the scripts select; --force with --missing-only is left out.
Modes == {<<"seed", "default">>, <<"seed", "force">>, <<"courses", "default">>,
          <<"courses", "missing">>, <<"courses", "force">>,
          <<"notion", "default">>, <<"notion", "safe">>}

ASSUME ContentAssumption ==
    /\ MaxRows \in Nat
    /\ NoId \notin Nat /\ Run \cap Admin = {}
    /\ Launches \subseteq Modes

\* Entry i is the course (n = 1) or lesson (n = 2) of entry j.
Above(i, j, n) == /\ Len(File[i].path) = n
                  /\ \A m \in 1..n : File[i].path[m] = File[j].path[m]

\* The files under prisma/data give every place once, and a place comes after
\* its lesson, and that after its course, with nothing of another in between.
ASSUME FileAssumption ==
    /\ DOMAIN File \subseteq Nat
    /\ \A i \in DOMAIN File :
          /\ File[i].path \in Seq(Nat) /\ Len(File[i].path) \in 1..3
          /\ File[i].has \subseteq {"card", "material", "question"}
    /\ \A i, j \in DOMAIN File : File[i].path = File[j].path => i = j
    /\ \A j \in DOMAIN File : \A n \in 1..(Len(File[j].path) - 1) :
          \E i \in DOMAIN File :
             /\ i < j /\ Above(i, j, n)
             /\ \A k \in (DOMAIN File) \cap ((i + 1)..(j - 1)) : Len(File[k].path) > n

VARIABLES rows,     \* [id, kind, up, num]: the rows of the tree
          next,     \* the next id; ids are never used twice
          log,      \* the learner's section logs
          scraps,   \* the learner's bookmarks
          stats,    \* the questions with answer counts of the learner
          prefs,    \* the lessons with preferences of the learner
          run,      \* the state of each script run
          admin,    \* the state of each administration request
          alone     \* runs during which no one else wrote to the tree so far

userVars == <<log, scraps, stats, prefs>>
contentVars == <<rows, next, userVars, run, admin, alone>>

Id == 1..MaxRows
Tree == <<"course", "lesson", "section">>
Kinds == <<"card", "material", "question">>
ParentKind == [course |-> "root", lesson |-> "course", section |-> "lesson",
               card |-> "section", material |-> "section", question |-> "section"]

Nums == {Last(File[i].path) : i \in DOMAIN File}
Ids == {x.id : x \in rows}
Below(S) == S \cup {x.id : x \in {y \in rows : y.up \in S}}
Kids(i) == {x \in rows : x.up = i}
Of(i, kind) == {x \in Kids(i) : x.kind = kind}

-----------------------------------------------------------------------------
(* The database.                                                           *)

\* A row is created below i; the foreign key rejects a parent that is gone.
Add(kind, i, num) ==
    /\ next <= MaxRows
    /\ rows' = rows \cup {[id |-> next, kind |-> kind, up |-> i, num |-> num]}
    /\ next' = next + 1
    /\ UNCHANGED userVars

ParentThere(i) == i = 0 \/ i \in Ids

\* Mutant of Drop: the cascade stops one level too early.
DropShallow(S) ==
    LET doomed == Below(Below(S))
    IN  /\ rows' = {x \in rows : x.id \notin doomed}
        /\ log' = {l \in log : l.section \notin doomed}
        /\ scraps' = {s \in scraps : {s.item, s.section} \cap doomed = {}}
        /\ stats' = stats \ doomed /\ prefs' = prefs \ doomed
        /\ UNCHANGED next

\* ON DELETE CASCADE below the rows S, ON DELETE SET NULL in the bookmarks.
Drop(S) ==
    LET doomed == Below(Below(Below(S)))
        Kept(i) == IF i \in doomed THEN NoId ELSE i
    IN  /\ rows' = {x \in rows : x.id \notin doomed}
        /\ log' = {l \in log : l.section \notin doomed}
        /\ scraps' = {[item |-> Kept(s.item), section |-> Kept(s.section)] : s \in scraps}
        /\ stats' = stats \ doomed
        /\ prefs' = prefs \ doomed
        /\ UNCHANGED next

\* Ghost: whoever else is running was not alone.
Disturb(me) == alone' = alone \cap {me}

-----------------------------------------------------------------------------
(* What each script visits, and what it decides about a section.           *)

\* A visit <<g, i>> is to entry i as part of group g; visits go in the order of
\* Before.  Only notion-sync.ts has groups, one for each lesson.
Before(v, w) == v[1] < w[1] \/ (v[1] = w[1] /\ v[2] < w[2])
Foremost(V) == CHOOSE v \in V : \A w \in V \ {v} : Before(v, w)

\* seed.ts walks every course, lesson and section file.
SeedVisits == {0} \X (DOMAIN File)

\* seed-courses.js can be told to take one course or one lesson only (0: all).
CoursesVisits(course, lesson) ==
    {0} \X {i \in DOMAIN File : LET path == File[i].path IN
                 /\ course \in {0, path[1]}
                 /\ Len(path) = 1 \/ lesson \in {0, path[2]}}

\* notion-sync.ts takes the lessons that are written, each with its course and
\* its vocabulary table, if it has one, which becomes the section with order 1.
NotionVisits ==
    {v \in (DOMAIN File) \X (DOMAIN File) :
        LET l == File[v[1]]
            e == File[v[2]]
        IN  /\ Len(l.path) = 2 /\ l.written
            /\ \/ e.path \in {<<l.path[1]>>, l.path}
               \/ e.path = Append(l.path, 1) /\ "card" \in e.has}

Filter == LET At(n) == {0} \cup {e.path[n] : e \in {x \in Range(File) : Len(x.path) >= n}}
          IN  At(1) \X At(2)

Visits(script, filter) ==
    CASE script = "seed"    -> SeedVisits
      [] script = "courses" -> CoursesVisits(filter[1], filter[2])
      [] script = "notion"  -> NotionVisits

\* seed-courses.js also takes the gradable practice inside the materials.
SectionQuestions(e) == IF e.practice THEN {"question"} ELSE {}

Wanted(script, e) ==
    CASE script = "seed"    -> e.has
      [] script = "courses" -> e.has \cup SectionQuestions(e)
      [] script = "notion"  -> {"card"}

InOrder(S) == LET Just(k) == IF k \in S THEN <<k>> ELSE <<>>
              IN  Just("card") \o Just("material") \o Just("question")
Nothing == [clear |-> <<>>, write |-> <<>>]

\* seed.ts: a section with content is left alone, or replaced by --force.
SeedPlan(had, wanted, mode) ==
    IF had # {} /\ mode # "force" THEN Nothing
    ELSE [clear |-> IF had # {} THEN Kinds ELSE <<>>, write |-> InOrder(wanted)]

\* Mutants of CoursesPlan: an else-if chain adds the first missing kind only,
\* and the rows are cleared whatever the mode.
CoursesPlanElseIf(had, wanted, mode) ==
    LET missing == InOrder(wanted \ had)
    IN  IF had # {} /\ mode = "default" THEN Nothing
        ELSE [clear |-> <<>>, write |-> IF missing = <<>> THEN <<>> ELSE <<Head(missing)>>]
CoursesPlanClears(had, wanted, mode) ==
    IF had # {} /\ mode = "default" THEN Nothing
    ELSE [clear |-> IF had # {} THEN Kinds ELSE <<>>, write |-> InOrder(wanted)]

\* seed-courses.js: --missing-only adds the kinds of which there is no row.
CoursesPlan(had, wanted, mode) ==
    IF had # {} /\ mode = "default" THEN Nothing
    ELSE [clear |-> IF had # {} /\ mode = "force" THEN Kinds ELSE <<>>,
          write |-> InOrder(IF mode = "force" THEN wanted ELSE wanted \ had)]

\* notion-sync.ts replaces the cards, unless --safe finds some.
VocabPlan(had, mode) ==
    IF "card" \in had /\ mode = "safe" THEN Nothing
    ELSE [clear |-> InOrder(had \cap {"card"}), write |-> <<"card">>]

Plan(r, had, wanted) ==
    CASE r.script = "seed"    -> SeedPlan(had, wanted, r.mode)
      [] r.script = "courses" -> CoursesPlan(had, wanted, r.mode)
      [] r.script = "notion"  -> VocabPlan(had, r.mode)

-----------------------------------------------------------------------------
(* A run of a script.                                                      *)

IdleRun == [pc |-> "idle", script |-> "seed", mode |-> "default", visits |-> {}, at |-> <<0, 0>>,
            hit |-> NoId, path |-> [n \in 1..4 |-> IF n = 1 THEN 0 ELSE NoId],
            clear |-> <<>>, write |-> <<>>, ok |-> FALSE]

Entry(r) == File[r.at[2]]
Level(r) == Len(Entry(r).path)
Parent(r) == r.path[Level(r)]
Here(r) == r.path[Level(r) + 1]

Goes(r, rec) == run' = [run EXCEPT ![r] = rec]
Fails(r) == Goes(r, [IdleRun EXCEPT !.pc = "ended"])

\* A run goes on to the first of the visits V, if any is left.
Visit(rec, V) ==
    IF V = {} THEN [rec EXCEPT !.pc = "ended", !.ok = TRUE, !.path = IdleRun.path]
    ELSE [rec EXCEPT !.pc = "find", !.at = Foremost(V)]

\* The next entry, once nothing is left to do for this one.
Onward(rec) ==
    IF rec.clear # <<>> \/ rec.write # <<>> THEN [rec EXCEPT !.pc = "fill"]
    ELSE Visit(rec, {v \in rec.visits : Before(rec.at, v)})

StartRun(r) ==
    /\ run[r].pc = "idle"
    /\ \E l \in Launches, filter \in Filter :
         LET V == Visits(l[1], filter)
         IN  Goes(r, Visit([IdleRun EXCEPT !.script = l[1], !.mode = l[2], !.visits = V], V))
    /\ alone' = alone \cup {r}
    /\ UNCHANGED <<rows, next, userVars, admin>>

\* Mutant of Matches: only rows that have something below them are found.
MatchesFilled(r) == {x \in Of(Parent(r), Tree[Level(r)]) :
                         x.num = Last(Entry(r).path) /\ Kids(x.id) # {}}

\* findFirst by parent and order number, without an order: any match.
Matches(r) == {x \in Of(Parent(r), Tree[Level(r)]) : x.num = Last(Entry(r).path)}

FindRow(r) ==
    /\ run[r].pc = "find"
    /\ LET found == {x.id : x \in Matches(run[r])}
       IN  \E i \in IF found = {} THEN {NoId} ELSE found :
             Goes(r, [run[r] EXCEPT !.pc = "save", !.hit = i])
    /\ UNCHANGED <<rows, next, userVars, admin, alone>>

Settled(rec, i) ==
    LET here == [rec EXCEPT !.path = [@ EXCEPT ![Level(rec) + 1] = i], !.hit = NoId]
    IN  IF Level(rec) = 3 THEN [here EXCEPT !.pc = "count"] ELSE Onward(here)

\* The row found is updated in place (titles, pages); it may be gone by now.
UpdateRow(r) ==
    /\ run[r].pc = "save" /\ run[r].hit # NoId
    /\ IF run[r].hit \in Ids THEN Goes(r, Settled(run[r], run[r].hit)) ELSE Fails(r)
    /\ UNCHANGED <<rows, next, userVars, admin, alone>>

\* No row was found: one is created, whatever happened since the search.
CreateRow(r) ==
    /\ run[r].pc = "save" /\ run[r].hit = NoId
    /\ IF ParentThere(Parent(run[r]))
       THEN /\ Add(Tree[Level(run[r])], Parent(run[r]), Last(Entry(run[r]).path))
            /\ Goes(r, Settled(run[r], next))
            /\ Disturb(r)
       ELSE Fails(r) /\ UNCHANGED <<rows, next, userVars, alone>>
    /\ UNCHANGED admin

\* The three counts, and the decision they lead to.
CountContent(r) ==
    /\ run[r].pc = "count"
    /\ LET had == {x.kind : x \in Kids(Here(run[r]))}
           plan == Plan(run[r], had, Wanted(run[r].script, Entry(run[r])))
       IN  Goes(r, Onward([run[r] EXCEPT !.clear = plan.clear, !.write = plan.write]))
    /\ UNCHANGED <<rows, next, userVars, admin, alone>>

ClearKind(r) ==
    /\ run[r].pc = "fill" /\ run[r].clear # <<>>
    /\ Drop({x.id : x \in Of(Here(run[r]), Head(run[r].clear))})
    /\ Goes(r, Onward([run[r] EXCEPT !.clear = Tail(@)]))
    /\ Disturb(r)
    /\ UNCHANGED admin

WriteKind(r) ==
    /\ run[r].pc = "fill" /\ run[r].clear = <<>>
    /\ IF Here(run[r]) \in Ids
       THEN /\ Add(Head(run[r].write), Here(run[r]), 0)
            /\ Goes(r, Onward([run[r] EXCEPT !.write = Tail(@)]))
            /\ Disturb(r)
       ELSE Fails(r) /\ UNCHANGED <<rows, next, userVars, alone>>
    /\ UNCHANGED admin

\* The process is killed, or a query fails and it exits with an error.
KillRun(r) ==
    /\ run[r].pc \notin {"idle", "ended"}
    /\ Fails(r)
    /\ UNCHANGED <<rows, next, userVars, admin, alone>>

RunStep(r) == \/ StartRun(r) \/ FindRow(r) \/ UpdateRow(r) \/ CreateRow(r)
              \/ CountContent(r) \/ ClearKind(r) \/ WriteKind(r) \/ KillRun(r)

-----------------------------------------------------------------------------
(* The administration handlers: look the row up, then write.               *)

IdleAdmin == [pc |-> "idle", op |-> "create", kind |-> "course", id |-> 0]

Ends(a) == admin' = [admin EXCEPT ![a] = [IdleAdmin EXCEPT !.pc = "ended"]]

\* A request to create a row of the kind below row i, or to patch or delete
\* row i.  A course has no parent to look up.
Receive(a, op, kind, i) ==
    /\ admin[a].pc = "idle"
    /\ admin' = [admin EXCEPT ![a] = [pc |-> IF i = 0 THEN "act" ELSE "ensure",
                                      op |-> op, kind |-> kind, id |-> i]]
    /\ UNCHANGED <<rows, next, userVars, run, alone>>

Requests(a, kind) ==
    \/ kind = "course" /\ Receive(a, "create", kind, 0)
    \/ \E x \in rows : x.kind = ParentKind[kind] /\ Receive(a, "create", kind, x.id)
    \/ \E x \in rows, op \in {"patch", "delete"} : x.kind = kind /\ Receive(a, op, kind, x.id)

Ensure(a) ==
    /\ admin[a].pc = "ensure"
    /\ IF admin[a].id \in Ids THEN admin' = [admin EXCEPT ![a].pc = "act"] ELSE Ends(a)
    /\ UNCHANGED <<rows, next, userVars, run, alone>>

Acts(a, kind, op) == admin[a].pc = "act" /\ admin[a].kind = kind /\ admin[a].op = op

\* The row was deleted after it was looked up: the database reports an error.
Missed(a) ==
    /\ admin[a].pc = "act" /\ ~ParentThere(admin[a].id)
    /\ Ends(a)
    /\ UNCHANGED <<rows, next, userVars, run, alone>>

Create(a, kind, nums) ==
    /\ Acts(a, kind, "create") /\ ParentThere(admin[a].id)
    /\ \E n \in nums : Add(kind, admin[a].id, n)
    /\ Ends(a) /\ Disturb(a) /\ UNCHANGED run

\* The order number is the one attribute the scripts look rows up by.
Patch(a, kind, nums) ==
    /\ Acts(a, kind, "patch") /\ admin[a].id \in Ids
    /\ \E n \in nums :
         rows' = {IF x.id = admin[a].id THEN [x EXCEPT !.num = n] ELSE x : x \in rows}
    /\ Ends(a) /\ Disturb(a) /\ UNCHANGED <<next, userVars, run>>

Delete(a, kind) ==
    /\ Acts(a, kind, "delete") /\ admin[a].id \in Ids
    /\ Drop({admin[a].id})
    /\ Ends(a) /\ Disturb(a) /\ UNCHANGED run

Edit(a, kind, nums) == \/ Requests(a, kind) \/ Create(a, kind, nums)
                       \/ Patch(a, kind, nums) \/ Delete(a, kind)

AdminCourse(a) == Edit(a, "course", Nums)
AdminLesson(a) == Edit(a, "lesson", Nums)
AdminSection(a) == Edit(a, "section", Nums)
AdminCard(a) == Edit(a, "card", {0})
AdminMaterial(a) == Edit(a, "material", {0})
AdminQuestion(a) == Edit(a, "question", {0})

AdminStep(a) == \/ AdminCourse(a) \/ AdminLesson(a) \/ AdminSection(a) \/ AdminCard(a)
                \/ AdminMaterial(a) \/ AdminQuestion(a) \/ Ensure(a) \/ Missed(a)

ContentInit ==
    /\ rows = {} /\ next = 1
    /\ log = {} /\ scraps = {} /\ stats = {} /\ prefs = {}
    /\ run = [r \in Run |-> IdleRun]
    /\ admin = [a \in Admin |-> IdleAdmin]
    /\ alone = {}

ContentNext == (\E r \in Run : RunStep(r)) \/ (\E a \in Admin : AdminStep(a))

-----------------------------------------------------------------------------
(* Properties.                                                             *)

\* The foreign keys hold in every state: no row, log, answer count,
\* preference or bookmark refers to a row that is gone, however deletes of
\* the handlers and the scripts interleave.
ContentTypeOK ==
    /\ next \in 1..(MaxRows + 1)
    /\ \A x \in rows : /\ x.id \in 1..(next - 1)
                       /\ IF x.kind = "course" THEN x.up = 0
                          ELSE \E y \in rows : y.id = x.up /\ y.kind = ParentKind[x.kind]
    /\ Cardinality(rows) = Cardinality(Ids)
    /\ \A l \in log : \E y \in rows : y.id = l.section /\ y.kind = "section"
    /\ \A s \in scraps : {s.item, s.section} \subseteq Ids \cup {NoId}
    /\ stats \cup prefs \subseteq Ids
    /\ alone \subseteq Run

\* The sections a file entry may be found as.
Sections(path) ==
    {z \in rows : /\ z.kind = "section" /\ z.num = path[3]
                  /\ \E y \in rows, x \in rows :
                       /\ y.id = z.up /\ y.num = path[2]
                       /\ x.id = y.up /\ x.num = path[1]}

\* A run that came to its end undisturbed has done its work, whatever an
\* earlier run that was killed, a double import or an editor left behind: with
\* --missing-only every kind the file has is there, with --force (and for the
\* Notion cards) it is there exactly once and nothing else is
\* (seed-courses.js:114-171, seed.ts:143-192, notion-sync.ts:306-330).
RunCompletes ==
    \A r \in Run :
        LET me == run[r] IN
        (me.pc = "ended" /\ me.ok /\ r \in alone) =>
            \A v \in me.visits :
                LET e == File[v[2]]
                    Rows(z, k) == Cardinality(Of(z.id, k))
                IN  Len(e.path) = 3 => \E z \in Sections(e.path) :
                      CASE me.mode = "missing" ->
                             \A k \in Wanted(me.script, e) : Rows(z, k) >= 1
                        [] me.mode = "force" ->
                             \A k \in Range(Kinds) :
                                 Rows(z, k) = IF k \in Wanted(me.script, e) THEN 1 ELSE 0
                        [] me.script = "notion" /\ me.mode = "default" -> Rows(z, "card") = 1
                        [] OTHER -> Kids(z.id) # {} \/ Wanted(me.script, e) = {}

\* A script that runs alone never creates a second row for the same place, so
\* imports may be repeated ("Course/Lesson/Section은 upsert로 중복 생성을
\* 방지합니다", seed.ts:13; there is no unique constraint to fall back on).
NoTwinsWhenAlone ==
    [][\A r \in Run \cap alone, x \in rows' \ rows :
         (run'[r] # run[r] /\ x.kind \in Range(Tree)) =>
             ~\E y \in rows : y.kind = x.kind /\ y.up = x.up /\ y.num = x.num]_contentVars

\* What the modes promise: without --force (and, for Notion, with --safe) a
\* run deletes nothing, so bookmarks and answer counts keep their rows; and no
\* mode of any script loses a learner's progress (seed.ts:9-14,
\* notion-sync.ts:24-27).
SafeModesKeepRows ==
    [][\A r \in Run :
         (run'[r] # run[r]) =>
             /\ log \subseteq log' /\ prefs \subseteq prefs'
             /\ (\/ run[r].script # "notion" /\ run[r].mode # "force"
                 \/ run[r].script = "notion" /\ run[r].mode = "safe") =>
                   /\ rows \subseteq rows'
                   /\ scraps \subseteq scraps'
                   /\ stats \subseteq stats']_contentVars
=============================================================================
