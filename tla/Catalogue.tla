------------------------------ MODULE Catalogue ------------------------------
(***************************************************************************)
(* What a learner does with the course tree of Content: the lists and      *)
(* progress screens, each of which reads the tree first and the learner's  *)
(* own rows in a later query, and the writes that hang a row below the     *)
(* tree after looking it up.  The tree may change between the queries.     *)
(***************************************************************************)
EXTENDS Content

CONSTANTS Ask,       \* requests of the learner, each used once
          MaxStarted, \* bound on the runs and requests started
          Scale      \* 100: the percentage of a finished lesson

ASSUME CatalogueAssumption == Scale \in Nat \ {0} /\ MaxStarted \in Nat

VARIABLES ask,       \* the state of each request
          shown,     \* the progress figures answered so far
          everDone   \* ghost: the sections the learner ever completed

askVars == <<ask, shown, everDone>>
catalogueVars == <<contentVars, askVars>>

treeVars == <<rows, next, run, admin, alone>>
IdleAsk == [pc |-> "idle", op |-> "courses", at |-> NoId, lists |-> {}]

Level3 == {x \in rows : x.kind = "section"}
SectionsOf(lesson) == {x.id : x \in Of(lesson, "section")}
DoneNow == {l.section : l \in {k \in log : k.done}}

\* Math.round(done / total * 100), half upwards, 0 for an empty lesson.
Percent(done, total) ==
    IF total = 0 THEN 0 ELSE (2 * done * Scale + total) \div (2 * total)

\* The figures of one lesson (or course) with the sections in list.
Figures(list) ==
    LET done == Cardinality(list \cap DoneNow)
    IN  [of |-> list, done |-> done, complete |-> Percent(done, Cardinality(list)) = Scale]

To(q, pc, at, lists) == ask' = [ask EXCEPT ![q].pc = pc, ![q].at = at, ![q].lists = lists]
Begin(q, op, pc, at, lists) ==
    /\ ask[q].pc = "idle"
    /\ ask' = [ask EXCEPT ![q] = [pc |-> pc, op |-> op, at |-> at, lists |-> lists]]
    /\ UNCHANGED <<treeVars, userVars, shown, everDone>>
Then(q, op, pc) == ask[q].op = op /\ ask[q].pc = pc
Done(q) == ask' = [ask EXCEPT ![q] = [IdleAsk EXCEPT !.pc = "ended"]]

-----------------------------------------------------------------------------
(* The screens.                                                            *)

\* The course dashboard reads the whole tree, later the logs of the sections
\* it read.
CoursesTree(q) ==
    LET lessons == {x \in rows : x.kind = "lesson"}
        courses == {x \in rows : x.kind = "course"}
        OfCourse(c) == UNION {SectionsOf(l.id) : l \in {x \in lessons : x.up = c.id}}
    IN  Begin(q, "courses", "logs", NoId,
              {SectionsOf(l.id) : l \in lessons} \cup {OfCourse(c) : c \in courses})

\* The lesson page reads one lesson with its sections; NOT_FOUND ends it.
LessonTree(q) ==
    \E l \in rows : l.kind = "lesson" /\ Begin(q, "lesson", "logs", l.id, {SectionsOf(l.id)})

\* "Continue": the section of the latest log and the sections of its lesson;
\* any log may be the latest.
ResumeTree(q) ==
    \E l \in log, x \in rows :
        x.id = l.section /\ Begin(q, "resume", "logs", x.up, {SectionsOf(x.up)})

\* Mutant of ReadLogs: completions are counted over the sections the lesson
\* has now, not over the ones read.
ReadLogsOfNow(q) ==
    /\ ask[q].pc = "logs"
    /\ shown' = shown \cup
         {[Figures(list) EXCEPT !.complete =
             Percent(Cardinality(SectionsOf(ask[q].at) \cap DoneNow), Cardinality(list)) = Scale] :
          list \in ask[q].lists}
    /\ Done(q)
    /\ UNCHANGED <<treeVars, userVars, everDone>>

\* The second query of the three: which of the sections read are completed.
ReadLogs(q) ==
    /\ ask[q].pc = "logs"
    /\ shown' = shown \cup {Figures(list) : list \in ask[q].lists}
    /\ Done(q)
    /\ UNCHANGED <<treeVars, userVars, everDone>>

-----------------------------------------------------------------------------
(* The writes.                                                             *)

\* Lesson preferences: the lesson is looked up, then its row is upserted,
\* which fails when the lesson is gone by then.
FindLesson(q) == \E l \in rows : l.kind = "lesson" /\ Begin(q, "prefs", "write", l.id, {})

SavePrefs(q) ==
    /\ Then(q, "prefs", "write")
    /\ prefs' = prefs \cup ({ask[q].at} \cap Ids)
    /\ Done(q) /\ UNCHANGED <<treeVars, log, scraps, stats, shown, everDone>>

\* A quiz answer: section, question of that section, counters of the pair.
FindSection(q) == \E z \in Level3 : Begin(q, "check", "question", z.id, {})

FindQuestion(q) ==
    /\ Then(q, "check", "question")
    /\ LET found == Of(ask[q].at, "question")
       IN  \/ found = {} /\ Done(q)
           \/ \E x \in found : To(q, "write", x.id, {})
    /\ UNCHANGED <<treeVars, userVars, shown, everDone>>

SaveAnswer(q) ==
    /\ Then(q, "check", "write")
    /\ stats' = stats \cup ({ask[q].at} \cap Ids)
    /\ Done(q) /\ UNCHANGED <<treeVars, log, scraps, prefs, shown, everDone>>

\* Progress and bookmarks are modelled by Progress and Scraps; here they are
\* the rows that hang below the tree.
Study(q) ==
    /\ ask[q].pc = "idle"
    /\ \E z \in Level3, done \in BOOLEAN :
         /\ log' = {l \in log : l.section # z.id} \cup
                   {[section |-> z.id, done |-> done \/ z.id \in DoneNow]}
         /\ everDone' = everDone \cup (IF done THEN {z.id} ELSE {})
    /\ Done(q) /\ UNCHANGED <<treeVars, scraps, stats, prefs, shown>>

Bookmark(q) ==
    /\ ask[q].pc = "idle"
    /\ \E x \in rows : /\ x.kind \in {"card", "material"}
                       /\ scraps' = scraps \cup {[item |-> x.id, section |-> x.up]}
    /\ Done(q) /\ UNCHANGED <<treeVars, log, stats, prefs, shown, everDone>>

AskStep(q) == \/ CoursesTree(q) \/ LessonTree(q) \/ ResumeTree(q) \/ ReadLogs(q)
              \/ FindLesson(q) \/ SavePrefs(q) \/ Study(q) \/ Bookmark(q)
              \/ FindSection(q) \/ FindQuestion(q) \/ SaveAnswer(q)

CatalogueInit == ContentInit /\ ask = [q \in Ask |-> IdleAsk] /\ shown = {} /\ everDone = {}

Started == {r \in Run : run[r].pc # "idle"} \cup {a \in Admin : admin[a].pc # "idle"}
               \cup {q \in Ask : ask[q].pc # "idle"}

CatalogueNext ==
    /\ \/ ContentNext /\ UNCHANGED askVars
       \/ \E q \in Ask : AskStep(q)
    /\ Cardinality(Started') <= MaxStarted

CatalogueSpec == CatalogueInit /\ [][CatalogueNext]_catalogueVars

-----------------------------------------------------------------------------
(* Properties.                                                             *)

CatalogueTypeOK == ContentTypeOK /\ everDone \subseteq Id

\* A lesson or course is shown as complete only if it had sections and the
\* learner had completed every section counted in its total, and never shows
\* more completed sections than sections, although the tree is edited between
\* the two queries and the percentage is rounded (learning.service.ts:54-62,
\* 103-106, 175-196, 315-317).  The premise is the one the rounding needs: a
\* lesson of 2 * Scale sections is rounded up to complete with one missing.
CompleteMeansAll ==
    \A v \in shown :
        Cardinality(v.of) < 2 * Scale =>
            /\ v.done <= Cardinality(v.of)
            /\ v.complete => v.of # {} /\ v.of \subseteq everDone
=============================================================================
