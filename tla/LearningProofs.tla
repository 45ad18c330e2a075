--------------------------- MODULE LearningProofs ---------------------------
(***************************************************************************)
(* Two components a learner's screens rest on, for any number of runs,     *)
(* requests, keys and rows: the course tree with what hangs below it       *)
(* (Catalogue), and the Idempotency-Key interceptor that stands before the *)
(* learner's writes (Idempotency).  They share no variable; the second     *)
(* part uses nothing of the first.                                         *)
(*                                                                         *)
(* The tree is proved in this order: what Add, Drop and a patch do to the  *)
(* rows; what a run, an administration request and a learner's request     *)
(* know about the rows they looked up; the invariant TreeInv; the          *)
(* properties that follow from it; and last what a run that is alone has   *)
(* done so far, which it takes to say what it has done in the end.         *)
(***************************************************************************)
EXTENDS Catalogue, Idempotency, FiniteSetTheorems, SequenceTheorems, WellFoundedInduction, TLAPS

Branch == {"course", "lesson", "section"}
Leaf   == {"card", "material", "question"}
Node   == [id : Id, kind : Branch \cup Leaf, up : 0..MaxRows, num : Nums \cup {0}]

Placed(x) == \/ x.kind = "course" /\ x.up = 0
             \/ /\ x.kind # "course"
                /\ \E y \in rows : y.id = x.up /\ y.kind = ParentKind[x.kind]

(* The tree: ids are drawn once, and every row hangs below one of its parent's kind. *)
Rooted ==
    /\ next \in 1..(MaxRows + 1)
    /\ rows \subseteq Node /\ IsFiniteSet(rows)
    /\ \A x \in rows : x.id < next /\ Placed(x)
    /\ \A x, y \in rows : x.id = y.id => x = y

(* The learner's rows refer to rows that are there. *)
There(i, kind) == \E y \in rows : y.id = i /\ y.kind = kind
Hung ==
    /\ log \subseteq [section : Id, done : BOOLEAN]
    /\ \A l \in log : There(l.section, "section") /\ (l.done = TRUE => l.section \in everDone)
    /\ \A s \in scraps : s.item \in Ids \cup {NoId} /\ s.section \in Ids \cup {NoId}
    /\ stats \subseteq Ids
    /\ \A i \in prefs : There(i, "lesson")
    /\ everDone \subseteq Id

(* What was looked up stays what it was, for as long as it is there. *)
Kept == /\ next' \in Nat /\ next' >= next
        /\ \A x \in rows' : x.id < next => \E y \in rows : y.id = x.id /\ y.kind = x.kind

-----------------------------------------------------------------------------
LEMMA Parents ==
  /\ ParentKind["lesson"] = "course" /\ ParentKind["section"] = "lesson"
  /\ \A k \in Leaf : ParentKind[k] = "section"
  BY DEF ParentKind, Leaf

LEMMA Bounds == MaxRows \in Nat /\ NoId \notin Nat
  BY ContentAssumption

LEMMA NodeType ==
  ASSUME Rooted, NEW x \in rows
  PROVE  /\ x.id \in Id /\ x.id \in Nat /\ x.id >= 1 /\ x.id <= MaxRows
         /\ x.kind \in Branch \cup Leaf /\ x.up \in Nat /\ x.num \in Nums \cup {0}
  <1>1. x \in Node
    BY DEF Rooted
  <1>2. x.id \in Id /\ x.kind \in Branch \cup Leaf /\ x.up \in 0..MaxRows /\ x.num \in Nums \cup {0}
    BY <1>1 DEF Node
  <1> QED BY <1>2, Bounds DEF Id

LEMMA ParentOf ==
  ASSUME Rooted, NEW x \in rows, NEW y \in rows, x.up = y.id
  PROVE  x.kind # "course" /\ y.kind = ParentKind[x.kind] /\ y.kind \in Branch
  <1>1. y.id # 0
    BY NodeType
  <1>2. x.kind # "course" /\ \E z \in rows : z.id = x.up /\ z.kind = ParentKind[x.kind]
    BY <1>1 DEF Rooted, Placed
  <1>3. y.kind = ParentKind[x.kind]
    BY <1>2 DEF Rooted
  <1>4. x.kind \in {"lesson", "section"} \cup Leaf
    BY <1>2, NodeType DEF Branch
  <1>5. y.kind \in Branch
    BY <1>3, <1>4, Parents DEF Branch
  <1> QED BY <1>2, <1>3, <1>5

(* A delete reaches as deep as the tree. *)
Doomed(S) == Below(Below(Below(S)))

LEMMA DoomedClosed ==
  ASSUME Rooted, NEW S \in SUBSET Ids, NEW x \in rows, x.up \in Doomed(S)
  PROVE  x.id \in Doomed(S)
  <1> DEFINE A == Below(S)
             B == Below(A)
  <1>1. CASE x.up \in B
    BY <1>1 DEF Doomed, Below
  <1>2. CASE x.up \notin B
    <2>1. PICK c \in rows : c.id = x.up /\ c.up \in B
      BY <1>2 DEF Doomed, Below
    <2>2. c.up \notin A
      <3>1. c.up \in A => c.id \in B
        BY DEF Below
      <3> QED BY <1>2, <2>1, <3>1
    <2>3. PICK b \in rows : b.id = c.up /\ b.up \in A
      BY <2>1, <2>2 DEF Below
    <2>4. b.up \notin S
      <3>1. b.up \in S => b.id \in A
        BY DEF Below
      <3> QED BY <2>2, <2>3, <3>1
    <2>5. PICK a \in rows : a.id = b.up /\ a.up \in S
      BY <2>3, <2>4 DEF Below
    <2>6. PICK z \in rows : z.id = a.up
      BY <2>5 DEF Ids
    <2> HIDE DEF A, B
    <2>7. a.kind # "course" /\ a.kind \in Branch /\ a.kind = ParentKind[b.kind]
      BY <2>3, <2>5, <2>6, ParentOf
    <2>8. b.kind \in Branch /\ b.kind # "course" /\ b.kind = ParentKind[c.kind]
      BY <2>3, <2>5, ParentOf
    <2>9. c.kind \in Branch /\ c.kind # "course"
      BY <2>1, <2>3, ParentOf
    <2> QED BY <2>7, <2>8, <2>9, Parents DEF Branch
  <1> QED BY <1>1, <1>2

LEMMA AddTree ==
  ASSUME Rooted, Hung, NEW kind \in Branch \cup Leaf, NEW i, NEW num \in Nums \cup {0},
         Add(kind, i, num), UNCHANGED everDone,
         IF kind = "course" THEN i = 0 ELSE There(i, ParentKind[kind])
  PROVE  Rooted' /\ Hung' /\ Kept
  <1> DEFINE n == [id |-> next, kind |-> kind, up |-> i, num |-> num]
  <1>1. next \in 1..MaxRows /\ next' = next + 1 /\ rows' = rows \cup {n}
    BY Bounds DEF Add, Rooted
  <1>2. i \in 0..MaxRows
    <2>1. CASE kind = "course"
      BY <2>1, Bounds
    <2>2. CASE kind # "course"
      <3>1. PICK y \in rows : y.id = i
        BY <2>2 DEF There
      <3> QED BY <3>1, NodeType, Bounds
    <2> QED BY <2>1, <2>2
  <1>3. n \in Node /\ n.id = next /\ n.kind = kind /\ n.up = i
    BY <1>1, <1>2 DEF Node, Id
  <1> HIDE DEF n
  <1>4. \A x \in rows : x.id # next
    BY <1>1, NodeType DEF Rooted
  <1>5. IsFiniteSet(rows')
    BY <1>1, FS_AddElement DEF Rooted
  <1>6. rows' \subseteq Node /\ next' \in 1..(MaxRows + 1)
    BY <1>1, <1>3, Bounds DEF Rooted
  <1>7. \A x, y \in rows' : x.id = y.id => x = y
    BY <1>1, <1>3, <1>4 DEF Rooted
  <1>8. ASSUME NEW x \in rows' PROVE x.id < next' /\ Placed(x)'
    <2>1. CASE x \in rows
      <3>1. x.id < next /\ Placed(x)
        BY <2>1 DEF Rooted
      <3>2. x.id < next'
        BY <1>1, <2>1, <3>1, NodeType
      <3> QED BY <1>1, <3>1, <3>2 DEF Placed
    <2>2. CASE x = n
      BY <1>1, <1>3, <2>2 DEF Placed, There
    <2> QED BY <1>1, <2>1, <2>2
  <1>9. Rooted'
    BY <1>5, <1>6, <1>7, <1>8 DEF Rooted
  <1>10. Hung'
    BY <1>1 DEF Add, userVars, Hung, There, Ids
  <1>11. Kept
    <2>1. \A x \in rows' : x.id < next => x \in rows
      BY <1>1, <1>3
    <2> QED BY <1>1, <2>1 DEF Kept
  <1> QED BY <1>9, <1>10, <1>11

LEMMA DropTree ==
  ASSUME Rooted, Hung, NEW S \in SUBSET Ids, Drop(S), UNCHANGED everDone
  PROVE  Rooted' /\ Hung' /\ Kept
  <1> DEFINE D == Doomed(S)
  <1>1. rows' = {x \in rows : x.id \notin D} /\ next' = next
    BY DEF Drop, Doomed
  <1>2. \A x \in rows : x.up \in D => x.id \in D
    BY DoomedClosed
  <1>u. /\ log' = {l \in log : l.section \notin D}
        /\ scraps' = {[item |-> IF s.item \in D THEN NoId ELSE s.item,
                       section |-> IF s.section \in D THEN NoId ELSE s.section] : s \in scraps}
        /\ stats' = stats \ D /\ prefs' = prefs \ D
    BY DEF Drop, Doomed
  <1> HIDE DEF D
  <1>3. IsFiniteSet(rows')
    <2>1. rows' \subseteq rows
      BY <1>1
    <2> QED BY <2>1, FS_Subset DEF Rooted
  <1>4. ASSUME NEW x \in rows' PROVE Placed(x)'
    <2>1. x \in rows /\ x.id \notin D /\ Placed(x)
      BY <1>1 DEF Rooted
    <2>2. CASE x.kind # "course"
      <3>1. PICK y \in rows : y.id = x.up /\ y.kind = ParentKind[x.kind]
        BY <2>1, <2>2 DEF Placed
      <3>2. y \in rows'
        BY <1>1, <1>2, <2>1, <3>1
      <3> QED BY <2>2, <3>1, <3>2 DEF Placed
    <2> QED BY <2>1, <2>2 DEF Placed
  <1>5. Rooted'
    BY <1>1, <1>3, <1>4 DEF Rooted
  <1>6. ASSUME NEW i, NEW k, There(i, k), i \notin D PROVE There(i, k)'
    BY <1>1, <1>6 DEF There
  <1>7. Ids' = Ids \ D
    BY <1>1 DEF Ids
  <1>8. \A s \in scraps' : s.item \in Ids' \cup {NoId} /\ s.section \in Ids' \cup {NoId}
    <2> SUFFICES ASSUME NEW s \in scraps
                 PROVE  /\ (IF s.item \in D THEN NoId ELSE s.item) \in Ids' \cup {NoId}
                        /\ (IF s.section \in D THEN NoId ELSE s.section) \in Ids' \cup {NoId}
      BY <1>u
    <2> QED BY <1>7 DEF Hung
  <1>9. Hung'
    BY <1>u, <1>6, <1>7, <1>8 DEF Hung
  <1>10. Kept
    BY <1>1, Bounds DEF Kept, Rooted
  <1> QED BY <1>5, <1>9, <1>10

LEMMA PatchTree ==
  ASSUME Rooted, Hung, NEW i, NEW n \in Nums \cup {0}, UNCHANGED <<next, userVars, everDone>>,
         rows' = {IF x.id = i THEN [x EXCEPT !.num = n] ELSE x : x \in rows}
  PROVE  Rooted' /\ Hung' /\ Kept
  <1> DEFINE P(x) == IF x.id = i THEN [x EXCEPT !.num = n] ELSE x
  <1>1. ASSUME NEW x \in rows
        PROVE  P(x) \in Node /\ P(x).id = x.id /\ P(x).kind = x.kind /\ P(x).up = x.up
    <2>1. x \in Node
      BY DEF Rooted
    <2> QED BY <2>1 DEF Node
  <1>2. rows' = {P(x) : x \in rows}
    OBVIOUS
  <1> HIDE DEF P
  <1>3. IsFiniteSet(rows')
    <2> DEFINE f == [x \in rows |-> P(x)]
    <2>1. f \in Surjection(rows, rows')
      BY <1>2 DEF Surjection
    <2> QED BY <2>1, FS_Surjection DEF Rooted
  <1>4. rows' \subseteq Node
    BY <1>1, <1>2
  <1>5. \A j, k : There(j, k) => There(j, k)'
    BY <1>1, <1>2 DEF There
  <1>6. \A x \in rows' : x.id < next' /\ Placed(x)'
    <2> SUFFICES ASSUME NEW x \in rows PROVE P(x).id < next /\ Placed(P(x))'
      BY <1>2
    <2>1. x.id < next /\ Placed(x)
      BY DEF Rooted
    <2> QED BY <1>1, <1>5, <2>1 DEF Placed, There
  <1>7. \A x, y \in rows' : x.id = y.id => x = y
    BY <1>1, <1>2 DEF Rooted
  <1>8. Rooted'
    BY <1>3, <1>4, <1>6, <1>7 DEF Rooted
  <1>9. Ids' = Ids
    BY <1>1, <1>2 DEF Ids
  <1>10. Hung'
    BY <1>5, <1>9 DEF Hung, userVars
  <1>11. Kept
    BY <1>1, <1>2, Bounds DEF Kept, Rooted
  <1> QED BY <1>8, <1>10, <1>11

LEMMA SameTree ==
  ASSUME Rooted, UNCHANGED <<rows, next>>
  PROVE  Rooted' /\ Kept
  BY Bounds DEF Rooted, Placed, Kept

-----------------------------------------------------------------------------
(* The runs.  What a run looked up or created is, for as long as it is there,
   a row of the level it took it for. *)
RunRecord ==
    [pc : {"idle", "find", "save", "count", "fill", "ended"},
     script : {"seed", "courses", "notion"}, mode : {"default", "missing", "force", "safe"},
     visits : SUBSET (Nat \X DOMAIN File), at : Nat \X Nat,
     hit : Id \cup {NoId}, path : [1..4 -> {0, NoId} \cup Id],
     clear : Seq(Leaf), write : Seq(Leaf), ok : BOOLEAN]

Careful(t) == \/ t.script # "notion" /\ t.mode # "force"
              \/ t.script = "notion" /\ t.mode = "safe"

RunFits(t) ==
    /\ t \in RunRecord
    /\ t.pc \notin {"idle", "ended"} => t.at \in t.visits
    /\ t.path[1] = 0
    /\ t.pc \in {"count", "fill"} => Level(t) = 3
    /\ t.pc # "fill" => t.clear = <<>> /\ t.write = <<>>
    /\ t.pc = "fill" => t.clear # <<>> \/ t.write # <<>>
    /\ t.clear # <<>> => ~ Careful(t)

Known(i, kind) == i # NoId => /\ i \in Id /\ i < next
                              /\ \A x \in rows : x.id = i => x.kind = kind

RunKnows(t) == /\ \A n \in 1..3 : Known(t.path[n + 1], Tree[n])
               /\ t.pc = "save" => Known(t.hit, Tree[Level(t)])

Runs == run \in [Run -> RunRecord] /\ \A r \in Run : RunFits(run[r]) /\ RunKnows(run[r])

LEMMA KnownKept ==
  ASSUME Rooted, Kept, NEW i, NEW kind, Known(i, kind)
  PROVE  Known(i, kind)'
  <1>1. next \in Nat /\ next' \in Nat /\ next' >= next
    BY Bounds DEF Rooted, Kept
  <1>2. i # NoId => i \in Nat
    BY Bounds DEF Known, Id
  <1>3. i # NoId => i < next'
    BY <1>1, <1>2 DEF Known
  <1> QED BY <1>3 DEF Known, Kept

LEMMA MoveRun ==
  ASSUME Rooted, Kept, Runs, NEW r \in Run, NEW t, Goes(r, t), RunFits(t), RunKnows(t)'
  PROVE  Runs'
  <1>1. run' = [run EXCEPT ![r] = t] /\ t \in RunRecord
    BY DEF Goes, RunFits
  <1>2. run' \in [Run -> RunRecord] /\ run'[r] = t /\ \A q \in Run \ {r} : run'[q] = run[q]
    BY <1>1 DEF Runs
  <1>3. ASSUME NEW q \in Run \ {r} PROVE RunKnows(run[q])'
    <2>1. PICK u : u = run[q]
      OBVIOUS
    <2>2. RunKnows(u)
      BY <2>1 DEF Runs
    <2>3. RunKnows(u)'
      BY <2>2, KnownKept DEF RunKnows
    <2>4. run'[q] = u
      BY <1>2, <2>1
    <2> QED BY <2>3, <2>4 DEF RunKnows
  <1>4. RunKnows(run[r])'
    BY <1>2 DEF RunKnows
  <1> QED BY <1>2, <1>3, <1>4 DEF Runs

LEMMA SmallestNat ==
  ASSUME NEW B, B \subseteq Nat, B # {}
  PROVE  \E n \in B : \A m \in B : n <= m
  <1> DEFINE R == {ss \in Nat \X Nat : ss[1] < ss[2]}
  <1>1. IsWellFoundedOn(R, Nat)
    BY NatLessThanWellFounded DEF OpToRel
  <1>2. PICK n \in B : \A m \in B : ~ (<<m, n>> \in R)
    BY <1>1, WFMin
  <1>3. \A m \in B : ~ (m < n)
    BY <1>2
  <1> QED BY <1>3

LEMMA ForemostIn ==
  ASSUME NEW V \in SUBSET (Nat \X Nat), V # {}
  PROVE  /\ Foremost(V) \in V
         /\ \A w \in V \ {Foremost(V)} : Before(Foremost(V), w)
  <1>1. PICK g \in {v[1] : v \in V} : \A h \in {v[1] : v \in V} : g <= h
    <2>1. {v[1] : v \in V} \subseteq Nat /\ {v[1] : v \in V} # {}
      OBVIOUS
    <2> QED BY <2>1, SmallestNat
  <1> DEFINE W == {v \in V : v[1] = g}
  <1>2. PICK i \in {v[2] : v \in W} : \A h \in {v[2] : v \in W} : i <= h
    <2>1. {v[2] : v \in W} \subseteq Nat /\ {v[2] : v \in W} # {}
      BY <1>1
    <2> QED BY <2>1, SmallestNat
  <1>3. PICK v \in V : v[1] = g /\ v[2] = i
    BY <1>2
  <1>4. ASSUME NEW w \in V \ {v} PROVE Before(v, w)
    <2>1. v \in Nat \X Nat /\ w \in Nat \X Nat
      OBVIOUS
    <2>2. v[1] <= w[1] /\ (w[1] = v[1] => v[2] <= w[2])
      BY <1>1, <1>2, <1>3
    <2>3. ~ (v[1] = w[1] /\ v[2] = w[2])
      BY <2>1
    <2> QED BY <2>1, <2>2, <2>3 DEF Before
  <1>5. \E x \in V : \A w \in V \ {x} : Before(x, w)
    BY <1>4
  <1> QED BY <1>5 DEF Foremost

LEMMA LevelType ==
  ASSUME NEW t \in RunRecord, t.at \in t.visits
  PROVE  Level(t) \in 1..3 /\ Entry(t) = File[t.at[2]] /\ t.at[2] \in DOMAIN File
  <1>1. t.at[2] \in DOMAIN File
    BY DEF RunRecord
  <1> QED BY <1>1, FileAssumption DEF Level, Entry

LEMMA NoPath == /\ IdleRun.path \in [1..4 -> {0, NoId} \cup Id] /\ IdleRun.path[1] = 0
                /\ \A n \in 1..3 : IdleRun.path[n + 1] = NoId
  BY DEF IdleRun

LEMMA IdleRunFits == RunFits(IdleRun) /\ RunKnows(IdleRun) /\ IdleRun \in RunRecord
  <1>1. IdleRun \in RunRecord
    BY NoPath DEF IdleRun, RunRecord
  <1>2. RunFits(IdleRun)
    BY <1>1, NoPath DEF RunFits, IdleRun
  <1>3. RunKnows(IdleRun)
    BY NoPath DEF RunKnows, IdleRun, Known
  <1> QED BY <1>1, <1>2, <1>3

LEMMA EndedFits ==
  ASSUME NEW t, t = [IdleRun EXCEPT !.pc = "ended"]
  PROVE  RunFits(t) /\ RunKnows(t) /\ RunKnows(t)'
  <1>1. /\ t \in RunRecord /\ t.pc = "ended" /\ t.path = IdleRun.path
        /\ t.clear = <<>> /\ t.write = <<>>
    BY IdleRunFits DEF RunRecord, RunFits, IdleRun
  <1> QED BY <1>1, NoPath DEF RunFits, RunKnows, Known

(* What a run does next, and that it forgets or keeps what it looked up. *)
LEMMA VisitFits ==
  ASSUME NEW t \in RunRecord, t.path[1] = 0, t.clear = <<>>, t.write = <<>>,
         NEW V \in SUBSET t.visits, NEW u, u = Visit(t, V)
  PROVE  /\ RunFits(u) /\ u.pc \in {"find", "ended"}
         /\ \A n \in 1..3 : u.path[n + 1] \in {t.path[n + 1], NoId}
  <1>1. CASE V = {}
    <2>1. u = [t EXCEPT !.pc = "ended", !.ok = TRUE, !.path = IdleRun.path]
      BY <1>1 DEF Visit
    <2>2. /\ u \in RunRecord /\ u.pc = "ended" /\ u.path = IdleRun.path
          /\ u.clear = <<>> /\ u.write = <<>>
      BY <2>1, NoPath DEF RunRecord
    <2> QED BY <2>2, NoPath DEF RunFits
  <1>2. CASE V # {}
    <2>1. Foremost(V) \in V /\ V \subseteq Nat \X Nat
      <3>1. V \subseteq Nat \X Nat
        BY FileAssumption DEF RunRecord
      <3> QED BY <1>2, <3>1, ForemostIn
    <2>2. PICK a : a = Foremost(V)
      OBVIOUS
    <2>3. u = [t EXCEPT !.pc = "find", !.at = a]
      BY <1>2, <2>2 DEF Visit
    <2>4. /\ u \in RunRecord /\ u.pc = "find" /\ u.path = t.path /\ u.at = a
          /\ u.visits = t.visits /\ u.clear = <<>> /\ u.write = <<>>
      BY <2>1, <2>2, <2>3 DEF RunRecord
    <2> QED BY <2>1, <2>2, <2>4 DEF RunFits
  <1> QED BY <1>1, <1>2

LEMMA OnwardFits ==
  ASSUME NEW t \in RunRecord, t.path[1] = 0, t.at \in t.visits,
         t.clear # <<>> \/ t.write # <<>> => Level(t) = 3,
         t.clear # <<>> => ~ Careful(t),
         NEW u, u = Onward(t)
  PROVE  /\ RunFits(u) /\ u.pc \in {"find", "fill", "ended"}
         /\ \A n \in 1..3 : u.path[n + 1] \in {t.path[n + 1], NoId}
  <1>1. CASE t.clear # <<>> \/ t.write # <<>>
    <2>1. u = [t EXCEPT !.pc = "fill"]
      BY <1>1 DEF Onward
    <2>2. /\ u \in RunRecord /\ u.pc = "fill" /\ u.path = t.path /\ u.at = t.at
          /\ u.visits = t.visits /\ u.clear = t.clear /\ u.write = t.write
          /\ u.script = t.script /\ u.mode = t.mode
      BY <2>1 DEF RunRecord
    <2> QED BY <1>1, <2>2 DEF RunFits, Level, Entry, Careful
  <1>2. CASE t.clear = <<>> /\ t.write = <<>>
    <2>1. PICK V \in SUBSET t.visits : V = {v \in t.visits : Before(t.at, v)}
      OBVIOUS
    <2>2. u = Visit(t, V)
      BY <1>2, <2>1 DEF Onward
    <2> QED BY <1>2, <2>2, VisitFits
  <1> QED BY <1>1, <1>2

LEMMA SettledFits ==
  ASSUME NEW t, RunFits(t), t.pc = "save", NEW i \in Id, NEW u, u = Settled(t, i)
  PROVE  /\ RunFits(u) /\ u.pc # "save"
         /\ \A n \in 1..3 : \/ u.path[n + 1] \in {t.path[n + 1], NoId}
                            \/ n = Level(t) /\ u.path[n + 1] = i
  <1>1. /\ t \in RunRecord /\ t.at \in t.visits /\ t.path[1] = 0
        /\ t.clear = <<>> /\ t.write = <<>>
    BY DEF RunFits
  <1>2. PICK k \in 1..3 : k = Level(t)
    BY <1>1, LevelType
  <1>3. PICK p : p = [t.path EXCEPT ![k + 1] = i]
    OBVIOUS
  <1>4. /\ p \in [1..4 -> {0, NoId} \cup Id] /\ p[1] = 0
        /\ \A n \in 1..3 : p[n + 1] = IF n = k THEN i ELSE t.path[n + 1]
    <2>1. t.path \in [1..4 -> {0, NoId} \cup Id]
      BY <1>1 DEF RunRecord
    <2> QED BY <1>1, <1>3, <2>1
  <1>5. PICK h : h = [t EXCEPT !.path = p, !.hit = NoId]
    OBVIOUS
  <1>6. /\ h \in RunRecord /\ h.path = p /\ h.at = t.at /\ h.visits = t.visits
        /\ h.clear = <<>> /\ h.write = <<>>
    BY <1>1, <1>4, <1>5 DEF RunRecord
  <1>7. Level(h) = k
    BY <1>2, <1>6 DEF Level, Entry
  <1>8. h = [t EXCEPT !.path = [@ EXCEPT ![Level(t) + 1] = i], !.hit = NoId]
    BY <1>2, <1>3, <1>5
  <1>9. CASE k = 3
    <2>1. u = [h EXCEPT !.pc = "count"]
      BY <1>2, <1>8, <1>9 DEF Settled
    <2>2. /\ u \in RunRecord /\ u.pc = "count" /\ u.path = p /\ u.at = t.at
          /\ u.visits = t.visits /\ u.clear = <<>> /\ u.write = <<>>
      BY <1>6, <2>1 DEF RunRecord
    <2>3. Level(u) = 3
      BY <1>2, <1>9, <2>2 DEF Level, Entry
    <2> QED BY <1>1, <1>2, <1>4, <2>2, <2>3 DEF RunFits
  <1>10. CASE k # 3
    <2>1. u = Onward(h)
      BY <1>2, <1>8, <1>10 DEF Settled
    <2>2. /\ RunFits(u) /\ u.pc \in {"find", "fill", "ended"}
          /\ \A n \in 1..3 : u.path[n + 1] \in {h.path[n + 1], NoId}
      BY <1>1, <1>4, <1>6, <2>1, OnwardFits
    <2> QED BY <1>2, <1>4, <1>6, <2>2
  <1> QED BY <1>9, <1>10

LEMMA InOrderType == ASSUME NEW S PROVE InOrder(S) \in Seq(Leaf) /\ (S = {} => InOrder(S) = <<>>)
  <1> DEFINE Just(k) == IF k \in S THEN <<k>> ELSE <<>>
  <1>1. \A k \in Leaf : Just(k) \in Seq(Leaf)
    OBVIOUS
  <1>2. InOrder(S) = Just("card") \o Just("material") \o Just("question")
    BY DEF InOrder
  <1>3. /\ Just("card") \in Seq(Leaf) /\ Just("material") \in Seq(Leaf)
        /\ Just("question") \in Seq(Leaf)
    BY <1>1 DEF Leaf
  <1>4. S = {} => Just("card") = <<>> /\ Just("material") = <<>> /\ Just("question") = <<>>
    OBVIOUS
  <1> HIDE DEF Just
  <1>5. InOrder(S) \in Seq(Leaf)
    BY <1>2, <1>3
  <1>6. S = {} => InOrder(S) = <<>>
    BY <1>2, <1>4
  <1> QED BY <1>5, <1>6

(* Only --force, or notion-sync without --safe, has anything to clear. *)
LEMMA PlanFits ==
  ASSUME NEW t \in RunRecord, NEW had, NEW wanted, NEW plan, plan = Plan(t, had, wanted)
  PROVE  /\ plan.clear \in Seq(Leaf) /\ plan.write \in Seq(Leaf)
         /\ plan.clear # <<>> => ~ Careful(t)
  <1>1. Kinds \in Seq(Leaf) /\ <<>> \in Seq(Leaf) /\ <<"card">> \in Seq(Leaf)
    BY DEF Kinds, Leaf
  <1>2. CASE t.script = "seed"
    <2>1. plan = SeedPlan(had, wanted, t.mode)
      BY <1>2 DEF Plan
    <2> QED BY <1>1, <1>2, <2>1, InOrderType DEF SeedPlan, Nothing, Careful
  <1>3. CASE t.script = "courses"
    <2>1. plan = CoursesPlan(had, wanted, t.mode)
      BY <1>3 DEF Plan
    <2> QED BY <1>1, <1>3, <2>1, InOrderType DEF CoursesPlan, Nothing, Careful
  <1>4. CASE t.script = "notion"
    <2>1. plan = VocabPlan(had, t.mode)
      BY <1>4 DEF Plan
    <2>2. "card" \notin had => had \cap {"card"} = {}
      OBVIOUS
    <2> QED BY <1>1, <1>4, <2>1, <2>2, InOrderType DEF VocabPlan, Nothing, Careful
  <1> QED BY <1>2, <1>3, <1>4 DEF RunRecord

-----------------------------------------------------------------------------
LEMMA SameHung == ASSUME Hung, UNCHANGED <<rows, userVars, everDone>> PROVE Hung'
  BY DEF Hung, There, Ids, userVars

LEMMA VisitsType ==
  ASSUME NEW script \in {"seed", "courses", "notion"}, NEW filter
  PROVE  Visits(script, filter) \in SUBSET (Nat \X DOMAIN File)
  BY FileAssumption DEF Visits, SeedVisits, CoursesVisits, NotionVisits

LEMMA FailsRun ==
  ASSUME Rooted, Kept, Runs, NEW r \in Run, Fails(r)
  PROVE  Runs'
  <1>1. PICK t : t = [IdleRun EXCEPT !.pc = "ended"]
    OBVIOUS
  <1>2. Goes(r, t)
    BY <1>1 DEF Fails
  <1> QED BY <1>1, <1>2, EndedFits, MoveRun

LEMMA StartTree ==
  ASSUME Rooted, Hung, Runs, NEW r \in Run, StartRun(r), UNCHANGED everDone
  PROVE  Rooted' /\ Hung' /\ Kept /\ Runs'
  <1>1. Rooted' /\ Hung' /\ Kept
    BY SameTree, SameHung DEF StartRun
  <1>2. PICK l \in Launches, filter \in Filter :
          LET V == Visits(l[1], filter)
          IN  Goes(r, Visit([IdleRun EXCEPT !.script = l[1], !.mode = l[2], !.visits = V], V))
    BY DEF StartRun
  <1>3. PICK script, mode : script = l[1] /\ mode = l[2]
    OBVIOUS
  <1>4. script \in {"seed", "courses", "notion"} /\ mode \in {"default", "missing", "force", "safe"}
    BY <1>3, ContentAssumption DEF Modes
  <1>5. PICK V \in SUBSET (Nat \X DOMAIN File) : V = Visits(l[1], filter)
    BY <1>3, <1>4, VisitsType
  <1>6. PICK t : t = [IdleRun EXCEPT !.script = script, !.mode = mode, !.visits = V]
    OBVIOUS
  <1>7. PICK u : u = Visit(t, V)
    OBVIOUS
  <1>8. Goes(r, u)
    BY <1>2, <1>3, <1>5, <1>6, <1>7
  <1>9. /\ t \in RunRecord /\ t.path = IdleRun.path /\ t.visits = V
        /\ t.clear = <<>> /\ t.write = <<>>
    <2>1. IdleRun \in RunRecord /\ IdleRun.clear = <<>> /\ IdleRun.write = <<>>
      BY IdleRunFits DEF IdleRun
    <2> QED BY <1>4, <1>6, <2>1 DEF RunRecord
  <1>10. /\ RunFits(u) /\ u.pc \in {"find", "ended"}
         /\ \A n \in 1..3 : u.path[n + 1] \in {t.path[n + 1], NoId}
    BY <1>7, <1>9, NoPath, VisitFits
  <1>11. RunKnows(u)'
    BY <1>9, <1>10, NoPath DEF RunKnows, Known
  <1> QED BY <1>1, <1>8, <1>10, <1>11, MoveRun

LEMMA FindTree ==
  ASSUME Rooted, Hung, Runs, NEW r \in Run, FindRow(r), UNCHANGED everDone
  PROVE  Rooted' /\ Hung' /\ Kept /\ Runs'
  <1>1. Rooted' /\ Hung' /\ Kept
    BY SameTree, SameHung DEF FindRow
  <1>2. PICK i \in {NoId} \cup {x.id : x \in Matches(run[r])} :
          Goes(r, [run[r] EXCEPT !.pc = "save", !.hit = i])
    BY DEF FindRow
  <1>3. PICK t : t = run[r]
    OBVIOUS
  <1>4. RunFits(t) /\ RunKnows(t) /\ t.pc = "find" /\ t \in RunRecord
    BY <1>3 DEF Runs, RunFits, FindRow
  <1>5. PICK u : u = [t EXCEPT !.pc = "save", !.hit = i]
    OBVIOUS
  <1>6. Known(i, Tree[Level(t)])
    <2>1. CASE i = NoId
      BY <2>1 DEF Known
    <2>2. CASE i # NoId
      <3>1. PICK x \in rows : x.id = i /\ x.kind = Tree[Level(t)]
        BY <1>2, <1>3, <2>2 DEF Matches, Of, Kids
      <3>2. x.id \in Id /\ x.id < next
        BY <3>1, NodeType DEF Rooted
      <3> QED BY <3>1, <3>2 DEF Known, Rooted
    <2> QED BY <2>1, <2>2
  <1>7. i \in Id \cup {NoId}
    BY <1>6 DEF Known
  <1>8. /\ u \in RunRecord /\ u.pc = "save" /\ u.hit = i /\ u.path = t.path /\ u.at = t.at
        /\ u.visits = t.visits /\ u.clear = t.clear /\ u.write = t.write
    BY <1>4, <1>5, <1>7 DEF RunRecord
  <1>9. RunFits(u) /\ Level(u) = Level(t)
    BY <1>4, <1>8 DEF RunFits, Level, Entry
  <1>10. RunKnows(u)'
    BY <1>1, <1>4, <1>6, <1>8, <1>9, KnownKept DEF RunKnows
  <1>11. Goes(r, u)
    BY <1>2, <1>3, <1>5
  <1> QED BY <1>1, <1>9, <1>10, <1>11, MoveRun

(* A run goes on with a row of its level, found or created. *)
LEMMA SettledRun ==
  ASSUME Rooted, Kept, Runs, NEW r \in Run, run[r].pc = "save", NEW i \in Id,
         NEW k, k = Level(run[r]), Known(i, Tree[k])', Goes(r, Settled(run[r], i))
  PROVE  Runs'
  <1>1. PICK t : t = run[r]
    OBVIOUS
  <1>2. RunFits(t) /\ RunKnows(t) /\ t.pc = "save" /\ t \in RunRecord /\ k = Level(t)
    BY <1>1 DEF Runs, RunFits
  <1>3. PICK u : u = Settled(t, i)
    OBVIOUS
  <1>4. /\ RunFits(u) /\ u.pc # "save"
        /\ \A n \in 1..3 : \/ u.path[n + 1] \in {t.path[n + 1], NoId}
                           \/ n = k /\ u.path[n + 1] = i
    BY <1>2, <1>3, SettledFits
  <1>5. ASSUME NEW n \in 1..3 PROVE Known(u.path[n + 1], Tree[n])'
    <2>1. Known(t.path[n + 1], Tree[n])'
      BY <1>2, KnownKept DEF RunKnows
    <2>2. Known(NoId, Tree[n])'
      BY DEF Known
    <2> QED BY <1>4, <2>1, <2>2
  <1>6. RunKnows(u)'
    BY <1>4, <1>5 DEF RunKnows
  <1>7. Goes(r, u)
    BY <1>1, <1>3
  <1> QED BY <1>4, <1>6, <1>7, MoveRun

LEMMA SaveTree ==
  ASSUME Rooted, Hung, Runs, NEW r \in Run, UpdateRow(r) \/ CreateRow(r), UNCHANGED everDone
  PROVE  Rooted' /\ Hung' /\ Kept /\ Runs'
  <1>1. PICK t, k : t = run[r] /\ k = Level(t)
    OBVIOUS
  <1>2. RunFits(t) /\ RunKnows(t) /\ t.pc = "save" /\ t \in RunRecord /\ t.at \in t.visits
    BY <1>1 DEF Runs, RunFits, UpdateRow, CreateRow
  <1>3. k \in 1..3 /\ Entry(t) = File[t.at[2]] /\ t.at[2] \in DOMAIN File
    BY <1>1, <1>2, LevelType
  <1>4. CASE UpdateRow(r)
    <2>1. Rooted' /\ Hung' /\ Kept
      BY <1>4, SameTree, SameHung DEF UpdateRow
    <2>2. CASE t.hit \in Ids
      <3>1. PICK i : i = t.hit
        OBVIOUS
      <3>2. i \in Id
        BY <2>2, <3>1, NodeType DEF Ids
      <3>3. Known(i, Tree[k])
        BY <1>1, <1>2, <3>1 DEF RunKnows
      <3>4. Known(i, Tree[k])'
        BY <2>1, <3>3, KnownKept
      <3>5. Goes(r, Settled(run[r], i))
        BY <1>1, <1>4, <2>2, <3>1 DEF UpdateRow
      <3> QED BY <1>1, <1>2, <2>1, <3>2, <3>4, <3>5, SettledRun
    <2>3. CASE t.hit \notin Ids
      BY <1>1, <1>4, <2>1, <2>3, FailsRun DEF UpdateRow
    <2> QED BY <2>2, <2>3
  <1>5. CASE CreateRow(r)
    <2>1. PICK i, kind, num : i = Parent(t) /\ kind = Tree[k] /\ num = Last(Entry(t).path)
      OBVIOUS
    <2>2. num \in Nums \cup {0} /\ kind \in Branch \cup Leaf /\ (kind = "course" <=> k = 1)
      BY <1>3, <2>1 DEF Nums, Tree, Branch
    <2>3. CASE ~ ParentThere(i)
      <3>1. Fails(r) /\ UNCHANGED <<rows, next, userVars>>
        BY <1>1, <1>5, <2>1, <2>3 DEF CreateRow
      <3>2. Rooted' /\ Hung' /\ Kept
        BY <3>1, SameTree, SameHung
      <3> QED BY <3>1, <3>2, FailsRun
    <2>4. CASE ParentThere(i)
      <3>1. Add(kind, i, num) /\ Goes(r, Settled(run[r], next))
        BY <1>1, <1>5, <2>1, <2>4 DEF CreateRow
      <3>2. IF kind = "course" THEN i = 0 ELSE There(i, ParentKind[kind])
        <4>1. CASE k = 1
          BY <1>1, <1>2, <2>1, <2>2, <4>1 DEF Parent, RunFits
        <4>2. CASE k # 1
          <5>1. PICK n \in 1..2 : k = n + 1
            BY <1>3, <4>2
          <5>2. i = t.path[n + 1] /\ Known(i, Tree[n])
            BY <1>1, <1>2, <2>1, <5>1 DEF Parent, RunKnows
          <5>3. i # NoId /\ i # 0
            <6>1. i \in Ids => i # NoId
              BY NodeType, Bounds DEF Ids
            <6>2. 0 \notin Id /\ 0 # NoId
              BY Bounds DEF Id
            <6> QED BY <2>4, <5>2, <6>1, <6>2 DEF ParentThere, Known
          <5>4. PICK y \in rows : y.id = i
            BY <2>4, <5>3 DEF ParentThere, Ids
          <5>5. y.kind = Tree[n]
            BY <5>2, <5>3, <5>4 DEF Known
          <5>6. Tree[n] = ParentKind[kind]
            BY <2>1, <5>1, Parents DEF Tree
          <5> QED BY <2>2, <4>2, <5>4, <5>5, <5>6 DEF There
        <4> QED BY <4>1, <4>2
      <3>3. Rooted' /\ Hung' /\ Kept
        BY <2>2, <3>1, <3>2, AddTree
      <3>4. PICK new : new = next
        OBVIOUS
      <3>5. new \in Id /\ next' = new + 1
        BY <3>1, <3>4, Bounds DEF Add, Rooted, Id
      <3>6. Known(new, kind)'
        <4>1. \A x \in rows' : x.id = new => x.kind = kind
          <5>1. \A x \in rows : x.id # new
            BY <3>4, <3>5, NodeType DEF Rooted, Id
          <5>2. rows' = rows \cup {[id |-> new, kind |-> kind, up |-> i, num |-> num]}
            BY <3>1, <3>4 DEF Add
          <5> QED BY <5>1, <5>2
        <4>2. new < next'
          BY <3>5, Bounds DEF Id
        <4> QED BY <3>5, <4>1, <4>2 DEF Known
      <3>7. Goes(r, Settled(run[r], new)) /\ Known(new, Tree[k])'
        BY <2>1, <3>1, <3>4, <3>6
      <3> QED BY <1>1, <1>2, <3>3, <3>5, <3>7, SettledRun
    <2> QED BY <2>3, <2>4
  <1> QED BY <1>4, <1>5

(* From the three counts on: a run that fills the section it settled on. *)
LEMMA OnwardRun ==
  ASSUME Rooted, Kept, Runs, NEW r \in Run, NEW t, t \in RunRecord, t.path = run[r].path,
         run[r].pc \in {"count", "fill"}, t.at = run[r].at, t.visits = run[r].visits,
         t.clear # <<>> => ~ Careful(t), Goes(r, Onward(t))
  PROVE  Runs'
  <1>1. PICK o : o = run[r]
    OBVIOUS
  <1>2. RunFits(o) /\ RunKnows(o) /\ o.pc \in {"count", "fill"}
    BY <1>1 DEF Runs
  <1>3. t.path[1] = 0 /\ t.at \in t.visits /\ Level(t) = 3
    BY <1>1, <1>2 DEF RunFits, Level, Entry
  <1>4. PICK u : u = Onward(t)
    OBVIOUS
  <1>5. /\ RunFits(u) /\ u.pc \in {"find", "fill", "ended"}
        /\ \A n \in 1..3 : u.path[n + 1] \in {t.path[n + 1], NoId}
    BY <1>3, <1>4, OnwardFits
  <1>6. ASSUME NEW n \in 1..3 PROVE Known(u.path[n + 1], Tree[n])'
    <2>1. Known(o.path[n + 1], Tree[n])'
      BY <1>2, KnownKept DEF RunKnows
    <2>2. Known(NoId, Tree[n])'
      BY DEF Known
    <2> QED BY <1>1, <1>5, <2>1, <2>2
  <1>7. RunKnows(u)'
    BY <1>5, <1>6 DEF RunKnows
  <1> QED BY <1>4, <1>5, <1>7, MoveRun

LEMMA SectionHere ==
  ASSUME Runs, NEW r \in Run, run[r].pc \in {"count", "fill"}
  PROVE  Here(run[r]) = run[r].path[4] /\ Known(run[r].path[4], "section")
  <1>1. RunFits(run[r]) /\ RunKnows(run[r])
    BY DEF Runs
  <1>2. Known(run[r].path[3 + 1], Tree[3])
    BY <1>1 DEF RunKnows
  <1> QED BY <1>1, <1>2 DEF RunFits, Here, Tree

LEMMA CountTree ==
  ASSUME Rooted, Hung, Runs, NEW r \in Run, CountContent(r), UNCHANGED everDone
  PROVE  Rooted' /\ Hung' /\ Kept /\ Runs'
  <1>1. Rooted' /\ Hung' /\ Kept
    BY SameTree, SameHung DEF CountContent
  <1>2. PICK o : o = run[r] /\ o \in RunRecord
    BY DEF Runs
  <1>3. PICK had, wanted : /\ had = {x.kind : x \in Kids(Here(o))}
                           /\ wanted = Wanted(o.script, Entry(o))
    OBVIOUS
  <1>4. PICK plan : plan = Plan(o, had, wanted)
    OBVIOUS
  <1>5. PICK t : t = [o EXCEPT !.clear = plan.clear, !.write = plan.write]
    OBVIOUS
  <1>6. o.pc = "count" /\ Goes(r, Onward(t))
    BY <1>2, <1>3, <1>4, <1>5 DEF CountContent
  <1>7. /\ plan.clear \in Seq(Leaf) /\ plan.write \in Seq(Leaf)
        /\ plan.clear # <<>> => ~ Careful(o)
    BY <1>2, <1>4, PlanFits
  <1>8. /\ t \in RunRecord /\ t.path = o.path /\ t.at = o.at /\ t.visits = o.visits
        /\ t.clear = plan.clear /\ t.script = o.script /\ t.mode = o.mode
    BY <1>2, <1>5, <1>7 DEF RunRecord
  <1>9. t.clear # <<>> => ~ Careful(t)
    BY <1>7, <1>8 DEF Careful
  <1> QED BY <1>1, <1>2, <1>6, <1>8, <1>9, OnwardRun

LEMMA FillTree ==
  ASSUME Rooted, Hung, Runs, NEW r \in Run, ClearKind(r) \/ WriteKind(r), UNCHANGED everDone
  PROVE  Rooted' /\ Hung' /\ Kept /\ Runs'
  <1>1. PICK o : o = run[r] /\ o \in RunRecord /\ RunFits(o)
    BY DEF Runs
  <1>2. o.pc = "fill" /\ o.clear \in Seq(Leaf) /\ o.write \in Seq(Leaf)
    BY <1>1 DEF ClearKind, WriteKind, RunRecord
  <1>3. Here(o) = o.path[4] /\ Known(o.path[4], "section")
    BY <1>1, <1>2, SectionHere
  <1>4. CASE ClearKind(r)
    <2>1. Rooted' /\ Hung' /\ Kept
      <3>1. PICK S : S = {x.id : x \in Of(Here(o), Head(o.clear))}
        OBVIOUS
      <3>2. S \in SUBSET Ids /\ Drop(S)
        BY <1>1, <1>4, <3>1 DEF ClearKind, Ids, Of, Kids
      <3> QED BY <3>2, DropTree
    <2>2. PICK t : t = [o EXCEPT !.clear = Tail(@)]
      OBVIOUS
    <2>3. o.clear # <<>> /\ Goes(r, Onward(t))
      BY <1>1, <1>4, <2>2 DEF ClearKind
    <2>4. Tail(o.clear) \in Seq(Leaf)
      BY <1>2, <2>3
    <2>5. /\ t \in RunRecord /\ t.path = o.path /\ t.at = o.at /\ t.visits = o.visits
          /\ t.script = o.script /\ t.mode = o.mode
      BY <1>1, <2>2, <2>4 DEF RunRecord
    <2>6. ~ Careful(t)
      BY <1>1, <2>3, <2>5 DEF RunFits, Careful
    <2> QED BY <1>1, <1>2, <2>1, <2>3, <2>5, <2>6, OnwardRun
  <1>5. CASE WriteKind(r)
    <2>1. CASE Here(o) \notin Ids
      <3>1. Fails(r) /\ UNCHANGED <<rows, next, userVars>>
        BY <1>1, <1>5, <2>1 DEF WriteKind
      <3>2. Rooted' /\ Hung' /\ Kept
        BY <3>1, SameTree, SameHung
      <3> QED BY <3>1, <3>2, FailsRun
    <2>2. CASE Here(o) \in Ids
      <3>1. o.clear = <<>> /\ o.write # <<>>
        BY <1>1, <1>2, <1>5 DEF WriteKind, RunFits
      <3>2. PICK kind \in Leaf : kind = Head(o.write)
        BY <1>2, <3>1
      <3>3. PICK i : i = Here(o)
        OBVIOUS
      <3>4. Add(kind, i, 0)
        BY <1>1, <1>5, <2>2, <3>2, <3>3 DEF WriteKind
      <3>5. kind # "course" /\ There(i, ParentKind[kind])
        <4>1. i # NoId
          BY <2>2, <3>3, NodeType, Bounds DEF Ids
        <4>2. PICK y \in rows : y.id = i
          BY <2>2, <3>3 DEF Ids
        <4>3. y.kind = "section"
          BY <1>3, <3>3, <4>1, <4>2 DEF Known
        <4> QED BY <4>2, <4>3, Parents DEF There, Leaf
      <3>6. Rooted' /\ Hung' /\ Kept
        BY <3>4, <3>5, AddTree
      <3>7. PICK t : t = [o EXCEPT !.write = Tail(@)]
        OBVIOUS
      <3>8. Goes(r, Onward(t))
        BY <1>1, <1>5, <2>2, <3>7 DEF WriteKind
      <3>9. Tail(o.write) \in Seq(Leaf)
        BY <1>2, <3>1
      <3>10. /\ t \in RunRecord /\ t.path = o.path /\ t.at = o.at /\ t.visits = o.visits
             /\ t.clear = <<>>
        BY <1>1, <3>1, <3>7, <3>9 DEF RunRecord
      <3> QED BY <1>1, <1>2, <3>6, <3>8, <3>10, OnwardRun
    <2> QED BY <2>1, <2>2
  <1> QED BY <1>4, <1>5

LEMMA RunTree ==
  ASSUME Rooted, Hung, Runs, NEW r \in Run, RunStep(r), UNCHANGED everDone
  PROVE  Rooted' /\ Hung' /\ Kept /\ Runs'
  <1>1. CASE KillRun(r)
    <2>1. Rooted' /\ Hung' /\ Kept
      BY <1>1, SameTree, SameHung DEF KillRun
    <2> QED BY <1>1, <2>1, FailsRun DEF KillRun
  <1> QED BY <1>1, StartTree, FindTree, SaveTree, CountTree, FillTree DEF RunStep

-----------------------------------------------------------------------------
(* The administration requests: what was looked up as the parent still is one,
   if it is there. *)
AdminRecord == [pc : {"idle", "ensure", "act", "ended"}, op : {"create", "patch", "delete"},
                kind : Branch \cup Leaf, id : 0..MaxRows]

AdminFits(a) ==
    /\ a \in AdminRecord
    /\ (a.pc \in {"ensure", "act"} /\ a.op = "create") =>
          IF a.kind = "course" THEN a.id = 0
          ELSE a.id # 0 /\ Known(a.id, ParentKind[a.kind])

Admins == admin \in [Admin -> AdminRecord] /\ \A a \in Admin : AdminFits(admin[a])

LEMMA MoveAdmin ==
  ASSUME Rooted, Kept, Admins, NEW a \in Admin, NEW t, admin' = [admin EXCEPT ![a] = t],
         AdminFits(t)'
  PROVE  Admins'
  <1>1. t \in AdminRecord
    BY DEF AdminFits, AdminRecord
  <1>2. /\ admin' \in [Admin -> AdminRecord] /\ admin'[a] = t
        /\ \A b \in Admin \ {a} : admin'[b] = admin[b]
    BY <1>1 DEF Admins
  <1>3. ASSUME NEW b \in Admin \ {a} PROVE AdminFits(admin[b])'
    <2>1. PICK u : u = admin[b]
      OBVIOUS
    <2>2. AdminFits(u)
      BY <2>1 DEF Admins
    <2>3. Known(u.id, ParentKind[u.kind]) => Known(u.id, ParentKind[u.kind])'
      BY KnownKept
    <2>4. AdminFits(u)'
      BY <2>2, <2>3 DEF AdminFits
    <2>5. admin'[b] = u
      BY <1>2, <2>1
    <2> QED BY <2>4, <2>5 DEF AdminFits
  <1>4. AdminFits(admin[a])'
    BY <1>2 DEF AdminFits
  <1> QED BY <1>2, <1>3, <1>4 DEF Admins, AdminRecord

LEMMA SameAdmins ==
  ASSUME Rooted, Kept, Admins, UNCHANGED admin
  PROVE  Admins'
  <1>1. ASSUME NEW b \in Admin PROVE AdminFits(admin[b])'
    <2>1. PICK u : u = admin[b]
      OBVIOUS
    <2>2. AdminFits(u)
      BY <2>1 DEF Admins
    <2>3. Known(u.id, ParentKind[u.kind]) => Known(u.id, ParentKind[u.kind])'
      BY KnownKept
    <2>4. AdminFits(u)'
      BY <2>2, <2>3 DEF AdminFits
    <2> QED BY <2>1, <2>4 DEF AdminFits
  <1> QED BY <1>1 DEF Admins, AdminRecord

LEMMA SameRuns ==
  ASSUME Rooted, Kept, Runs, UNCHANGED run
  PROVE  Runs'
  <1>1. ASSUME NEW q \in Run PROVE RunKnows(run[q])'
    <2>1. PICK u : u = run[q]
      OBVIOUS
    <2>2. RunKnows(u)
      BY <2>1 DEF Runs
    <2>3. RunKnows(u)'
      BY <2>2, KnownKept DEF RunKnows
    <2> QED BY <2>1, <2>3 DEF RunKnows
  <1> QED BY <1>1 DEF Runs

LEMMA EndsAdmin ==
  ASSUME Rooted, Kept, Admins, NEW a \in Admin, Ends(a)
  PROVE  Admins'
  <1>1. PICK t : t = [IdleAdmin EXCEPT !.pc = "ended"]
    OBVIOUS
  <1>2. t \in AdminRecord /\ t.pc = "ended"
    BY <1>1, Bounds DEF IdleAdmin, AdminRecord, Branch
  <1>3. AdminFits(t)'
    BY <1>2 DEF AdminFits, AdminRecord
  <1>4. admin' = [admin EXCEPT ![a] = t]
    BY <1>1 DEF Ends
  <1> QED BY <1>3, <1>4, MoveAdmin

LEMMA ReceiveAdmin ==
  ASSUME Rooted, Admins, NEW a \in Admin, NEW op \in {"create", "patch", "delete"},
         NEW kind \in Branch \cup Leaf, NEW i \in 0..MaxRows, Receive(a, op, kind, i),
         op = "create" => IF kind = "course" THEN i = 0
                          ELSE i # 0 /\ Known(i, ParentKind[kind])
  PROVE  Admins'
  <1>1. UNCHANGED <<rows, next>>
    BY DEF Receive
  <1>2. Kept
    BY <1>1, SameTree
  <1>3. PICK t : t = [pc |-> IF i = 0 THEN "act" ELSE "ensure", op |-> op, kind |-> kind, id |-> i]
    OBVIOUS
  <1>4. t \in AdminRecord /\ t.op = op /\ t.kind = kind /\ t.id = i
    BY <1>3 DEF AdminRecord
  <1>5. Known(i, ParentKind[kind]) => Known(i, ParentKind[kind])'
    BY <1>2, KnownKept
  <1>6. AdminFits(t)'
    BY <1>4, <1>5 DEF AdminFits, AdminRecord
  <1>7. admin' = [admin EXCEPT ![a] = t]
    BY <1>3 DEF Receive
  <1> QED BY <1>2, <1>6, <1>7, MoveAdmin

LEMMA RequestsTree ==
  ASSUME Rooted, Hung, Admins, NEW a \in Admin, NEW kind \in Branch \cup Leaf,
         Requests(a, kind), UNCHANGED everDone
  PROVE  /\ Rooted' /\ Hung' /\ Kept /\ Admins'
         /\ UNCHANGED <<rows, next, userVars, run, alone>>
  <1>1. UNCHANGED <<rows, next, userVars, run, alone>>
    BY DEF Requests, Receive
  <1>2. Rooted' /\ Hung' /\ Kept
    BY <1>1, SameTree, SameHung
  <1>3. CASE kind = "course" /\ Receive(a, "create", kind, 0)
    <2>1. 0 \in 0..MaxRows
      BY Bounds
    <2> QED BY <1>1, <1>2, <1>3, <2>1, ReceiveAdmin
  <1>4. ASSUME NEW x \in rows, x.kind = ParentKind[kind], Receive(a, "create", kind, x.id)
        PROVE  Admins'
    <2>1. PICK i : i = x.id
      OBVIOUS
    <2>2. i \in 0..MaxRows /\ i # 0 /\ i \in Id /\ i < next
      BY <2>1, NodeType, Bounds DEF Rooted
    <2>3. Known(i, ParentKind[kind])
      BY <1>4, <2>1, <2>2 DEF Known, Rooted
    <2>4. kind # "course"
      <3>1. ParentKind["course"] = "root"
        BY DEF ParentKind
      <3> QED BY <1>4, <3>1, NodeType DEF Branch, Leaf
    <2>5. Receive(a, "create", kind, i)
      BY <1>4, <2>1
    <2> QED BY <2>2, <2>3, <2>4, <2>5, ReceiveAdmin
  <1>5. ASSUME NEW x \in rows, NEW op \in {"patch", "delete"}, Receive(a, op, kind, x.id)
        PROVE  Admins'
    <2>1. x.id \in 0..MaxRows
      BY NodeType, Bounds
    <2> QED BY <1>5, <2>1, ReceiveAdmin
  <1> QED BY <1>1, <1>2, <1>3, <1>4, <1>5 DEF Requests

LEMMA EnsureTree ==
  ASSUME Rooted, Hung, Admins, NEW a \in Admin, Ensure(a) \/ Missed(a), UNCHANGED everDone
  PROVE  Rooted' /\ Hung' /\ Kept /\ Admins' /\ UNCHANGED <<rows, run, alone>>
  <1>1. UNCHANGED <<rows, next, userVars, run, alone>>
    BY DEF Ensure, Missed
  <1>2. Rooted' /\ Hung' /\ Kept
    BY <1>1, SameTree, SameHung
  <1>3. CASE Ends(a)
    BY <1>1, <1>2, <1>3, EndsAdmin
  <1>4. CASE admin[a].pc = "ensure" /\ admin' = [admin EXCEPT ![a].pc = "act"]
    <2>1. PICK u : u = admin[a]
      OBVIOUS
    <2>2. AdminFits(u) /\ u.pc = "ensure" /\ u \in AdminRecord
      BY <1>4, <2>1 DEF Admins
    <2>3. PICK t : t = [u EXCEPT !.pc = "act"]
      OBVIOUS
    <2>4. t \in AdminRecord /\ t.pc = "act" /\ t.op = u.op /\ t.kind = u.kind /\ t.id = u.id
      BY <2>2, <2>3 DEF AdminRecord
    <2>5. Known(u.id, ParentKind[u.kind]) => Known(u.id, ParentKind[u.kind])'
      BY <1>2, KnownKept
    <2>6. AdminFits(t)'
      BY <2>2, <2>4, <2>5 DEF AdminFits, AdminRecord
    <2>7. admin' = [admin EXCEPT ![a] = t]
      BY <1>4, <2>1, <2>3
    <2> QED BY <1>1, <1>2, <2>6, <2>7, MoveAdmin
  <1> QED BY <1>1, <1>2, <1>3, <1>4 DEF Ensure, Missed

LEMMA EditTree ==
  ASSUME Rooted, Hung, Admins, NEW a \in Admin, NEW kind \in Branch \cup Leaf,
         NEW nums \in SUBSET (Nums \cup {0}), UNCHANGED everDone,
         Create(a, kind, nums) \/ Patch(a, kind, nums) \/ Delete(a, kind)
  PROVE  Rooted' /\ Hung' /\ Kept /\ Admins' /\ UNCHANGED run /\ Disturb(a)
  <1>1. PICK i : i = admin[a].id
    OBVIOUS
  <1>2. Ends(a) /\ UNCHANGED run /\ Disturb(a)
    BY DEF Create, Patch, Delete
  <1>3. Rooted' /\ Hung' /\ Kept
    <2>1. CASE Create(a, kind, nums)
      <3>1. PICK n \in nums : Add(kind, i, n)
        BY <1>1, <2>1 DEF Create
      <3>2. ParentThere(i) /\ AdminFits(admin[a]) /\ Acts(a, kind, "create")
        BY <1>1, <2>1 DEF Create, Admins
      <3>3. IF kind = "course" THEN i = 0 ELSE i # 0 /\ Known(i, ParentKind[kind])
        BY <1>1, <3>2 DEF AdminFits, Acts
      <3>4. CASE kind = "course"
        BY <3>1, <3>3, <3>4, AddTree
      <3>5. CASE kind # "course"
        <4>1. PICK y \in rows : y.id = i
          BY <3>2, <3>3, <3>5 DEF ParentThere, Ids
        <4>2. i # NoId
          BY <4>1, NodeType, Bounds
        <4>3. There(i, ParentKind[kind])
          BY <3>3, <3>5, <4>1, <4>2 DEF Known, There
        <4> QED BY <3>1, <3>5, <4>3, AddTree
      <3> QED BY <3>4, <3>5
    <2>2. CASE Patch(a, kind, nums)
      <3>1. PICK n \in nums :
              rows' = {IF x.id = i THEN [x EXCEPT !.num = n] ELSE x : x \in rows}
        BY <1>1, <2>2 DEF Patch
      <3>2. UNCHANGED <<next, userVars, everDone>>
        BY <2>2 DEF Patch
      <3> QED BY <3>1, <3>2, PatchTree
    <2>3. CASE Delete(a, kind)
      <3>1. {i} \in SUBSET Ids /\ Drop({i})
        BY <1>1, <2>3 DEF Delete
      <3> QED BY <3>1, DropTree
    <2> QED BY <2>1, <2>2, <2>3
  <1> QED BY <1>2, <1>3, EndsAdmin

(* A request leaves the runs alone, or it disturbs them all. *)
LEMMA AdminTree ==
  ASSUME Rooted, Hung, Admins, NEW a \in Admin, AdminStep(a), UNCHANGED everDone
  PROVE  /\ Rooted' /\ Hung' /\ Kept /\ Admins' /\ UNCHANGED run
         /\ UNCHANGED <<rows, alone>> \/ Disturb(a)
  <1>1. CASE Ensure(a) \/ Missed(a)
    BY <1>1, EnsureTree
  <1>2. ASSUME NEW kind \in Branch \cup Leaf, NEW nums \in SUBSET (Nums \cup {0}),
               Edit(a, kind, nums)
        PROVE  /\ Rooted' /\ Hung' /\ Kept /\ Admins' /\ UNCHANGED run
               /\ UNCHANGED <<rows, alone>> \/ Disturb(a)
    <2>1. CASE Requests(a, kind)
      BY <2>1, RequestsTree
    <2>2. CASE Create(a, kind, nums) \/ Patch(a, kind, nums) \/ Delete(a, kind)
      BY <2>2, EditTree
    <2> QED BY <1>2, <2>1, <2>2 DEF Edit
  <1>3. ASSUME NEW kind \in Branch \cup Leaf,
               Edit(a, kind, Nums) \/ Edit(a, kind, {0})
        PROVE  /\ Rooted' /\ Hung' /\ Kept /\ Admins' /\ UNCHANGED run
               /\ UNCHANGED <<rows, alone>> \/ Disturb(a)
    <2>1. Nums \in SUBSET (Nums \cup {0}) /\ {0} \in SUBSET (Nums \cup {0})
      OBVIOUS
    <2> QED BY <1>2, <1>3, <2>1
  <1>4. CASE ~ (Ensure(a) \/ Missed(a))
    <2>1. PICK kind \in Branch \cup Leaf : Edit(a, kind, Nums) \/ Edit(a, kind, {0})
      BY <1>4 DEF AdminStep, AdminCourse, AdminLesson, AdminSection, AdminCard,
                  AdminMaterial, AdminQuestion, Branch, Leaf
    <2> QED BY <1>3, <2>1
  <1> QED BY <1>1, <1>4

-----------------------------------------------------------------------------
(* The learner's requests.  Only the preferences are written to a row that was
   looked up in an earlier query. *)
AskRecord == [pc : {"idle", "logs", "question", "write", "ended"},
              op : {"courses", "lesson", "resume", "prefs", "check"},
              at : (0..MaxRows) \cup {NoId}, lists : SUBSET SUBSET Id]

AskFits(t) == /\ t \in AskRecord
              /\ t.op = "prefs" /\ t.pc = "write" => Known(t.at, "lesson")

Asks == ask \in [Ask -> AskRecord] /\ \A q \in Ask : AskFits(ask[q])

LEMMA MoveAsk ==
  ASSUME Rooted, Kept, Asks, NEW q \in Ask, NEW t, ask' = [ask EXCEPT ![q] = t], AskFits(t)'
  PROVE  Asks'
  <1>1. t \in AskRecord
    BY DEF AskFits, AskRecord
  <1>2. /\ ask' \in [Ask -> AskRecord] /\ ask'[q] = t
        /\ \A b \in Ask \ {q} : ask'[b] = ask[b]
    BY <1>1 DEF Asks
  <1>3. ASSUME NEW b \in Ask \ {q} PROVE AskFits(ask[b])'
    <2>1. PICK u : u = ask[b]
      OBVIOUS
    <2>2. AskFits(u)
      BY <2>1 DEF Asks
    <2>3. Known(u.at, "lesson") => Known(u.at, "lesson")'
      BY KnownKept
    <2>4. AskFits(u)'
      BY <2>2, <2>3 DEF AskFits, AskRecord
    <2>5. ask'[b] = u
      BY <1>2, <2>1
    <2> QED BY <2>4, <2>5 DEF AskFits
  <1>4. AskFits(ask[q])'
    BY <1>2 DEF AskFits
  <1> QED BY <1>2, <1>3, <1>4 DEF Asks, AskRecord

LEMMA SameAsks ==
  ASSUME Rooted, Kept, Asks, UNCHANGED ask
  PROVE  Asks'
  <1>1. ASSUME NEW b \in Ask PROVE AskFits(ask[b])'
    <2>1. PICK u : u = ask[b]
      OBVIOUS
    <2>2. AskFits(u)
      BY <2>1 DEF Asks
    <2>3. Known(u.at, "lesson") => Known(u.at, "lesson")'
      BY KnownKept
    <2>4. AskFits(u)'
      BY <2>2, <2>3 DEF AskFits, AskRecord
    <2> QED BY <2>1, <2>4 DEF AskFits
  <1> QED BY <1>1 DEF Asks, AskRecord

LEMMA DoneAsks ==
  ASSUME Rooted, Kept, Asks, NEW q \in Ask, Done(q)
  PROVE  Asks'
  <1>1. PICK t : t = [IdleAsk EXCEPT !.pc = "ended"]
    OBVIOUS
  <1>2. t \in AskRecord /\ t.pc = "ended"
    BY <1>1 DEF IdleAsk, AskRecord
  <1>3. AskFits(t)'
    BY <1>2 DEF AskFits, AskRecord
  <1>4. ask' = [ask EXCEPT ![q] = t]
    BY <1>1 DEF Done
  <1> QED BY <1>3, <1>4, MoveAsk

LEMMA BeginAsks ==
  ASSUME Rooted, Hung, Asks, NEW q \in Ask,
         NEW op \in {"courses", "lesson", "resume", "prefs", "check"},
         NEW pc \in {"logs", "question", "write"}, NEW at \in (0..MaxRows) \cup {NoId},
         NEW lists \in SUBSET SUBSET Id, Begin(q, op, pc, at, lists),
         op = "prefs" => Known(at, "lesson")
  PROVE  Rooted' /\ Hung' /\ Kept /\ Asks' /\ UNCHANGED <<treeVars, everDone, shown>>
  <1>1. UNCHANGED <<rows, next, userVars, everDone, treeVars, shown>>
    BY DEF Begin, treeVars
  <1>2. Rooted' /\ Hung' /\ Kept
    BY <1>1, SameTree, SameHung
  <1>3. PICK t : t = [pc |-> pc, op |-> op, at |-> at, lists |-> lists]
    OBVIOUS
  <1>4. t \in AskRecord /\ t.op = op /\ t.at = at
    BY <1>3 DEF AskRecord
  <1>5. Known(at, "lesson") => Known(at, "lesson")'
    BY <1>2, KnownKept
  <1>6. AskFits(t)'
    BY <1>4, <1>5 DEF AskFits, AskRecord
  <1>7. ask' = [ask EXCEPT ![q] = t]
    BY <1>3 DEF Begin
  <1> QED BY <1>1, <1>2, <1>6, <1>7, MoveAsk

LEMMA SectionsType == ASSUME Rooted, NEW i PROVE SectionsOf(i) \in SUBSET Id
  BY NodeType DEF SectionsOf, Of, Kids

LEMMA ScreenTree ==
  ASSUME Rooted, Hung, Asks, NEW q \in Ask,
         \/ CoursesTree(q) \/ LessonTree(q) \/ ResumeTree(q) \/ FindLesson(q) \/ FindSection(q)
  PROVE  Rooted' /\ Hung' /\ Kept /\ Asks' /\ UNCHANGED <<treeVars, everDone, shown>>
  <1>1. \A x \in rows : /\ x.id \in (0..MaxRows) \cup {NoId}
                        /\ x.up \in (0..MaxRows) \cup {NoId}
    <2>1. ASSUME NEW x \in rows PROVE x.up \in 0..MaxRows
      BY DEF Rooted, Node
    <2> QED BY <2>1, NodeType, Bounds
  <1>2. CASE CoursesTree(q)
    <2>1. PICK lists : /\ Begin(q, "courses", "logs", NoId, lists)
                       /\ lists =
                            {SectionsOf(l.id) : l \in {x \in rows : x.kind = "lesson"}} \cup
                            {UNION {SectionsOf(l.id) : l \in
                                      {x \in {y \in rows : y.kind = "lesson"} : x.up = c.id}} :
                               c \in {x \in rows : x.kind = "course"}}
      BY <1>2 DEF CoursesTree
    <2>2. lists \in SUBSET SUBSET Id
      BY <2>1, SectionsType
    <2> QED BY <2>1, <2>2, BeginAsks
  <1>3. CASE LessonTree(q)
    <2>1. PICK l \in rows : Begin(q, "lesson", "logs", l.id, {SectionsOf(l.id)})
      BY <1>3 DEF LessonTree
    <2>2. {SectionsOf(l.id)} \in SUBSET SUBSET Id
      BY SectionsType
    <2> QED BY <1>1, <2>1, <2>2, BeginAsks
  <1>4. CASE ResumeTree(q)
    <2>1. PICK x \in rows : Begin(q, "resume", "logs", x.up, {SectionsOf(x.up)})
      BY <1>4 DEF ResumeTree
    <2>2. {SectionsOf(x.up)} \in SUBSET SUBSET Id
      BY SectionsType
    <2> QED BY <1>1, <2>1, <2>2, BeginAsks
  <1>5. CASE FindLesson(q)
    <2>1. PICK l \in rows : l.kind = "lesson" /\ Begin(q, "prefs", "write", l.id, {})
      BY <1>5 DEF FindLesson
    <2>2. Known(l.id, "lesson")
      BY <2>1, NodeType DEF Known, Rooted
    <2>3. l.id \in (0..MaxRows) \cup {NoId} /\ {} \in SUBSET SUBSET Id
      BY <1>1
    <2> QED BY <2>1, <2>2, <2>3, BeginAsks
  <1>6. CASE FindSection(q)
    <2>1. PICK z \in rows : Begin(q, "check", "question", z.id, {})
      BY <1>6 DEF FindSection, Level3
    <2>2. z.id \in (0..MaxRows) \cup {NoId} /\ {} \in SUBSET SUBSET Id
      BY <1>1
    <2> QED BY <2>1, <2>2, BeginAsks
  <1> QED BY <1>2, <1>3, <1>4, <1>5, <1>6

LEMMA FindQuestionTree ==
  ASSUME Rooted, Hung, Asks, NEW q \in Ask, FindQuestion(q)
  PROVE  Rooted' /\ Hung' /\ Kept /\ Asks' /\ UNCHANGED <<treeVars, everDone, shown>>
  <1>1. UNCHANGED <<rows, next, userVars, everDone, treeVars, shown>>
    BY DEF FindQuestion, treeVars
  <1>2. Rooted' /\ Hung' /\ Kept
    BY <1>1, SameTree, SameHung
  <1>3. CASE Done(q)
    BY <1>1, <1>2, <1>3, DoneAsks
  <1>4. CASE ~ Done(q)
    <2>1. PICK x \in rows : To(q, "write", x.id, {})
      BY <1>4 DEF FindQuestion, Of, Kids
    <2>2. PICK u : u = ask[q]
      OBVIOUS
    <2>3. u \in AskRecord /\ u.op = "check"
      BY <2>2 DEF Asks, FindQuestion, Then
    <2>4. PICK t : t = [u EXCEPT !.pc = "write", !.at = x.id, !.lists = {}]
      OBVIOUS
    <2>5. x.id \in 0..MaxRows
      BY NodeType, Bounds
    <2>6. t \in AskRecord /\ t.op = "check"
      BY <2>3, <2>4, <2>5 DEF AskRecord
    <2>7. AskFits(t)'
      BY <2>6 DEF AskFits, AskRecord
    <2>8. ask' = [ask EXCEPT ![q] = t]
      BY <2>1, <2>2, <2>4 DEF To, Asks
    <2> QED BY <1>1, <1>2, <2>7, <2>8, MoveAsk
  <1> QED BY <1>3, <1>4

LEMMA WritesTree ==
  ASSUME Rooted, Hung, Asks, NEW q \in Ask,
         SavePrefs(q) \/ SaveAnswer(q) \/ Study(q) \/ Bookmark(q)
  PROVE  /\ Rooted' /\ Hung' /\ Kept /\ Asks' /\ UNCHANGED <<treeVars, shown>>
         /\ everDone \subseteq everDone'
  <1>1. UNCHANGED <<rows, next, treeVars, shown>> /\ Done(q)
    BY DEF SavePrefs, SaveAnswer, Study, Bookmark, treeVars
  <1>2. Rooted' /\ Kept /\ Asks'
    BY <1>1, SameTree, DoneAsks
  <1>3. CASE SavePrefs(q)
    <2>1. prefs' = prefs \cup ({ask[q].at} \cap Ids) /\ UNCHANGED <<log, scraps, stats, everDone>>
      BY <1>3 DEF SavePrefs
    <2>2. Known(ask[q].at, "lesson")
      BY <1>3 DEF Asks, AskFits, SavePrefs, Then
    <2>3. ask[q].at \in Ids => There(ask[q].at, "lesson")
      <3>1. ask[q].at \in Ids => ask[q].at # NoId
        BY NodeType, Bounds DEF Ids
      <3> QED BY <2>2, <3>1 DEF Known, There, Ids
    <2>4. Hung'
      BY <1>1, <2>1, <2>3 DEF Hung, There, Ids
    <2> QED BY <1>1, <1>2, <2>1, <2>4
  <1>4. CASE SaveAnswer(q)
    <2>1. stats' = stats \cup ({ask[q].at} \cap Ids) /\ UNCHANGED <<log, scraps, prefs, everDone>>
      BY <1>4 DEF SaveAnswer
    <2>2. Hung'
      BY <1>1, <2>1 DEF Hung, There, Ids
    <2> QED BY <1>1, <1>2, <2>1, <2>2
  <1>5. CASE Study(q)
    <2>1. PICK z \in Level3, done \in BOOLEAN :
            /\ log' = {l \in log : l.section # z.id} \cup
                      {[section |-> z.id, done |-> done \/ z.id \in DoneNow]}
            /\ everDone' = everDone \cup (IF done THEN {z.id} ELSE {})
      BY <1>5 DEF Study
    <2>2. UNCHANGED <<scraps, stats, prefs>>
      BY <1>5 DEF Study
    <2>3. z \in rows /\ z.kind = "section" /\ z.id \in Id
      BY NodeType DEF Level3
    <2>4. z.id \in DoneNow => z.id \in everDone
      BY DEF Hung, DoneNow
    <2>5. PICK n : n = [section |-> z.id, done |-> done \/ z.id \in DoneNow]
      OBVIOUS
    <2>6. /\ n \in [section : Id, done : BOOLEAN] /\ n.section = z.id
          /\ n.done = TRUE => z.id \in everDone'
      BY <2>1, <2>3, <2>4, <2>5
    <2>7. log' = {l \in log : l.section # z.id} \cup {n}
      BY <2>1, <2>5
    <2>8. everDone \subseteq everDone' /\ everDone' \subseteq Id
      BY <2>1, <2>3 DEF Hung
    <2>9. There(z.id, "section")
      BY <2>3 DEF There
    <2>10. Hung'
      BY <1>1, <2>2, <2>6, <2>7, <2>8, <2>9 DEF Hung, There, Ids
    <2> QED BY <1>1, <1>2, <2>8, <2>10
  <1>6. CASE Bookmark(q)
    <2>1. PICK x \in rows : /\ x.kind \in {"card", "material"}
                            /\ scraps' = scraps \cup {[item |-> x.id, section |-> x.up]}
      BY <1>6 DEF Bookmark
    <2>2. UNCHANGED <<log, stats, prefs, everDone>>
      BY <1>6 DEF Bookmark
    <2>3. x.id \in Ids /\ x.up \in Ids
      BY <2>1 DEF Rooted, Placed, Ids
    <2>4. Hung'
      BY <1>1, <2>1, <2>2, <2>3 DEF Hung, There, Ids
    <2> QED BY <1>1, <1>2, <2>2, <2>4
  <1> QED BY <1>3, <1>4, <1>5, <1>6

LEMMA ReadTree ==
  ASSUME Rooted, Hung, Asks, NEW q \in Ask, ReadLogs(q)
  PROVE  Rooted' /\ Hung' /\ Kept /\ Asks' /\ UNCHANGED <<treeVars, everDone>>
  <1>1. UNCHANGED <<rows, next, userVars, everDone, treeVars>> /\ Done(q)
    BY DEF ReadLogs, treeVars
  <1> QED BY <1>1, SameTree, SameHung, DoneAsks

LEMMA AskTree ==
  ASSUME Rooted, Hung, Asks, NEW q \in Ask, AskStep(q)
  PROVE  /\ Rooted' /\ Hung' /\ Kept /\ Asks' /\ UNCHANGED treeVars
         /\ everDone \subseteq everDone'
  <1>1. CASE ReadLogs(q)
    BY <1>1, ReadTree
  <1>2. CASE FindQuestion(q)
    BY <1>2, FindQuestionTree
  <1>3. CASE SavePrefs(q) \/ SaveAnswer(q) \/ Study(q) \/ Bookmark(q)
    BY <1>3, WritesTree
  <1>4. CASE CoursesTree(q) \/ LessonTree(q) \/ ResumeTree(q) \/ FindLesson(q) \/ FindSection(q)
    BY <1>4, ScreenTree
  <1> QED BY <1>1, <1>2, <1>3, <1>4 DEF AskStep

-----------------------------------------------------------------------------
(* Together.                                                               *)
TreeInv == Rooted /\ Hung /\ Runs /\ Admins /\ Asks /\ alone \subseteq Run

LEMMA TreeInit == CatalogueInit => TreeInv
  <1> SUFFICES ASSUME CatalogueInit PROVE TreeInv
    OBVIOUS
  <1>1. Rooted
    BY Bounds, FS_EmptySet DEF CatalogueInit, ContentInit, Rooted
  <1>2. Hung
    BY DEF CatalogueInit, ContentInit, Hung
  <1>3. Runs
    BY IdleRunFits DEF CatalogueInit, ContentInit, Runs
  <1>4. Admins
    <2>1. PICK t : t = IdleAdmin
      OBVIOUS
    <2>2. t \in AdminRecord /\ t.pc = "idle"
      BY <2>1, Bounds DEF IdleAdmin, AdminRecord, Branch
    <2>3. AdminFits(t)
      BY <2>2 DEF AdminFits
    <2> QED BY <2>1, <2>2, <2>3 DEF CatalogueInit, ContentInit, Admins
  <1>5. Asks
    <2>1. PICK t : t = IdleAsk
      OBVIOUS
    <2>2. t \in AskRecord /\ t.pc = "idle"
      BY <2>1 DEF IdleAsk, AskRecord
    <2>3. AskFits(t)
      BY <2>2 DEF AskFits
    <2> QED BY <2>1, <2>2, <2>3 DEF CatalogueInit, Asks
  <1>6. alone \subseteq Run
    BY DEF CatalogueInit, ContentInit
  <1> QED BY <1>1, <1>2, <1>3, <1>4, <1>5, <1>6 DEF TreeInv

LEMMA TreeNext ==
  ASSUME TreeInv, [CatalogueNext]_catalogueVars
  PROVE  TreeInv' /\ everDone \subseteq everDone'
  <1> USE DEF TreeInv
  <1>1. CASE UNCHANGED catalogueVars
    <2>1. UNCHANGED <<rows, next, userVars, run, admin, ask, alone, everDone>>
      BY <1>1 DEF catalogueVars, contentVars, askVars
    <2>2. Rooted' /\ Kept /\ Hung'
      BY <2>1, SameTree, SameHung
    <2> QED BY <2>1, <2>2, SameRuns, SameAdmins, SameAsks
  <1>2. ASSUME NEW r \in Run, RunStep(r), UNCHANGED askVars PROVE TreeInv'
    <2>1. UNCHANGED <<ask, everDone>>
      BY <1>2 DEF askVars
    <2>2. Rooted' /\ Hung' /\ Kept /\ Runs'
      BY <1>2, <2>1, RunTree
    <2>3. UNCHANGED admin
      BY <1>2 DEF RunStep, StartRun, FindRow, UpdateRow, CreateRow, CountContent,
                  ClearKind, WriteKind, KillRun
    <2>4. alone' \subseteq Run
      BY <1>2 DEF RunStep, StartRun, FindRow, UpdateRow, CreateRow, CountContent,
                  ClearKind, WriteKind, KillRun, Disturb
    <2> QED BY <2>1, <2>2, <2>3, <2>4, SameAdmins, SameAsks
  <1>3. ASSUME NEW a \in Admin, AdminStep(a), UNCHANGED askVars PROVE TreeInv'
    <2>1. UNCHANGED <<ask, everDone>>
      BY <1>3 DEF askVars
    <2>2. /\ Rooted' /\ Hung' /\ Kept /\ Admins' /\ UNCHANGED run
          /\ UNCHANGED <<rows, alone>> \/ Disturb(a)
      BY <1>3, <2>1, AdminTree
    <2>3. alone' \subseteq Run
      BY <2>2 DEF Disturb
    <2> QED BY <2>1, <2>2, <2>3, SameRuns, SameAsks
  <1>4. ASSUME NEW q \in Ask, AskStep(q) PROVE TreeInv' /\ everDone \subseteq everDone'
    <2>1. /\ Rooted' /\ Hung' /\ Kept /\ Asks' /\ UNCHANGED treeVars
          /\ everDone \subseteq everDone'
      BY <1>4, AskTree
    <2>2. UNCHANGED <<run, admin, alone>>
      BY <2>1 DEF treeVars
    <2> QED BY <2>1, <2>2, SameRuns, SameAdmins
  <1>5. UNCHANGED askVars \/ UNCHANGED catalogueVars => everDone \subseteq everDone'
    BY DEF askVars, catalogueVars
  <1>6. \/ UNCHANGED catalogueVars
        \/ UNCHANGED askVars /\ \E r \in Run : RunStep(r)
        \/ UNCHANGED askVars /\ \E a \in Admin : AdminStep(a)
        \/ \E q \in Ask : AskStep(q)
    BY DEF CatalogueNext, ContentNext
  <1> QED BY <1>1, <1>2, <1>3, <1>4, <1>5, <1>6

(* In every state the rows form a tree whose ids are unique, the learner's
   rows refer to rows that are there, and whatever a run, an administration
   request or a learner's request looked up in an earlier query is, if it is
   still there, a row of the kind it was taken for. *)
THEOREM TreeInvHolds == CatalogueSpec => []TreeInv
  <1>1. TreeInv /\ [CatalogueNext]_catalogueVars => TreeInv'
    BY TreeNext
  <1> QED BY <1>1, TreeInit, PTL DEF CatalogueSpec

-----------------------------------------------------------------------------
(* The type invariant: the foreign keys hold, and an id stands for one row. *)
LEMMA TypeOKHere == TreeInv => CatalogueTypeOK
  <1> SUFFICES ASSUME TreeInv PROVE CatalogueTypeOK
    OBVIOUS
  <1> USE DEF TreeInv
  <1>1. next \in 1..(MaxRows + 1)
    BY DEF Rooted
  <1>2. ASSUME NEW x \in rows
        PROVE  /\ x.id \in 1..(next - 1)
               /\ IF x.kind = "course" THEN x.up = 0
                  ELSE \E y \in rows : y.id = x.up /\ y.kind = ParentKind[x.kind]
    <2>1. x.id < next /\ Placed(x)
      BY DEF Rooted
    <2>2. x.id \in 1..(next - 1)
      BY <1>1, <2>1, NodeType, Bounds
    <2> QED BY <2>1, <2>2 DEF Placed
  <1>3. Cardinality(rows) = Cardinality(Ids)
    <2> DEFINE f == [x \in rows |-> x.id]
    <2>1. f \in Injection(rows, Ids)
      BY DEF Injection, IsInjective, Ids, Rooted
    <2>2. f \in Surjection(rows, Ids)
      BY DEF Surjection, Ids
    <2>3. Cardinality(Ids) <= Cardinality(rows) /\ IsFiniteSet(Ids)
      BY <2>2, FS_Surjection DEF Rooted
    <2>4. Cardinality(rows) <= Cardinality(Ids)
      BY <2>1, <2>3, FS_Injection
    <2>5. Cardinality(rows) \in Nat /\ Cardinality(Ids) \in Nat
      BY <2>3, FS_CardinalityType DEF Rooted
    <2> QED BY <2>3, <2>4, <2>5
  <1>4. /\ \A l \in log : \E y \in rows : y.id = l.section /\ y.kind = "section"
        /\ \A s \in scraps : {s.item, s.section} \subseteq Ids \cup {NoId}
        /\ stats \cup prefs \subseteq Ids
    BY DEF Hung, There, Ids
  <1>5. everDone \subseteq Id
    BY DEF Hung
  <1> QED BY <1>1, <1>2, <1>3, <1>4, <1>5 DEF CatalogueTypeOK, ContentTypeOK

(* However deletes of the handlers and the scripts interleave with creations
   below the deleted rows, no row, log, answer count, preference or bookmark
   ever refers to a row that is gone, and an id stands for one row. *)
THEOREM CatalogueTypeCorrect == CatalogueSpec => []CatalogueTypeOK
  BY TreeInvHolds, TypeOKHere, PTL

-----------------------------------------------------------------------------
(* Completion.  A share is rounded to the whole only when it is the whole,
   while a part of it is larger than half a percent. *)
LEMMA RoundsUp ==
  ASSUME NEW done \in Nat, NEW total \in Nat, done <= total, total # 0, total < 2 * Scale,
         Percent(done, total) = Scale
  PROVE  done = total
  <1>1. Scale \in Nat /\ Scale # 0
    BY CatalogueAssumption
  <1>2. PICK p \in Nat : p = 2 * done * Scale + total
    BY <1>1
  <1>3. PICK d \in Nat : d = 2 * total /\ d > 0
    OBVIOUS
  <1>4. p \div d = Scale
    BY <1>2, <1>3 DEF Percent
  <1>5. p = d * (p \div d) + (p % d) /\ p % d \in Nat
    BY <1>3
  <1>6. p >= d * Scale
    <2>1. d * Scale \in Nat
      BY <1>1
    <2> QED BY <1>4, <1>5, <2>1
  <1>7. 2 * done * Scale + total >= 2 * total * Scale
    BY <1>2, <1>3, <1>6
  <1>8. ASSUME done # total PROVE FALSE
    <2>1. done + 1 <= total
      BY <1>8
    <2>2. (done + 1) * (2 * Scale) <= total * (2 * Scale)
      BY <1>1, <2>1
    <2>3. (done + 1) * (2 * Scale) = 2 * done * Scale + 2 * Scale
      BY <1>1
    <2>4. total * (2 * Scale) = 2 * total * Scale
      BY <1>1
    <2>5. 2 * done * Scale \in Nat /\ 2 * total * Scale \in Nat
      BY <1>1
    <2> QED BY <1>1, <1>7, <2>2, <2>3, <2>4, <2>5
  <1> QED BY <1>8

LEMMA FiguresRight ==
  ASSUME Hung, NEW list \in SUBSET Id, Cardinality(list) < 2 * Scale
  PROVE  /\ Figures(list).done <= Cardinality(list)
         /\ Figures(list).complete => list # {} /\ list \subseteq everDone
  <1>1. IsFiniteSet(list)
    <2>1. IsFiniteSet(Id)
      BY FS_Interval, Bounds DEF Id
    <2> QED BY <2>1, FS_Subset
  <1> DEFINE part == list \cap DoneNow
  <1>2. IsFiniteSet(part) /\ Cardinality(part) <= Cardinality(list)
        /\ (Cardinality(part) = Cardinality(list) => part = list)
    BY <1>1, FS_Subset
  <1>3. Cardinality(part) \in Nat /\ Cardinality(list) \in Nat
    BY <1>1, <1>2, FS_CardinalityType
  <1>4. /\ Figures(list).done = Cardinality(part)
        /\ Figures(list).complete = (Percent(Cardinality(part), Cardinality(list)) = Scale)
    BY DEF Figures
  <1>5. ASSUME Percent(Cardinality(part), Cardinality(list)) = Scale
        PROVE  list # {} /\ list \subseteq everDone
    <2>1. Cardinality(list) # 0
      BY <1>5, CatalogueAssumption DEF Percent
    <2>2. Cardinality(part) = Cardinality(list)
      BY <1>2, <1>3, <1>5, <2>1, RoundsUp
    <2>3. part = list
      BY <1>2, <2>2
    <2>4. list # {}
      BY <2>1, FS_EmptySet
    <2> QED BY <2>3, <2>4 DEF Hung, DoneNow
  <1> QED BY <1>2, <1>4, <1>5

LEMMA CompleteStep ==
  ASSUME TreeInv, CompleteMeansAll, [CatalogueNext]_catalogueVars
  PROVE  CompleteMeansAll'
  <1>1. everDone \subseteq everDone'
    BY TreeNext
  <1>2. ASSUME shown' \subseteq shown PROVE CompleteMeansAll'
    BY <1>1, <1>2 DEF CompleteMeansAll
  <1>3. ASSUME NEW q \in Ask, ReadLogs(q) PROVE CompleteMeansAll'
    <2>1. shown' = shown \cup {Figures(list) : list \in ask[q].lists}
      BY <1>3 DEF ReadLogs
    <2>2. ASSUME NEW list \in ask[q].lists, Cardinality(list) < 2 * Scale
          PROVE  /\ Figures(list).of = list
                 /\ Figures(list).done <= Cardinality(list)
                 /\ Figures(list).complete => list # {} /\ list \subseteq everDone
      <3>1. list \in SUBSET Id
        BY DEF TreeInv, Asks, AskRecord
      <3> QED BY <2>2, <3>1, FiguresRight DEF TreeInv, Figures
    <2>3. \A list \in ask[q].lists : Figures(list).of = list
      BY DEF Figures
    <2> QED BY <1>1, <2>1, <2>2, <2>3 DEF CompleteMeansAll
  <1>4. ASSUME NEW q \in Ask, AskStep(q), ~ ReadLogs(q) PROVE UNCHANGED shown
    BY <1>4 DEF AskStep, CoursesTree, LessonTree, ResumeTree, FindLesson, FindSection, Begin,
                FindQuestion, SavePrefs, SaveAnswer, Study, Bookmark
  <1>5. \/ UNCHANGED shown
        \/ \E q \in Ask : AskStep(q)
    BY DEF CatalogueNext, askVars, catalogueVars
  <1> QED BY <1>2, <1>3, <1>4, <1>5

(* A lesson or course shown as complete had sections, and the learner had
   completed every one that its total counts: the rounding of the percentage
   and edits of the tree between the two queries hide no missing section, up
   to the size at which rounding does. *)
THEOREM CompleteMeansAllHolds == CatalogueSpec => []CompleteMeansAll
  <1>1. CatalogueInit => CompleteMeansAll
    BY DEF CatalogueInit, CompleteMeansAll
  <1>2. TreeInv /\ CompleteMeansAll /\ [CatalogueNext]_catalogueVars => CompleteMeansAll'
    BY CompleteStep
  <1> QED BY <1>1, <1>2, TreeInvHolds, PTL DEF CatalogueSpec

-----------------------------------------------------------------------------
(* A step changes the state of one run at most, and only in one way is a
   row deleted or created. *)
LEMMA OneRun ==
  ASSUME NEW r, NEW q, q # r, RunStep(r), Runs, q \in Run
  PROVE  run'[q] = run[q]
  BY DEF Runs, RunStep, StartRun, FindRow, UpdateRow, CreateRow, CountContent, ClearKind,
         WriteKind, KillRun, Fails, Goes

LEMMA MovedRun ==
  ASSUME TreeInv, CatalogueNext, NEW r \in Run, run'[r] # run[r]
  PROVE  RunStep(r) /\ UNCHANGED askVars
  <1>1. ASSUME NEW a \in Admin, AdminStep(a), UNCHANGED askVars PROVE FALSE
    <2>1. UNCHANGED everDone
      BY <1>1 DEF askVars
    <2> QED BY <1>1, <2>1, AdminTree DEF TreeInv
  <1>2. ASSUME NEW q \in Ask, AskStep(q) PROVE FALSE
    <2>1. UNCHANGED treeVars
      BY <1>2, AskTree DEF TreeInv
    <2> QED BY <2>1 DEF treeVars
  <1>3. ASSUME NEW q \in Run, RunStep(q) PROVE q = r
    BY <1>3, OneRun DEF TreeInv
  <1> QED BY <1>1, <1>2, <1>3 DEF CatalogueNext, ContentNext

(* What hangs below a row of a section's content: nothing. *)
LEMMA ClearDrops ==
  ASSUME Rooted, Hung, NEW S \in SUBSET Ids, Drop(S),
         \A x \in rows : x.id \in S => x.kind \in Leaf
  PROVE  log' = log /\ prefs' = prefs
  <1>1. \A x \in rows : x.up \notin S
    <2> SUFFICES ASSUME NEW x \in rows, x.up \in S PROVE FALSE
      OBVIOUS
    <2>1. PICK y \in rows : y.id = x.up
      BY DEF Ids
    <2> QED BY <2>1, ParentOf DEF Branch, Leaf
  <1>2. Below(S) = S
    BY <1>1 DEF Below
  <1>3. log' = {l \in log : l.section \notin S} /\ prefs' = prefs \ S
    BY <1>2 DEF Drop
  <1>4. \A l \in log : l.section \notin S
    BY DEF Hung, There, Leaf
  <1>5. \A i \in prefs : i \notin S
    BY DEF Hung, There, Leaf
  <1> QED BY <1>3, <1>4, <1>5

LEMMA SafeStep ==
  ASSUME TreeInv, CatalogueNext, NEW r \in Run, run'[r] # run[r]
  PROVE  /\ log \subseteq log' /\ prefs \subseteq prefs'
         /\ Careful(run[r]) =>
               rows \subseteq rows' /\ scraps \subseteq scraps' /\ stats \subseteq stats'
  <1>1. RunStep(r)
    BY MovedRun
  <1>2. CASE ClearKind(r)
    <2>1. PICK o : o = run[r] /\ o \in RunRecord /\ RunFits(o)
      BY DEF TreeInv, Runs
    <2>2. o.clear # <<>> /\ ~ Careful(o)
      BY <1>2, <2>1 DEF ClearKind, RunFits
    <2>3. PICK kind \in Leaf : kind = Head(o.clear)
      <3>1. o.clear \in Seq(Leaf)
        BY <2>1 DEF RunRecord
      <3> QED BY <2>2, <3>1
    <2>4. PICK S : S = {x.id : x \in Of(Here(o), kind)}
      OBVIOUS
    <2>5. S \in SUBSET Ids /\ Drop(S)
      BY <1>2, <2>1, <2>3, <2>4 DEF ClearKind, Ids, Of, Kids
    <2>6. \A x \in rows : x.id \in S => x.kind \in Leaf
      BY <2>3, <2>4 DEF Of, Kids, TreeInv, Rooted
    <2>7. log' = log /\ prefs' = prefs
      BY <2>5, <2>6, ClearDrops DEF TreeInv
    <2> QED BY <2>1, <2>2, <2>7
  <1>3. CASE ~ ClearKind(r)
    <2>1. UNCHANGED userVars
      BY <1>1, <1>3 DEF RunStep, StartRun, FindRow, UpdateRow, CreateRow, CountContent,
                        WriteKind, KillRun, Add
    <2>2. rows \subseteq rows'
      BY <1>1, <1>3 DEF RunStep, StartRun, FindRow, UpdateRow, CreateRow, CountContent,
                        WriteKind, KillRun, Add
    <2> QED BY <2>1, <2>2 DEF userVars
  <1> QED BY <1>2, <1>3

(* No step of a script in a mode without --force (notion-sync: with --safe)
   deletes a row, and no step of any script in any mode deletes a learner's
   progress or preferences. *)
THEOREM SafeModesKeepRowsHolds == CatalogueSpec => SafeModesKeepRows
  <1> DEFINE A == \A r \in Run :
                    (run'[r] # run[r]) =>
                      /\ log \subseteq log' /\ prefs \subseteq prefs'
                      /\ (\/ run[r].script # "notion" /\ run[r].mode # "force"
                          \/ run[r].script = "notion" /\ run[r].mode = "safe") =>
                            /\ rows \subseteq rows'
                            /\ scraps \subseteq scraps'
                            /\ stats \subseteq stats'
  <1>1. ASSUME TreeInv, CatalogueNext PROVE A
    BY <1>1, SafeStep DEF Careful
  <1>2. TreeInv /\ [CatalogueNext]_catalogueVars => [A]_contentVars
    BY <1>1 DEF catalogueVars
  <1>3. SafeModesKeepRows <=> [][A]_contentVars
    BY DEF SafeModesKeepRows
  <1> HIDE DEF A
  <1> QED BY <1>2, <1>3, TreeInvHolds, PTL DEF CatalogueSpec

-----------------------------------------------------------------------------
(* A run that is alone and found no row for a place: there still is none when
   it creates one. *)
Lonely == \A r \in Run \cap alone :
             (run[r].pc = "save" /\ run[r].hit = NoId) => Matches(run[r]) = {}

LEMMA GoesOn ==
  ASSUME NEW t, "pc" \in DOMAIN t, NEW V
  PROVE  Visit(t, V).pc # "save" /\ Onward(t).pc # "save"
  <1>1. \A W : Visit(t, W).pc # "save"
    BY DEF Visit
  <1> QED BY <1>1 DEF Onward

LEMMA SavesAfterFind ==
  ASSUME Runs, NEW r \in Run, RunStep(r), run'[r].pc = "save"
  PROVE  FindRow(r)
  <1>1. PICK o : o = run[r] /\ o \in RunRecord /\ "pc" \in DOMAIN o
    BY DEF Runs, RunRecord
  <1>2. ASSUME NEW t, Goes(r, t) PROVE run'[r] = t
    BY <1>2 DEF Goes, Runs
  <1>3. CASE StartRun(r)
    <2>1. PICK t, V : "pc" \in DOMAIN t /\ Goes(r, Visit(t, V))
      <3>1. PICK l \in Launches, filter \in Filter :
              LET V == Visits(l[1], filter)
              IN  Goes(r, Visit([IdleRun EXCEPT !.script = l[1], !.mode = l[2], !.visits = V], V))
        BY <1>3 DEF StartRun
      <3>2. PICK V : V = Visits(l[1], filter)
        OBVIOUS
      <3>3. PICK t : t = [IdleRun EXCEPT !.script = l[1], !.mode = l[2], !.visits = V]
        OBVIOUS
      <3>4. "pc" \in DOMAIN t
        <4>1. DOMAIN t = DOMAIN IdleRun
          BY <3>3
        <4>2. "pc" \in DOMAIN IdleRun
          BY DEF IdleRun
        <4> QED BY <4>1, <4>2
      <3> QED BY <3>1, <3>2, <3>3, <3>4
    <2> QED BY <1>2, <2>1, GoesOn
  <1>4. ASSUME Fails(r) PROVE FALSE
    <2>1. PICK t : t = [IdleRun EXCEPT !.pc = "ended"]
      OBVIOUS
    <2>2. t.pc = "ended"
      BY <2>1, EndedFits, IdleRunFits DEF RunRecord
    <2> QED BY <1>2, <1>4, <2>1, <2>2 DEF Fails
  <1>5. ASSUME NEW i, Goes(r, Settled(o, i)) PROVE FALSE
    <2>1. PICK h : h = [o EXCEPT !.path = [@ EXCEPT ![Level(o) + 1] = i], !.hit = NoId]
      OBVIOUS
    <2>2. "pc" \in DOMAIN h
      BY <1>1, <2>1
    <2>3. Settled(o, i) = IF Level(o) = 3 THEN [h EXCEPT !.pc = "count"] ELSE Onward(h)
      BY <2>1 DEF Settled
    <2>4. [h EXCEPT !.pc = "count"].pc # "save"
      BY <2>2
    <2>5. Settled(o, i).pc # "save"
      BY <2>2, <2>3, <2>4, GoesOn
    <2> QED BY <1>2, <1>5, <2>5
  <1>6. ASSUME NEW t, "pc" \in DOMAIN t, Goes(r, Onward(t)) PROVE FALSE
    BY <1>2, <1>6, GoesOn
  <1>7. CASE UpdateRow(r) \/ CreateRow(r)
    BY <1>1, <1>4, <1>5, <1>7 DEF UpdateRow, CreateRow
  <1>8. CASE CountContent(r)
    <2>1. PICK plan : Goes(r, Onward([o EXCEPT !.clear = plan.clear, !.write = plan.write]))
      BY <1>1, <1>8 DEF CountContent
    <2>2. PICK t : t = [o EXCEPT !.clear = plan.clear, !.write = plan.write]
      OBVIOUS
    <2>3. "pc" \in DOMAIN t
      BY <1>1, <2>2
    <2> QED BY <1>6, <2>1, <2>2, <2>3
  <1>9. CASE ClearKind(r)
    <2>1. PICK t : t = [o EXCEPT !.clear = Tail(@)]
      OBVIOUS
    <2>2. "pc" \in DOMAIN t
      BY <1>1, <2>1
    <2> QED BY <1>1, <1>6, <1>9, <2>1, <2>2 DEF ClearKind
  <1>10. CASE WriteKind(r)
    <2>1. PICK t : t = [o EXCEPT !.write = Tail(@)]
      OBVIOUS
    <2>2. "pc" \in DOMAIN t
      BY <1>1, <2>1
    <2>3. Fails(r) \/ Goes(r, Onward(t))
      BY <1>1, <1>10, <2>1 DEF WriteKind
    <2> QED BY <1>4, <1>6, <2>2, <2>3
  <1>11. CASE KillRun(r)
    BY <1>4, <1>11 DEF KillRun
  <1> QED BY <1>3, <1>7, <1>8, <1>9, <1>10, <1>11 DEF RunStep

LEMMA RunApart ==
  ASSUME NEW r \in Run, RunStep(r)
  PROVE  (UNCHANGED rows /\ alone' \subseteq alone \cup {r}) \/ Disturb(r)
  BY DEF RunStep, StartRun, FindRow, UpdateRow, CreateRow, CountContent, ClearKind,
         WriteKind, KillRun

LEMMA SameMatches ==
  ASSUME NEW t, NEW u, UNCHANGED rows, u.path = t.path, u.at = t.at
  PROVE  Matches(u)' = Matches(t)
  BY DEF Matches, Of, Kids, Parent, Level, Entry

(* Whoever is alone after a step not its own was not touched by it. *)
LEMMA Undisturbed ==
  ASSUME TreeInv, [CatalogueNext]_catalogueVars, NEW q \in Run, q \in alone', ~ RunStep(q)
  PROVE  run'[q] = run[q] /\ q \in alone /\ UNCHANGED rows
  <1>1. run'[q] = run[q]
    BY MovedRun DEF catalogueVars, contentVars
  <1>2. ASSUME NEW r \in Run, RunStep(r) PROVE q \in alone /\ UNCHANGED rows
    <2>1. q # r
      BY <1>2
    <2> QED BY <1>2, <2>1, RunApart DEF Disturb
  <1>3. ASSUME NEW a \in Admin, AdminStep(a), UNCHANGED askVars
        PROVE  q \in alone /\ UNCHANGED rows
    <2>1. UNCHANGED everDone
      BY <1>3 DEF askVars
    <2>2. UNCHANGED <<rows, alone>> \/ Disturb(a)
      BY <1>3, <2>1, AdminTree DEF TreeInv
    <2>3. q # a
      BY ContentAssumption
    <2> QED BY <2>2, <2>3 DEF Disturb
  <1>4. ASSUME NEW k \in Ask, AskStep(k) PROVE q \in alone /\ UNCHANGED rows
    BY <1>4, AskTree DEF TreeInv, treeVars
  <1>5. UNCHANGED catalogueVars => q \in alone /\ UNCHANGED rows
    BY DEF catalogueVars, contentVars
  <1> QED BY <1>1, <1>2, <1>3, <1>4, <1>5 DEF CatalogueNext, ContentNext

LEMMA LonelyStep ==
  ASSUME TreeInv, Lonely, [CatalogueNext]_catalogueVars
  PROVE  Lonely'
  <1> SUFFICES ASSUME NEW q \in Run, q \in alone', run'[q].pc = "save", run'[q].hit = NoId
               PROVE  Matches(run[q])' = {}
    BY DEF Lonely
  <1>1. PICK o, u : o = run[q] /\ u = run'[q]
    OBVIOUS
  <1>2. o \in RunRecord /\ u.pc = "save" /\ u.hit = NoId
    BY <1>1 DEF TreeInv, Runs
  <1>3. SUFFICES Matches(u)' = {}
    BY <1>1 DEF Matches, Of, Kids, Parent, Level, Entry
  <1>4. CASE RunStep(q)
    <2>1. FindRow(q)
      BY <1>1, <1>2, <1>4, SavesAfterFind DEF TreeInv
    <2>2. PICK found, i : /\ found = {x.id : x \in Matches(o)}
                          /\ i \in IF found = {} THEN {NoId} ELSE found
                          /\ run' = [run EXCEPT ![q] = [o EXCEPT !.pc = "save", !.hit = i]]
      BY <1>1, <2>1 DEF FindRow, Goes
    <2>3. u = [o EXCEPT !.pc = "save", !.hit = i]
      BY <1>1, <2>2 DEF TreeInv, Runs
    <2>4. u.hit = i /\ u.path = o.path /\ u.at = o.at
      BY <1>2, <2>3 DEF RunRecord
    <2>5. \A x \in Matches(o) : x.id # NoId
      BY NodeType, Bounds DEF TreeInv, Matches, Of, Kids
    <2>6. Matches(o) = {}
      BY <1>2, <2>2, <2>4, <2>5
    <2>7. UNCHANGED rows
      BY <2>1 DEF FindRow
    <2> QED BY <2>4, <2>6, <2>7, SameMatches
  <1>5. CASE ~ RunStep(q)
    <2>1. u = o
      BY <1>1, <1>5, Undisturbed
    <2>2. q \in alone /\ UNCHANGED rows
      BY <1>5, Undisturbed
    <2>3. Matches(o) = {}
      BY <1>1, <1>2, <2>1, <2>2 DEF Lonely
    <2> QED BY <2>1, <2>2, <2>3, SameMatches
  <1> QED BY <1>4, <1>5

LEMMA NoTwinStep ==
  ASSUME TreeInv, Lonely, CatalogueNext, NEW r \in Run \cap alone, run'[r] # run[r],
         NEW x \in rows' \ rows, x.kind \in Branch
  PROVE  ~ \E y \in rows : y.kind = x.kind /\ y.up = x.up /\ y.num = x.num
  <1>1. RunStep(r)
    BY MovedRun
  <1>2. PICK o : o = run[r] /\ o \in RunRecord /\ RunFits(o)
    BY DEF TreeInv, Runs
  <1>3. CASE CreateRow(r)
    <2>1. /\ o.pc = "save" /\ o.hit = NoId
          /\ rows' = rows \cup {[id |-> next, kind |-> Tree[Level(o)], up |-> Parent(o),
                                 num |-> Last(Entry(o).path)]}
      BY <1>2, <1>3 DEF CreateRow, Add
    <2>2. x.kind = Tree[Level(o)] /\ x.up = Parent(o) /\ x.num = Last(Entry(o).path)
      BY <2>1
    <2>3. Matches(o) = {}
      BY <1>2, <2>1 DEF Lonely
    <2> QED BY <2>2, <2>3 DEF Matches, Of, Kids
  <1>4. CASE WriteKind(r)
    <2>1. o.pc = "fill" /\ o.clear = <<>> /\ o.write # <<>> /\ o.write \in Seq(Leaf)
      BY <1>2, <1>4 DEF WriteKind, RunFits, RunRecord
    <2>2. Head(o.write) \in Leaf
      BY <2>1
    <2>3. x.kind = Head(o.write)
      BY <1>2, <1>4 DEF WriteKind, Add
    <2> QED BY <2>2, <2>3 DEF Branch, Leaf
  <1>5. CASE ~ (CreateRow(r) \/ WriteKind(r))
    <2>1. rows' \subseteq rows
      BY <1>1, <1>5 DEF RunStep, StartRun, FindRow, UpdateRow, CountContent, ClearKind,
                        KillRun, Drop
    <2> QED BY <2>1
  <1> QED BY <1>3, <1>4, <1>5

(* A script run during which no one else writes to the tree never creates a
   second course, lesson or section for the same place. *)
THEOREM NoTwinsWhenAloneHolds == CatalogueSpec => NoTwinsWhenAlone
  <1> DEFINE A == \A r \in Run \cap alone, x \in rows' \ rows :
                    (run'[r] # run[r] /\ x.kind \in Range(Tree)) =>
                      ~\E y \in rows : y.kind = x.kind /\ y.up = x.up /\ y.num = x.num
  <1>1. Range(Tree) = Branch
    BY DEF Tree, Range, Branch
  <1>2. ASSUME TreeInv, Lonely, CatalogueNext PROVE A
    BY <1>1, <1>2, NoTwinStep
  <1>3. TreeInv /\ Lonely /\ [CatalogueNext]_catalogueVars => [A]_contentVars
    BY <1>2 DEF catalogueVars
  <1>4. NoTwinsWhenAlone <=> [][A]_contentVars
    BY DEF NoTwinsWhenAlone
  <1>5. CatalogueInit => Lonely
    BY DEF CatalogueInit, ContentInit, Lonely
  <1>6. TreeInv /\ Lonely /\ [CatalogueNext]_catalogueVars => Lonely'
    BY LonelyStep
  <1> HIDE DEF A
  <1> QED BY <1>3, <1>4, <1>5, <1>6, TreeInvHolds, PTL DEF CatalogueSpec

-----------------------------------------------------------------------------
(* What a finished run has done.  Everything below is said of a set R of rows,
   since a step is followed from the rows before it to the rows after it.  *)
Path(v) == File[v[2]].path

(* Visit u is the one whose row is the parent, at level n, of what w visits:
   nothing visited in between is at that level or above it. *)
Leads(V, u, w, n) ==
    /\ n < Len(Path(w)) /\ u \in V /\ Above(u[2], w[2], n) /\ Before(u, w)
    /\ \A k \in V : Before(u, k) /\ Before(k, w) => Len(Path(k)) > n

LEMMA Orders ==
  /\ \A u \in Nat \X Nat : ~ Before(u, u)
  /\ \A u, v \in Nat \X Nat : Before(u, v) \/ Before(v, u) \/ u = v
  /\ \A u, v, w \in Nat \X Nat : Before(u, v) /\ Before(v, w) => Before(u, w)
  <1>1. ASSUME NEW u \in Nat \X Nat, NEW v \in Nat \X Nat, u[1] = v[1], u[2] = v[2] PROVE u = v
    BY <1>1
  <1> QED BY <1>1 DEF Before

LEMMA AppendKeeps ==
  ASSUME NEW l \in Seq(Nat), NEW e \in Nat
  PROVE  Len(Append(l, e)) = Len(l) + 1 /\ \A m \in 1..Len(l) : Append(l, e)[m] = l[m]
  BY AppendProperties

(* What notion-sync.ts takes with a lesson: its course, it, and one section. *)
LEMMA GroupPath ==
  ASSUME NEW l \in Seq(Nat), Len(l) = 2, NEW a \in Seq(Nat),
         a = <<l[1]>> \/ a = l \/ a = Append(l, 1)
  PROVE  /\ a[1] = l[1] /\ (Len(a) >= 2 => a[2] = l[2])
         /\ Len(a) = 3 => a = Append(l, 1)
  <1>1. PICK b : b = Append(l, 1)
    OBVIOUS
  <1>2. Len(b) = Len(l) + 1 /\ \A m \in 1..Len(l) : b[m] = l[m]
    <2>1. PICK e \in Nat : e = 1
      OBVIOUS
    <2>2. Len(Append(l, e)) = Len(l) + 1
      BY AppendKeeps
    <2>3. \A m \in 1..Len(l) : Append(l, e)[m] = l[m]
      BY AppendKeeps
    <2> QED BY <1>1, <2>1, <2>2, <2>3
  <1>3. Len(b) = 3 /\ b[1] = l[1] /\ b[2] = l[2]
    <2>1. 1 \in 1..Len(l) /\ 2 \in 1..Len(l) /\ Len(l) + 1 = 3
      OBVIOUS
    <2> QED BY <1>2, <2>1
  <1>4. CASE a = <<l[1]>>
    <2>1. Len(a) = 1 /\ a[1] = l[1]
      BY <1>4
    <2> QED BY <2>1
  <1>5. CASE a = l
    BY <1>5
  <1>6. CASE a = b
    BY <1>1, <1>3, <1>6
  <1> QED BY <1>1, <1>4, <1>5, <1>6

LEMMA VisitsLed ==
  ASSUME NEW script \in {"seed", "courses", "notion"}, NEW filter, NEW V,
         V = Visits(script, filter), NEW w \in V, NEW n \in 1..2, n < Len(Path(w))
  PROVE  \E u : Leads(V, u, w, n)
  <1>1. V \in SUBSET (Nat \X DOMAIN File)
    BY VisitsType
  <1>2. PICK g, j : w = <<g, j>> /\ g \in Nat /\ j \in DOMAIN File
    BY <1>1
  <1>3. /\ DOMAIN File \subseteq Nat /\ Path(w) = File[j].path
        /\ File[j].path \in Seq(Nat) /\ Len(File[j].path) \in 1..3
    BY <1>2, FileAssumption DEF Path
  <1>4. PICK i \in DOMAIN File :
          /\ i < j /\ Above(i, j, n)
          /\ \A k \in (DOMAIN File) \cap ((i + 1)..(j - 1)) : Len(File[k].path) > n
    <2>1. n \in 1..(Len(File[j].path) - 1)
      BY <1>3
    <2> QED BY <2>1, <1>2, FileAssumption
  <1>5. /\ i \in Nat /\ j \in Nat /\ File[i].path \in Seq(Nat) /\ Len(File[i].path) = n
        /\ \A m \in 1..n : File[i].path[m] = File[j].path[m]
    BY <1>2, <1>3, <1>4, FileAssumption DEF Above
  <1>6. <<g, i>> \in V
    <2>1. CASE script = "seed"
      BY <1>2, <2>1 DEF Visits, SeedVisits
    <2>2. CASE script = "courses"
      <3>1. V = CoursesVisits(filter[1], filter[2])
        BY <2>2 DEF Visits
      <3>2. /\ g = 0 /\ filter[1] \in {0, File[j].path[1]}
            /\ Len(File[j].path) = 1 \/ filter[2] \in {0, File[j].path[2]}
        BY <1>2, <3>1 DEF CoursesVisits
      <3>3. filter[1] \in {0, File[i].path[1]}
        BY <1>5, <3>2
      <3>4. Len(File[i].path) = 1 \/ filter[2] \in {0, File[i].path[2]}
        <4>1. CASE n = 1
          BY <1>5, <4>1
        <4>2. CASE n = 2
          <5>1. Len(File[j].path) # 1
            <6>1. n < Len(File[j].path)
              BY <1>3
            <6> QED BY <4>2, <6>1
          <5>2. 2 \in 1..n /\ File[i].path[2] = File[j].path[2]
            BY <1>5, <4>2
          <5> QED BY <3>2, <5>1, <5>2
        <4> QED BY <4>1, <4>2
      <3> DEFINE S == {x \in DOMAIN File : LET path == File[x].path IN
                          /\ filter[1] \in {0, path[1]}
                          /\ Len(path) = 1 \/ filter[2] \in {0, path[2]}}
      <3>5. V = {0} \X S
        BY <3>1 DEF CoursesVisits
      <3>6. i \in S
        BY <3>3, <3>4
      <3> HIDE DEF S
      <3> QED BY <3>2, <3>5, <3>6
    <2>3. CASE script = "notion"
      <3>1. V = NotionVisits
        BY <2>3 DEF Visits
      <3>2. /\ g \in DOMAIN File /\ Len(File[g].path) = 2 /\ File[g].written
            /\ \/ File[j].path \in {<<File[g].path[1]>>, File[g].path}
               \/ File[j].path = Append(File[g].path, 1)
        BY <1>2, <3>1 DEF NotionVisits
      <3>3. File[g].path \in Seq(Nat)
        BY <3>2, FileAssumption
      <3>4. File[j].path[1] = File[g].path[1] /\ (n = 2 => File[j].path[2] = File[g].path[2])
        <4>1. n = 2 => Len(File[j].path) >= 2
          BY <1>3
        <4> QED BY <1>3, <3>2, <3>3, <4>1, GroupPath
      <3>5. File[i].path \in {<<File[g].path[1]>>, File[g].path}
        <4>1. CASE n = 1
          BY <1>5, <3>4, <4>1
        <4>2. CASE n = 2
          <5>1. Len(File[i].path) = Len(File[g].path)
            BY <1>5, <3>2, <4>2
          <5>2. \A m \in 1..2 : File[i].path[m] = File[g].path[m]
            BY <1>5, <3>4, <4>2
          <5>3. File[i].path = File[g].path
            BY <1>5, <3>2, <3>3, <4>2, <5>1, <5>2, SeqEqual
          <5> QED BY <5>3
        <4> QED BY <4>1, <4>2
      <3> QED BY <3>1, <3>2, <3>5 DEF NotionVisits
    <2> QED BY <2>1, <2>2, <2>3
  <1>7. ASSUME NEW k \in V, Before(<<g, i>>, k), Before(k, w) PROVE Len(Path(k)) > n
    <2>1. PICK h, m : k = <<h, m>> /\ h \in Nat /\ m \in DOMAIN File
      BY <1>1
    <2>2. h = g /\ i < m /\ m < j /\ m \in Nat
      BY <1>2, <1>3, <1>5, <1>7, <2>1 DEF Before
    <2>3. m \in (DOMAIN File) \cap ((i + 1)..(j - 1))
      BY <1>5, <2>1, <2>2
    <2> QED BY <1>4, <2>1, <2>3 DEF Path
  <1>8. Leads(V, <<g, i>>, w, n)
    BY <1>2, <1>4, <1>6, <1>7 DEF Leads, Before
  <1> QED BY <1>8

LEMMA SectionOnce ==
  ASSUME NEW script \in {"seed", "courses", "notion"}, NEW filter, NEW V,
         V = Visits(script, filter), NEW v \in V, NEW w \in V, Len(Path(v)) = 3,
         Path(v) = Path(w)
  PROVE  v = w
  <1>1. V \in SUBSET (Nat \X DOMAIN File)
    BY VisitsType
  <1>2. PICK g, i : v = <<g, i>> /\ g \in Nat /\ i \in DOMAIN File
    BY <1>1
  <1>3. PICK h, j : w = <<h, j>> /\ h \in Nat /\ j \in DOMAIN File
    BY <1>1
  <1>4. i = j /\ Len(File[i].path) = 3
    BY <1>2, <1>3, FileAssumption DEF Path
  <1>5. CASE script \in {"seed", "courses"}
    <2>1. g = 0 /\ h = 0
      BY <1>2, <1>3, <1>5 DEF Visits, SeedVisits, CoursesVisits
    <2> QED BY <1>2, <1>3, <1>4, <2>1
  <1>6. CASE script = "notion"
    <2>1. \A x \in {g, h} : /\ x \in DOMAIN File /\ Len(File[x].path) = 2
                            /\ File[x].path \in Seq(Nat)
      BY <1>2, <1>3, <1>6, FileAssumption DEF Visits, NotionVisits
    <2>2. \A x \in {g, h} : \/ File[i].path \in {<<File[x].path[1]>>, File[x].path}
                            \/ File[i].path = Append(File[x].path, 1)
      BY <1>2, <1>3, <1>4, <1>6 DEF Visits, NotionVisits
    <2>3. \A x \in {g, h} : File[i].path = Append(File[x].path, 1)
      <3>1. File[i].path \in Seq(Nat)
        BY <1>2, FileAssumption
      <3> QED BY <1>4, <2>1, <2>2, <3>1, GroupPath
    <2>4. \A m \in 1..2 : File[g].path[m] = File[i].path[m] /\ File[h].path[m] = File[i].path[m]
      <3>1. 1 \in Nat
        OBVIOUS
      <3>2. \A x \in {g, h} : \A m \in 1..2 : Append(File[x].path, 1)[m] = File[x].path[m]
        BY <2>1, <3>1, AppendProperties
      <3> QED BY <2>3, <3>2
    <2>5. File[g].path = File[h].path
      <3>1. /\ File[g].path \in Seq(Nat) /\ File[h].path \in Seq(Nat)
            /\ Len(File[g].path) = 2 /\ Len(File[h].path) = 2
        BY <2>1
      <3>2. \A m \in 1..2 : File[g].path[m] = File[h].path[m]
        BY <2>4
      <3> QED BY <3>1, <3>2, SeqEqual
    <2> QED BY <1>2, <1>3, <1>4, <2>1, <2>5, FileAssumption
  <1> QED BY <1>5, <1>6

LEMMA WantedType ==
  ASSUME NEW script \in {"seed", "courses", "notion"}, NEW i \in DOMAIN File
  PROVE  Wanted(script, File[i]) \subseteq Leaf
  BY FileAssumption DEF Wanted, SectionQuestions, Leaf

-----------------------------------------------------------------------------
(* What is left of clear (the kinds c) and of write (the kinds w) makes section
   i hold what the mode promises of the kinds W.  With nothing left, it does. *)
KidsIn(R, i, k) == {x \in R : x.up = i /\ x.kind = k}
Exactly(R, i, k, W) == IF k \in W THEN \E x : KidsIn(R, i, k) = {x} ELSE KidsIn(R, i, k) = {}
Replaces(t) == t.mode = "force" \/ (t.script = "notion" /\ t.mode = "default")
Scope(t) == IF t.mode = "force" THEN Leaf ELSE {"card"}

Due(R, t, W, i, c, w) ==
    /\ t.mode = "missing" => \A k \in W : k \in w \/ KidsIn(R, i, k) # {}
    /\ Replaces(t) => /\ \A k \in Scope(t) : k \in c \/ Exactly(R, i, k, W \ w)
                      /\ w \subseteq W
                      /\ c # {} => W \cap Scope(t) \subseteq w
    /\ (t.mode # "missing" /\ ~ Replaces(t)) => w # {} \/ W = {} \/ \E x \in R : x.up = i

Distinct(s) == \A m, n \in DOMAIN s : s[m] = s[n] => m = n

LEMMA HeadTail ==
  ASSUME NEW s \in Seq(Leaf), s # <<>>, Distinct(s)
  PROVE  /\ Head(s) \in Range(s) /\ Range(Tail(s)) = Range(s) \ {Head(s)}
         /\ Distinct(Tail(s)) /\ Tail(s) \in Seq(Leaf) /\ Head(s) \in Leaf
  <1>1. /\ Len(s) \in Nat /\ Len(s) >= 1 /\ DOMAIN s = 1..Len(s) /\ Head(s) = s[1]
        /\ Tail(s) \in Seq(Leaf) /\ DOMAIN Tail(s) = 1..(Len(s) - 1)
        /\ \A m \in 1..(Len(s) - 1) : Tail(s)[m] = s[m + 1]
    OBVIOUS
  <1>2. Distinct(Tail(s))
    BY <1>1 DEF Distinct
  <1>3. Head(s) \in Range(s) /\ Head(s) \in Leaf
    BY <1>1 DEF Range
  <1>4. ASSUME NEW k \in Range(Tail(s)) PROVE k \in Range(s) \ {Head(s)}
    <2>1. PICK m \in 1..(Len(s) - 1) : k = s[m + 1]
      BY <1>1, <1>4 DEF Range
    <2> QED BY <1>1, <2>1 DEF Range, Distinct
  <1>5. ASSUME NEW k \in Range(s), k # Head(s) PROVE k \in Range(Tail(s))
    <2>1. PICK m \in 1..Len(s) : k = s[m] /\ m # 1
      BY <1>1, <1>5 DEF Range
    <2>2. m - 1 \in 1..(Len(s) - 1) /\ Tail(s)[m - 1] = k
      BY <1>1, <2>1
    <2> QED BY <1>1, <2>2 DEF Range
  <1> QED BY <1>1, <1>2, <1>3, <1>4, <1>5

LEMMA ConcatRange ==
  ASSUME NEW a \in Seq(Leaf), NEW b \in Seq(Leaf), Distinct(a), Distinct(b),
         Range(a) \cap Range(b) = {}
  PROVE  a \o b \in Seq(Leaf) /\ Distinct(a \o b) /\ Range(a \o b) = Range(a) \cup Range(b)
  <1>1. PICK d : d = a \o b
    OBVIOUS
  <1>2. /\ d \in Seq(Leaf) /\ Len(a) \in Nat /\ Len(b) \in Nat /\ Len(d) = Len(a) + Len(b)
        /\ \A m \in 1..(Len(a) + Len(b)) : d[m] = IF m <= Len(a) THEN a[m] ELSE b[m - Len(a)]
        /\ DOMAIN a = 1..Len(a) /\ DOMAIN b = 1..Len(b) /\ DOMAIN d = 1..Len(d)
    BY <1>1, ConcatProperties
  <1>3. \A m \in 1..Len(d) : \/ m \in 1..Len(a) /\ d[m] = a[m]
                             \/ m - Len(a) \in 1..Len(b) /\ d[m] = b[m - Len(a)]
    BY <1>2
  <1>4. \A m \in 1..Len(a), n \in 1..Len(b) : a[m] # b[n]
    BY <1>2 DEF Range
  <1>5. Distinct(d)
    <2> SUFFICES ASSUME NEW m \in 1..Len(d), NEW n \in 1..Len(d), d[m] = d[n] PROVE m = n
      BY <1>2 DEF Distinct
    <2>1. CASE m \in 1..Len(a) /\ d[m] = a[m] /\ n \in 1..Len(a) /\ d[n] = a[n]
      BY <1>2, <2>1 DEF Distinct
    <2>2. CASE /\ m - Len(a) \in 1..Len(b) /\ d[m] = b[m - Len(a)]
               /\ n - Len(a) \in 1..Len(b) /\ d[n] = b[n - Len(a)]
      <3>1. m - Len(a) = n - Len(a)
        BY <1>2, <2>2 DEF Distinct
      <3> QED BY <1>2, <3>1
    <2> QED BY <1>3, <1>4, <2>1, <2>2
  <1>6. ASSUME NEW k \in Range(d) PROVE k \in Range(a) \cup Range(b)
    <2>1. PICK m \in 1..Len(d) : k = d[m]
      BY <1>2, <1>6 DEF Range
    <2> QED BY <1>2, <1>3, <2>1 DEF Range
  <1>7. ASSUME NEW k \in Range(a) PROVE k \in Range(d)
    <2>1. PICK m \in 1..Len(a) : k = a[m]
      BY <1>2, <1>7 DEF Range
    <2>2. m \in 1..Len(d) /\ d[m] = k
      BY <1>2, <2>1
    <2> QED BY <1>2, <2>2 DEF Range
  <1>8. ASSUME NEW k \in Range(b) PROVE k \in Range(d)
    <2>1. PICK m \in 1..Len(b) : k = b[m]
      BY <1>2, <1>8 DEF Range
    <2>2. m + Len(a) \in 1..Len(d) /\ d[m + Len(a)] = k
      BY <1>2, <2>1
    <2> QED BY <1>2, <2>2 DEF Range
  <1> QED BY <1>1, <1>2, <1>5, <1>6, <1>7, <1>8

LEMMA KindsRange == Distinct(Kinds) /\ Range(Kinds) = Leaf /\ Distinct(<<>>) /\ Range(<<>>) = {}
  BY DEF Distinct, Kinds, Range, Leaf

LEMMA InOrderRange ==
  ASSUME NEW S \in SUBSET Leaf
  PROVE  Distinct(InOrder(S)) /\ Range(InOrder(S)) = S
  <1> DEFINE Just(k) == IF k \in S THEN <<k>> ELSE <<>>
  <1>1. InOrder(S) = Just("card") \o Just("material") \o Just("question")
    BY DEF InOrder
  <1>2. ASSUME NEW k \in Leaf
        PROVE  Just(k) \in Seq(Leaf) /\ Distinct(Just(k)) /\ Range(Just(k)) = S \cap {k}
    <2>1. <<k>> \in Seq(Leaf) /\ Distinct(<<k>>) /\ Range(<<k>>) = {k}
      BY DEF Distinct, Range
    <2> QED BY <2>1, KindsRange
  <1> HIDE DEF Just
  <1>3. "card" \in Leaf /\ "material" \in Leaf /\ "question" \in Leaf
    BY DEF Leaf
  <1>4. PICK a : a = Just("card") \o Just("material")
    OBVIOUS
  <1>5. a \in Seq(Leaf) /\ Distinct(a) /\ Range(a) = S \cap {"card", "material"}
    <2>1. Range(Just("card")) \cap Range(Just("material")) = {}
      BY <1>2, <1>3
    <2> QED BY <1>2, <1>3, <1>4, <2>1, ConcatRange
  <1>6. Range(a) \cap Range(Just("question")) = {}
    BY <1>2, <1>3, <1>5
  <1>7. /\ Distinct(a \o Just("question"))
        /\ Range(a \o Just("question")) = S \cap {"card", "material", "question"}
    BY <1>2, <1>3, <1>5, <1>6, ConcatRange
  <1> QED BY <1>1, <1>4, <1>7 DEF Leaf

Decided(R, t, W, i, plan) ==
    /\ Due(R, t, W, i, Range(plan.clear), Range(plan.write))
    /\ Distinct(plan.clear) /\ Distinct(plan.write)

(* Each script decides, after its counts, on what makes the section right. *)
LEMMA PlanDue ==
  ASSUME NEW R, NEW i, NEW t, <<t.script, t.mode>> \in Modes, NEW W \in SUBSET Leaf,
         t.script = "notion" => W = {"card"},
         NEW had \in SUBSET Leaf, \A k : k \in had <=> \E x \in R : x.up = i /\ x.kind = k,
         NEW plan, plan = Plan(t, had, W)
  PROVE  Decided(R, t, W, i, plan)
  <1> SUFFICES /\ Due(R, t, W, i, Range(plan.clear), Range(plan.write))
               /\ Distinct(plan.clear) /\ Distinct(plan.write)
    BY DEF Decided
  <1>1. /\ \A k : k \in had <=> KidsIn(R, i, k) # {}
        /\ had # {} <=> \E x \in R : x.up = i
    BY DEF KidsIn
  <1>2. /\ t.script \in {"seed", "courses", "notion"}
        /\ t.mode \in {"default", "missing", "force", "safe"}
    BY DEF Modes
  <1>3. CASE t.script = "seed"
    <2>1. plan = SeedPlan(had, W, t.mode)
      BY <1>3 DEF Plan
    <2>2. t.mode \in {"default", "force"}
      BY <1>3 DEF Modes
    <2>3. CASE had # {} /\ t.mode # "force"
      <3>1. plan.clear = <<>> /\ plan.write = <<>>
        BY <2>1, <2>3 DEF SeedPlan, Nothing
      <3> QED BY <1>1, <1>3, <2>2, <2>3, <3>1, KindsRange DEF Due, Replaces
    <2>4. CASE had # {} /\ t.mode = "force"
      <3>1. plan.clear = Kinds /\ plan.write = InOrder(W)
        BY <2>1, <2>4 DEF SeedPlan
      <3> QED BY <2>4, <3>1, KindsRange, InOrderRange DEF Due, Replaces, Scope
    <2>5. CASE had = {}
      <3>1. plan.clear = <<>> /\ plan.write = InOrder(W)
        BY <2>1, <2>5 DEF SeedPlan
      <3> QED BY <1>1, <1>3, <2>2, <2>5, <3>1, KindsRange, InOrderRange
              DEF Due, Replaces, Scope, Exactly
    <2> QED BY <2>3, <2>4, <2>5
  <1>4. CASE t.script = "courses"
    <2>1. plan = CoursesPlan(had, W, t.mode)
      BY <1>4 DEF Plan
    <2>2. t.mode \in {"default", "missing", "force"}
      BY <1>4 DEF Modes
    <2>3. CASE had # {} /\ t.mode = "default"
      <3>1. plan.clear = <<>> /\ plan.write = <<>>
        BY <2>1, <2>3 DEF CoursesPlan, Nothing
      <3> QED BY <1>1, <1>4, <2>3, <3>1, KindsRange DEF Due, Replaces
    <2>4. CASE had # {} /\ t.mode = "force"
      <3>1. plan.clear = Kinds /\ plan.write = InOrder(W)
        BY <2>1, <2>4 DEF CoursesPlan
      <3> QED BY <2>4, <3>1, KindsRange, InOrderRange DEF Due, Replaces, Scope
    <2>5. CASE t.mode = "missing"
      <3>1. plan.clear = <<>> /\ plan.write = InOrder(W \ had)
        BY <2>1, <2>5 DEF CoursesPlan
      <3>2. Distinct(plan.write) /\ Range(plan.write) = W \ had
        BY <3>1, InOrderRange
      <3> QED BY <1>1, <1>4, <2>5, <3>1, <3>2, KindsRange DEF Due, Replaces
    <2>6. CASE had = {} /\ t.mode # "missing"
      <3>1. W \ had = W
        BY <2>6
      <3>2. plan.clear = <<>> /\ plan.write = InOrder(W)
        <4>1. PICK S : S = IF t.mode = "force" THEN W ELSE W \ had
          OBVIOUS
        <4>2. plan = [clear |-> <<>>, write |-> InOrder(S)]
          BY <2>1, <2>6, <4>1 DEF CoursesPlan
        <4>3. PICK q : q = InOrder(S)
          OBVIOUS
        <4>4. plan = [clear |-> <<>>, write |-> q]
          BY <4>2, <4>3
        <4>5. plan.clear = <<>> /\ plan.write = q
          BY <4>4
        <4>6. S = W
          BY <3>1, <4>1
        <4> QED BY <4>3, <4>5, <4>6
      <3> QED BY <1>1, <1>4, <2>2, <2>6, <3>2, KindsRange, InOrderRange
              DEF Due, Replaces, Scope, Exactly
    <2> QED BY <2>2, <2>3, <2>4, <2>5, <2>6
  <1>5. CASE t.script = "notion"
    <2>1. plan = VocabPlan(had, t.mode) /\ W = {"card"}
      BY <1>5 DEF Plan
    <2>2. t.mode \in {"default", "safe"}
      BY <1>5 DEF Modes
    <2>3. Distinct(<<"card">>) /\ Range(<<"card">>) = {"card"}
      BY DEF Distinct, Range
    <2>4. CASE "card" \in had /\ t.mode = "safe"
      <3>1. plan.clear = <<>> /\ plan.write = <<>>
        BY <2>1, <2>4 DEF VocabPlan, Nothing
      <3> QED BY <1>1, <1>5, <2>4, <3>1, KindsRange DEF Due, Replaces
    <2>5. CASE ~ ("card" \in had /\ t.mode = "safe")
      <3>1. plan.clear = InOrder(had \cap {"card"}) /\ plan.write = <<"card">>
        <4>1. PICK q, p : q = InOrder(had \cap {"card"}) /\ p = <<"card">>
          OBVIOUS
        <4>2. plan = [clear |-> q, write |-> p]
          BY <2>1, <2>5, <4>1 DEF VocabPlan
        <4>3. plan.clear = q /\ plan.write = p
          BY <4>2
        <4> QED BY <4>1, <4>3
      <3>2. Distinct(plan.clear) /\ Range(plan.clear) = had \cap {"card"}
        BY <3>1, InOrderRange
      <3> QED BY <1>1, <1>5, <2>1, <2>2, <2>3, <2>5, <3>1, <3>2
              DEF Due, Replaces, Scope, Exactly
    <2> QED BY <2>4, <2>5
  <1> QED BY <1>2, <1>3, <1>4, <1>5

-----------------------------------------------------------------------------
(* The rows a run has resolved the first n places of a path to. *)
Chain(R, p, a, n) ==
    \A m \in 1..n : \E x \in R : /\ x.id = p[m + 1] /\ x.kind = Tree[m]
                                 /\ x.up = p[m] /\ x.num = a[m]

SectionAt(R, a, z) ==
    /\ z \in R /\ z.kind = "section" /\ z.num = a[3]
    /\ \E y \in R, x \in R : /\ y.id = z.up /\ y.num = a[2]
                             /\ x.id = y.up /\ x.num = a[1]

Filled(R, t, v) ==
    \E z \in R : /\ SectionAt(R, Path(v), z)
                 /\ Due(R, t, Wanted(t.script, File[v[2]]), z.id, {}, {})

Sane(R) == /\ \A x \in R : x.kind \in Branch \cup Leaf
           /\ \A x, y \in R : x.id = y.id => x = y
           /\ \A x, y \in R : x.up = y.id =>
                 y.kind \in Branch /\ (y.kind = "section" => x.kind \in Leaf)

(* From R to Q a run adds rows to the tree, or changes the content of section h. *)
Keeps(R, Q, h) ==
    \A x : /\ x \in R /\ x.kind \in Branch => x \in Q
           /\ x.kind \in Leaf /\ x.up # h => (x \in R <=> x \in Q)

LEMMA SaneRows == Rooted => Sane(rows)
  <1> SUFFICES ASSUME Rooted PROVE Sane(rows)
    OBVIOUS
  <1>1. \A x \in rows : x.kind \in Branch \cup Leaf
    BY NodeType
  <1>2. \A x, y \in rows : x.id = y.id => x = y
    BY DEF Rooted
  <1>3. ASSUME NEW x \in rows, NEW y \in rows, x.up = y.id
        PROVE  y.kind \in Branch /\ (y.kind = "section" => x.kind \in Leaf)
    <2>1. x.kind # "course" /\ y.kind = ParentKind[x.kind] /\ y.kind \in Branch
      BY <1>3, ParentOf
    <2>2. y.kind = "section" => x.kind \notin {"lesson", "section"}
      BY <2>1, Parents
    <2> QED BY <1>1, <2>1, <2>2 DEF Branch
  <1> QED BY <1>1, <1>2, <1>3 DEF Sane

LEMMA SaneNext == Rooted' => Sane(rows')
  <1>1. Rooted' => Sane(rows)'
    BY SaneRows, PTL
  <1>2. Sane(rows)' => Sane(rows')
    BY DEF Sane
  <1> QED BY <1>1, <1>2

LEMMA KeepsChain ==
  ASSUME NEW R, NEW Q, NEW h, Keeps(R, Q, h), NEW p, NEW a, NEW n \in 0..3, Chain(R, p, a, n)
  PROVE  Chain(Q, p, a, n)
  <1> SUFFICES ASSUME NEW m \in 1..n
               PROVE  \E x \in Q : /\ x.id = p[m + 1] /\ x.kind = Tree[m]
                                   /\ x.up = p[m] /\ x.num = a[m]
    BY DEF Chain
  <1>1. PICK x \in R : x.id = p[m + 1] /\ x.kind = Tree[m] /\ x.up = p[m] /\ x.num = a[m]
    BY DEF Chain
  <1>2. x.kind \in Branch
    BY <1>1 DEF Tree, Branch
  <1> QED BY <1>1, <1>2 DEF Keeps

LEMMA KeepsDue ==
  ASSUME NEW R, NEW Q, NEW h, Sane(R), Keeps(R, Q, h), NEW t, NEW W \in SUBSET Leaf, NEW i,
         i # h, Due(R, t, W, i, {}, {})
  PROVE  Due(Q, t, W, i, {}, {})
  <1>1. ASSUME NEW k \in Leaf PROVE KidsIn(Q, i, k) = KidsIn(R, i, k)
    BY <1>1 DEF KidsIn, Keeps
  <1>2. \A x \in R : x.up = i => x \in Q
    BY DEF Sane, Keeps
  <1>3. Scope(t) \subseteq Leaf
    BY DEF Scope, Leaf
  <1>4. \A k \in Leaf : Exactly(Q, i, k, W \ {}) <=> Exactly(R, i, k, W \ {})
    BY <1>1 DEF Exactly
  <1> QED BY <1>1, <1>2, <1>3, <1>4 DEF Due

LEMMA KeepsFilled ==
  ASSUME NEW R, NEW Q, NEW h, Sane(R), Keeps(R, Q, h), NEW t, NEW v,
         t.script \in {"seed", "courses", "notion"}, v[2] \in DOMAIN File,
         Filled(R, t, v), \A z \in R : SectionAt(R, Path(v), z) => z.id # h
  PROVE  Filled(Q, t, v)
  <1>1. PICK z \in R : /\ SectionAt(R, Path(v), z)
                       /\ Due(R, t, Wanted(t.script, File[v[2]]), z.id, {}, {})
    BY DEF Filled
  <1>2. PICK y \in R, x \in R : /\ y.id = z.up /\ y.num = Path(v)[2]
                                /\ x.id = y.up /\ x.num = Path(v)[1]
    BY <1>1 DEF SectionAt
  <1>3. z.kind = "section" /\ z.num = Path(v)[3]
    BY <1>1 DEF SectionAt
  <1>4. y.kind \in Branch /\ x.kind \in Branch
    BY <1>2 DEF Sane
  <1>5. z \in Q /\ y \in Q /\ x \in Q
    BY <1>3, <1>4 DEF Keeps, Branch
  <1>6. SectionAt(Q, Path(v), z)
    BY <1>2, <1>3, <1>5 DEF SectionAt
  <1>7. Due(Q, t, Wanted(t.script, File[v[2]]), z.id, {}, {})
    BY <1>1, KeepsDue, WantedType
  <1> QED BY <1>5, <1>6, <1>7 DEF Filled

(* The section the run is in is the one at its path. *)
LEMMA ChainSection ==
  ASSUME NEW R, Sane(R), NEW p, NEW a, Chain(R, p, a, 3), NEW b, NEW z,
         SectionAt(R, b, z), z.id = p[4]
  PROVE  \A m \in 1..3 : a[m] = b[m]
  <1>1. PICK z2 \in R : z2.id = p[4] /\ z2.up = p[3] /\ z2.num = a[3]
    <2>1. \E x \in R : x.id = p[3 + 1] /\ x.kind = Tree[3] /\ x.up = p[3] /\ x.num = a[3]
      BY DEF Chain
    <2> QED BY <2>1
  <1>2. PICK y2 \in R : y2.id = p[3] /\ y2.up = p[2] /\ y2.num = a[2]
    <2>1. \E x \in R : x.id = p[2 + 1] /\ x.kind = Tree[2] /\ x.up = p[2] /\ x.num = a[2]
      BY DEF Chain
    <2> QED BY <2>1
  <1>3. PICK x2 \in R : x2.id = p[2] /\ x2.num = a[1]
    <2>1. \E x \in R : x.id = p[1 + 1] /\ x.kind = Tree[1] /\ x.up = p[1] /\ x.num = a[1]
      BY DEF Chain
    <2> QED BY <2>1
  <1>4. z \in R /\ z.num = b[3]
    BY DEF SectionAt
  <1>5. PICK y \in R, x \in R : y.id = z.up /\ y.num = b[2] /\ x.id = y.up /\ x.num = b[1]
    BY DEF SectionAt
  <1>6. z = z2
    BY <1>1, <1>4 DEF Sane
  <1>7. y = y2
    BY <1>1, <1>2, <1>5, <1>6 DEF Sane
  <1>8. x = x2
    BY <1>2, <1>3, <1>5, <1>7 DEF Sane
  <1> QED BY <1>1, <1>2, <1>3, <1>4, <1>5, <1>6, <1>7, <1>8

LEMMA ChainAt ==
  ASSUME NEW R, NEW p, NEW a, Chain(R, p, a, 3)
  PROVE  \E z \in R : SectionAt(R, a, z) /\ z.id = p[4]
  <1>1. PICK z \in R : z.id = p[4] /\ z.kind = "section" /\ z.up = p[3] /\ z.num = a[3]
    <2>1. \E x \in R : x.id = p[3 + 1] /\ x.kind = Tree[3] /\ x.up = p[3] /\ x.num = a[3]
      BY DEF Chain
    <2> QED BY <2>1 DEF Tree
  <1>2. PICK y \in R : y.id = p[3] /\ y.up = p[2] /\ y.num = a[2]
    <2>1. \E x \in R : x.id = p[2 + 1] /\ x.kind = Tree[2] /\ x.up = p[2] /\ x.num = a[2]
      BY DEF Chain
    <2> QED BY <2>1
  <1>3. PICK x \in R : x.id = p[2] /\ x.num = a[1]
    <2>1. \E x \in R : x.id = p[1 + 1] /\ x.kind = Tree[1] /\ x.up = p[1] /\ x.num = a[1]
      BY DEF Chain
    <2> QED BY <2>1
  <1> QED BY <1>1, <1>2, <1>3 DEF SectionAt

-----------------------------------------------------------------------------
(* How far a run t that is alone has come, on the rows R.                  *)
Launched(t) == /\ t \in RunRecord /\ <<t.script, t.mode>> \in Modes
               /\ \E filter : t.visits = Visits(t.script, filter)

(* What is left to visit finds the parents that were resolved already: at the
   visit under way, and past it. *)
Led(R, t) ==
    \A w \in t.visits, n \in 1..2, u \in t.visits :
        Leads(t.visits, u, w, n) /\ Before(u, t.at) /\ ~ Before(w, t.at)
            => Chain(R, t.path, Path(w), n)
LedPast(R, t) ==
    \A w \in t.visits, n \in 1..2, u \in t.visits :
        Leads(t.visits, u, w, n) /\ ~ Before(t.at, u) /\ Before(t.at, w)
            => Chain(R, t.path, Path(w), n)

FilledBefore(R, t) ==
    \A v \in t.visits : Before(v, t.at) /\ Len(Path(v)) = 3 => Filled(R, t, v)

Going(R, t) == Launched(t) /\ t.at \in t.visits /\ Led(R, t) /\ FilledBefore(R, t)

Found(R, t, i) == \E x \in R : /\ x.id = i /\ x.kind = Tree[Level(t)] /\ x.up = Parent(t)
                               /\ x.num = Path(t.at)[Level(t)]

Filling(R, t) == /\ Due(R, t, Wanted(t.script, Entry(t)), t.path[4],
                        Range(t.clear), Range(t.write))
                 /\ Distinct(t.clear) /\ Distinct(t.write)

Finished(R, t) == /\ Launched(t)
                  /\ \A v \in t.visits : Len(Path(v)) = 3 => Filled(R, t, v)

Sound(R, t) ==
    /\ t.pc \in {"find", "save", "count", "fill"} => Going(R, t)
    /\ t.pc = "save" /\ t.hit # NoId => Found(R, t, t.hit)
    /\ t.pc \in {"count", "fill"} => Chain(R, t.path, Path(t.at), 3)
    /\ t.pc = "fill" => Filling(R, t)
    /\ t.pc = "ended" /\ t.ok => Finished(R, t)

LEMMA LaunchedType ==
  ASSUME NEW t, Launched(t)
  PROVE  /\ t.visits \in SUBSET (Nat \X DOMAIN File) /\ t.visits \subseteq Nat \X Nat
         /\ t.script \in {"seed", "courses", "notion"}
         /\ \A v \in t.visits : v[2] \in DOMAIN File /\ Len(Path(v)) \in 1..3
  BY FileAssumption DEF Launched, RunRecord, Path

LEMMA SameFilled ==
  ASSUME NEW R, NEW t, NEW u, u.script = t.script, u.mode = t.mode, NEW v, Filled(R, t, v)
  PROVE  Filled(R, u, v)
  BY DEF Filled, Due, Replaces, Scope

LEMMA VisitNext ==
  ASSUME NEW R, NEW t, Launched(t), t.at \in t.visits, LedPast(R, t),
         \A v \in t.visits : ~ Before(t.at, v) /\ Len(Path(v)) = 3 => Filled(R, t, v),
         NEW V, V = {v \in t.visits : Before(t.at, v)}, NEW u, u = Visit(t, V)
  PROVE  Sound(R, u)
  <1>1. t \in RunRecord /\ t.visits \subseteq Nat \X Nat
    BY LaunchedType DEF Launched
  <1>2. CASE V = {}
    <2>1. u = [t EXCEPT !.pc = "ended", !.ok = TRUE, !.path = IdleRun.path]
      BY <1>2 DEF Visit
    <2>2. /\ u \in RunRecord /\ u.pc = "ended" /\ u.visits = t.visits
          /\ u.script = t.script /\ u.mode = t.mode
      BY <1>1, <2>1, NoPath DEF RunRecord
    <2>3. \A v \in t.visits : ~ Before(t.at, v)
      BY <1>2
    <2>4. Launched(u)
      BY <2>2 DEF Launched
    <2>5. \A v \in u.visits : Len(Path(v)) = 3 => Filled(R, u, v)
      BY <2>2, <2>3, SameFilled
    <2> QED BY <2>2, <2>4, <2>5 DEF Sound, Finished
  <1>3. CASE V # {}
    <2>1. PICK a \in V : a = Foremost(V) /\ \A w \in V \ {a} : Before(a, w)
      <3>1. V \in SUBSET (Nat \X Nat)
        BY <1>1
      <3> QED BY <1>3, <3>1, ForemostIn
    <2>2. u = [t EXCEPT !.pc = "find", !.at = a]
      BY <1>3, <2>1 DEF Visit
    <2>3. /\ u \in RunRecord /\ u.pc = "find" /\ u.visits = t.visits /\ u.at = a
          /\ u.script = t.script /\ u.mode = t.mode /\ u.path = t.path
      <3>1. a \in Nat \X Nat
        BY <1>1, <2>1
      <3> QED BY <1>1, <2>2, <3>1 DEF RunRecord
    <2>4. Launched(u) /\ u.at \in u.visits
      BY <2>1, <2>3 DEF Launched
    <2>5. ASSUME NEW v \in t.visits PROVE Before(v, a) <=> ~ Before(t.at, v)
      <3>1. v \in Nat \X Nat /\ a \in Nat \X Nat /\ t.at \in Nat \X Nat /\ Before(t.at, a)
        BY <1>1, <2>1
      <3>2. CASE Before(t.at, v)
        <4>1. v = a \/ Before(a, v)
          BY <2>1, <3>2
        <4> QED BY <3>1, <3>2, <4>1, Orders
      <3>3. CASE ~ Before(t.at, v)
        <4>1. Before(v, t.at) \/ v = t.at
          BY <3>1, <3>3, Orders
        <4> QED BY <3>1, <3>3, <4>1, Orders
      <3> QED BY <3>2, <3>3
    <2>6. Led(R, u)
      BY <2>3, <2>5 DEF Led, LedPast
    <2>7. FilledBefore(R, u)
      BY <2>3, <2>5, SameFilled DEF FilledBefore
    <2> QED BY <2>3, <2>4, <2>6, <2>7 DEF Sound, Going
  <1> QED BY <1>2, <1>3

LEMMA StartNext ==
  ASSUME NEW R, NEW t, Launched(t), NEW u, u = Visit(t, t.visits)
  PROVE  Sound(R, u)
  <1>1. t \in RunRecord /\ t.visits \subseteq Nat \X Nat
    BY LaunchedType DEF Launched
  <1>2. CASE t.visits = {}
    <2>1. u = [t EXCEPT !.pc = "ended", !.ok = TRUE, !.path = IdleRun.path]
      BY <1>2 DEF Visit
    <2>2. /\ u \in RunRecord /\ u.pc = "ended" /\ u.visits = {}
          /\ u.script = t.script /\ u.mode = t.mode
      BY <1>1, <1>2, <2>1, NoPath DEF RunRecord
    <2>3. Launched(u)
      BY <1>2, <2>2 DEF Launched
    <2> QED BY <2>2, <2>3 DEF Sound, Finished
  <1>3. CASE t.visits # {}
    <2>1. PICK a \in t.visits : /\ a = Foremost(t.visits)
                                /\ \A w \in t.visits \ {a} : Before(a, w)
      <3>1. t.visits \in SUBSET (Nat \X Nat)
        BY <1>1
      <3> QED BY <1>3, <3>1, ForemostIn
    <2>2. u = [t EXCEPT !.pc = "find", !.at = a]
      BY <1>3, <2>1 DEF Visit
    <2>3. /\ u \in RunRecord /\ u.pc = "find" /\ u.visits = t.visits /\ u.at = a
          /\ u.script = t.script /\ u.mode = t.mode /\ u.path = t.path
      <3>1. a \in Nat \X Nat
        BY <1>1, <2>1
      <3> QED BY <1>1, <2>2, <3>1 DEF RunRecord
    <2>4. Launched(u) /\ u.at \in u.visits
      BY <2>1, <2>3 DEF Launched
    <2>5. ASSUME NEW v \in t.visits PROVE ~ Before(v, a)
      <3>1. v \in Nat \X Nat /\ a \in Nat \X Nat
        BY <1>1
      <3>2. v = a \/ Before(a, v)
        BY <2>1
      <3> QED BY <3>1, <3>2, Orders
    <2> QED BY <2>3, <2>4, <2>5 DEF Sound, Going, Led, FilledBefore
  <1> QED BY <1>2, <1>3

LEMMA SettledNext ==
  ASSUME NEW R, NEW t, RunFits(t), t.pc = "save", Going(R, t), NEW i \in Id, Found(R, t, i),
         NEW u, u = Settled(t, i)
  PROVE  Sound(R, u)
  <1>1. /\ t \in RunRecord /\ t.at \in t.visits /\ t.clear = <<>> /\ t.write = <<>>
        /\ Launched(t) /\ Led(R, t) /\ FilledBefore(R, t)
    BY DEF RunFits, Going
  <1>2. t.visits \subseteq Nat \X Nat /\ t.script \in {"seed", "courses", "notion"}
    BY <1>1, LaunchedType
  <1>3. PICK k \in 1..3 : k = Level(t) /\ k = Len(Path(t.at))
    BY <1>1, LevelType DEF Path, Level, Entry
  <1>4. PICK p : p = [t.path EXCEPT ![k + 1] = i]
    OBVIOUS
  <1>5. /\ p \in [1..4 -> {0, NoId} \cup Id] /\ p[k + 1] = i
        /\ \A m \in 1..4 : m # k + 1 => p[m] = t.path[m]
    <2>1. t.path \in [1..4 -> {0, NoId} \cup Id]
      BY <1>1 DEF RunRecord
    <2> QED BY <1>4, <2>1
  <1>6. PICK h : h = [t EXCEPT !.path = p, !.hit = NoId]
    OBVIOUS
  <1>7. /\ h \in RunRecord /\ h.path = p /\ h.at = t.at /\ h.visits = t.visits
        /\ h.clear = <<>> /\ h.write = <<>> /\ h.script = t.script /\ h.mode = t.mode
    BY <1>1, <1>5, <1>6 DEF RunRecord
  <1>8. h = [t EXCEPT !.path = [@ EXCEPT ![Level(t) + 1] = i], !.hit = NoId]
    BY <1>3, <1>4, <1>6
  <1>9. ASSUME NEW a, NEW n \in 1..2, n < k, Chain(R, t.path, a, n) PROVE Chain(R, p, a, n)
    <2>1. \A m \in 1..n : p[m] = t.path[m] /\ p[m + 1] = t.path[m + 1]
      BY <1>5, <1>9
    <2> QED BY <1>9, <2>1 DEF Chain
  <1>10. Chain(R, p, Path(t.at), k)
    <2>1. ASSUME NEW m \in 1..k, m < k
          PROVE  \E x \in R : /\ x.id = p[m + 1] /\ x.kind = Tree[m]
                              /\ x.up = p[m] /\ x.num = Path(t.at)[m]
      <3>1. PICK n \in 1..2 : n = k - 1
        BY <2>1
      <3>2. PICK filter : t.visits = Visits(t.script, filter)
        BY <1>1 DEF Launched
      <3>3. PICK v : Leads(t.visits, v, t.at, n)
        <4>1. n < Len(Path(t.at))
          BY <1>3, <3>1
        <4> QED BY <1>1, <1>2, <3>2, <4>1, VisitsLed
      <3>4. v \in t.visits /\ Before(v, t.at) /\ ~ Before(t.at, t.at)
        BY <1>1, <1>2, <3>3, Orders DEF Leads
      <3>5. Chain(R, t.path, Path(t.at), n)
        BY <1>1, <3>3, <3>4 DEF Led
      <3>6. Chain(R, p, Path(t.at), n)
        BY <1>9, <3>1, <3>5
      <3>7. m \in 1..n
        BY <2>1, <3>1
      <3> QED BY <3>6, <3>7 DEF Chain
    <2>2. \E x \in R : /\ x.id = p[k + 1] /\ x.kind = Tree[k]
                       /\ x.up = p[k] /\ x.num = Path(t.at)[k]
      <3>1. k \in 1..4 /\ k # k + 1
        BY <1>3
      <3>2. p[k] = t.path[k] /\ p[k + 1] = i
        BY <1>5, <3>1
      <3>3. p[k] = Parent(t)
        BY <1>3, <3>2 DEF Parent
      <3> QED BY <1>3, <3>2, <3>3 DEF Found
    <2> QED BY <2>1, <2>2 DEF Chain
  <1>11. CASE k = 3
    <2>1. u = [h EXCEPT !.pc = "count"]
      BY <1>3, <1>8, <1>11 DEF Settled
    <2>2. /\ u \in RunRecord /\ u.pc = "count" /\ u.path = p /\ u.at = t.at
          /\ u.visits = t.visits /\ u.script = t.script /\ u.mode = t.mode
      BY <1>7, <2>1 DEF RunRecord
    <2>3. Launched(u) /\ u.at \in u.visits
      BY <1>1, <2>2 DEF Launched
    <2>4. Led(R, u)
      BY <1>1, <1>9, <1>11, <2>2 DEF Led
    <2>5. FilledBefore(R, u)
      BY <1>1, <2>2, SameFilled DEF FilledBefore
    <2> QED BY <1>10, <1>11, <2>2, <2>3, <2>4, <2>5 DEF Sound, Going
  <1>12. CASE k # 3
    <2>1. PICK V : V = {v \in h.visits : Before(h.at, v)}
      OBVIOUS
    <2>2. u = Visit(h, V)
      <3>1. u = Onward(h)
        BY <1>3, <1>8, <1>12 DEF Settled
      <3> QED BY <1>7, <2>1, <3>1 DEF Onward
    <2>3. Launched(h) /\ h.at \in h.visits
      BY <1>1, <1>7 DEF Launched
    <2>4. LedPast(R, h)
      <3> SUFFICES ASSUME NEW w \in t.visits, NEW n \in 1..2, NEW v \in t.visits,
                          Leads(t.visits, v, w, n), ~ Before(t.at, v), Before(t.at, w)
                   PROVE  Chain(R, p, Path(w), n)
        BY <1>7 DEF LedPast
      <3>1. w \in Nat \X Nat /\ v \in Nat \X Nat /\ t.at \in Nat \X Nat
        BY <1>1, <1>2
      <3>2. CASE v = t.at
        <4>1. n = k /\ \A m \in 1..n : Path(t.at)[m] = Path(w)[m]
          BY <1>3, <3>2 DEF Leads, Above, Path
        <4> QED BY <1>10, <4>1 DEF Chain
      <3>3. CASE v # t.at
        <4>1. Before(v, t.at)
          BY <3>1, <3>3, Orders
        <4>2. n < k
          BY <1>1, <1>3, <4>1 DEF Leads
        <4>3. ~ Before(w, t.at)
          BY <3>1, Orders
        <4>4. Chain(R, t.path, Path(w), n)
          BY <1>1, <4>1, <4>3 DEF Led
        <4> QED BY <1>9, <4>2, <4>4
      <3> QED BY <3>2, <3>3
    <2>5. \A v \in h.visits : ~ Before(h.at, v) /\ Len(Path(v)) = 3 => Filled(R, h, v)
      <3> SUFFICES ASSUME NEW v \in t.visits, ~ Before(t.at, v), Len(Path(v)) = 3
                   PROVE  Filled(R, h, v)
        BY <1>7
      <3>1. v # t.at
        BY <1>3, <1>12
      <3>2. v \in Nat \X Nat /\ t.at \in Nat \X Nat
        BY <1>1, <1>2
      <3>3. Before(v, t.at)
        BY <3>1, <3>2, Orders
      <3> QED BY <1>1, <1>7, <3>3, SameFilled DEF FilledBefore
    <2> QED BY <2>1, <2>2, <2>3, <2>4, <2>5, VisitNext
  <1> QED BY <1>11, <1>12

LEMMA OnwardNext ==
  ASSUME NEW R, NEW t, Going(R, t), Level(t) = 3, Chain(R, t.path, Path(t.at), 3),
         Filling(R, t), NEW u, u = Onward(t)
  PROVE  Sound(R, u)
  <1>1. /\ t \in RunRecord /\ t.at \in t.visits /\ Launched(t) /\ Led(R, t)
        /\ FilledBefore(R, t) /\ t.visits \subseteq Nat \X Nat /\ Len(Path(t.at)) = 3
        /\ t.script \in {"seed", "courses", "notion"}
    BY LaunchedType DEF Going, Launched, Level, Entry, Path
  <1>2. CASE t.clear # <<>> \/ t.write # <<>>
    <2>1. u = [t EXCEPT !.pc = "fill"]
      BY <1>2 DEF Onward
    <2>2. /\ u \in RunRecord /\ u.pc = "fill" /\ u.path = t.path /\ u.at = t.at
          /\ u.visits = t.visits /\ u.script = t.script /\ u.mode = t.mode
          /\ u.clear = t.clear /\ u.write = t.write
      BY <1>1, <2>1 DEF RunRecord
    <2>3. Launched(u) /\ Led(R, u)
      BY <1>1, <2>2 DEF Launched, Led
    <2>4. FilledBefore(R, u)
      BY <1>1, <2>2, SameFilled DEF FilledBefore
    <2>5. Filling(R, u)
      BY <2>2 DEF Filling, Due, Replaces, Scope, Entry
    <2> QED BY <1>1, <2>2, <2>3, <2>4, <2>5 DEF Sound, Going
  <1>3. CASE t.clear = <<>> /\ t.write = <<>>
    <2>1. PICK V : V = {v \in t.visits : Before(t.at, v)}
      OBVIOUS
    <2>2. u = Visit(t, V)
      BY <1>3, <2>1 DEF Onward
    <2>3. Filled(R, t, t.at)
      <3>1. PICK z \in R : SectionAt(R, Path(t.at), z) /\ z.id = t.path[4]
        BY ChainAt
      <3>2. Due(R, t, Wanted(t.script, File[t.at[2]]), z.id, {}, {})
        BY <1>3, <3>1, KindsRange DEF Filling, Entry
      <3> QED BY <3>1, <3>2 DEF Filled
    <2>4. LedPast(R, t)
      <3> SUFFICES ASSUME NEW w \in t.visits, NEW n \in 1..2, NEW v \in t.visits,
                          Leads(t.visits, v, w, n), ~ Before(t.at, v), Before(t.at, w)
                   PROVE  Chain(R, t.path, Path(w), n)
        BY DEF LedPast
      <3>1. w \in Nat \X Nat /\ v \in Nat \X Nat /\ t.at \in Nat \X Nat
        BY <1>1
      <3>2. Len(Path(v)) = n
        BY DEF Leads, Above, Path
      <3>3. v # t.at
        <4>1. Len(Path(t.at)) = 3 /\ n # 3
          BY <1>1
        <4> QED BY <3>2, <4>1
      <3>4. Before(v, t.at) /\ ~ Before(w, t.at)
        BY <3>1, <3>3, Orders
      <3> QED BY <1>1, <3>4 DEF Led
    <2>5. \A v \in t.visits : ~ Before(t.at, v) /\ Len(Path(v)) = 3 => Filled(R, t, v)
      <3> SUFFICES ASSUME NEW v \in t.visits, ~ Before(t.at, v), Len(Path(v)) = 3
                   PROVE  Filled(R, t, v)
        OBVIOUS
      <3>1. v = t.at \/ Before(v, t.at)
        BY <1>1, Orders
      <3> QED BY <1>1, <2>3, <3>1 DEF FilledBefore
    <2> QED BY <1>1, <2>1, <2>2, <2>4, <2>5, VisitNext
  <1> QED BY <1>2, <1>3

-----------------------------------------------------------------------------
(* What a step of the run itself does to what it has done so far.          *)
LEMMA GoingSame ==
  ASSUME NEW R, NEW t, Going(R, t), NEW u \in RunRecord, u.script = t.script, u.mode = t.mode,
         u.visits = t.visits, u.at = t.at, u.path = t.path
  PROVE  Going(R, u)
  <1>1. Launched(t) /\ t.at \in t.visits /\ Led(R, t) /\ FilledBefore(R, t)
    BY DEF Going
  <1>2. Launched(u) /\ Led(R, u)
    BY <1>1 DEF Launched, Led
  <1>3. FilledBefore(R, u)
    BY <1>1, SameFilled DEF FilledBefore
  <1> QED BY <1>1, <1>2, <1>3 DEF Going

LEMMA GoingKeeps ==
  ASSUME NEW R, NEW Q, NEW h, Sane(R), Keeps(R, Q, h), NEW t, Going(R, t),
         \/ \A z \in R : z.id # h
         \/ h = t.path[4] /\ Len(Path(t.at)) = 3 /\ Chain(R, t.path, Path(t.at), 3)
  PROVE  Going(Q, t)
  <1>1. /\ Launched(t) /\ t.at \in t.visits /\ Led(R, t) /\ FilledBefore(R, t)
        /\ t.visits \subseteq Nat \X Nat /\ t.script \in {"seed", "courses", "notion"}
        /\ \A v \in t.visits : v[2] \in DOMAIN File
    BY LaunchedType DEF Going
  <1>2. Led(Q, t)
    <2>1. \A w \in t.visits, n \in 1..2 :
             Chain(R, t.path, Path(w), n) => Chain(Q, t.path, Path(w), n)
      BY KeepsChain
    <2> QED BY <1>1, <2>1 DEF Led
  <1>3. ASSUME NEW v \in t.visits, Before(v, t.at), Len(Path(v)) = 3 PROVE Filled(Q, t, v)
    <2>1. Filled(R, t, v) /\ v[2] \in DOMAIN File
      BY <1>1, <1>3 DEF FilledBefore
    <2>2. ASSUME NEW z \in R, SectionAt(R, Path(v), z), z.id = h PROVE FALSE
      <3>1. /\ h = t.path[4] /\ Len(Path(t.at)) = 3 /\ Chain(R, t.path, Path(t.at), 3)
        BY <2>2
      <3>2. \A m \in 1..3 : Path(t.at)[m] = Path(v)[m]
        BY <2>2, <3>1, ChainSection
      <3>3. Path(v) \in Seq(Nat) /\ Path(t.at) \in Seq(Nat)
        BY <1>1, FileAssumption DEF Path
      <3>4. Path(v) = Path(t.at)
        BY <1>3, <3>1, <3>2, <3>3, SeqEqual
      <3>5. PICK filter : t.visits = Visits(t.script, filter)
        BY <1>1 DEF Launched
      <3>6. v = t.at
        BY <1>1, <1>3, <3>4, <3>5, SectionOnce
      <3> QED BY <1>1, <1>3, <3>6, Orders
    <2> QED BY <1>1, <2>1, <2>2, KeepsFilled
  <1> QED BY <1>1, <1>2, <1>3 DEF Going, FilledBefore

(* Rows are cleared only on the way to a replacement. *)
LEMMA ClearDue ==
  ASSUME NEW R, NEW Q, NEW t, <<t.script, t.mode>> \in Modes, ~ Careful(t), NEW W \in SUBSET Leaf,
         NEW i, NEW c \in SUBSET Leaf, NEW w, NEW k \in c,
         Q = {x \in R : ~ (x.up = i /\ x.kind = k)}, Due(R, t, W, i, c, w)
  PROVE  Due(Q, t, W, i, c \ {k}, w)
  <1>1. Replaces(t) /\ t.mode # "missing"
    BY DEF Careful, Replaces, Modes
  <1>2. /\ \A j \in Scope(t) : j \in c \/ Exactly(R, i, j, W \ w)
        /\ w \subseteq W /\ W \cap Scope(t) \subseteq w
    BY <1>1 DEF Due
  <1>3. ASSUME NEW j, j # k PROVE KidsIn(Q, i, j) = KidsIn(R, i, j)
    BY <1>3 DEF KidsIn
  <1>4. KidsIn(Q, i, k) = {}
    BY DEF KidsIn
  <1>5. ASSUME NEW j \in Scope(t), j \notin c \ {k} PROVE Exactly(Q, i, j, W \ w)
    <2>1. CASE j = k
      BY <1>2, <1>4, <2>1 DEF Exactly
    <2>2. CASE j # k
      BY <1>2, <1>3, <1>5, <2>2 DEF Exactly
    <2> QED BY <2>1, <2>2
  <1> QED BY <1>1, <1>2, <1>5 DEF Due

LEMMA WriteDue ==
  ASSUME NEW R, NEW Q, NEW t, NEW W \in SUBSET Leaf, NEW i, NEW w, NEW k \in w,
         NEW n, n.up = i, n.kind = k, Q = R \cup {n}, Due(R, t, W, i, {}, w)
  PROVE  Due(Q, t, W, i, {}, w \ {k})
  <1>1. KidsIn(Q, i, k) = KidsIn(R, i, k) \cup {n}
    BY DEF KidsIn
  <1>2. ASSUME NEW j, j # k PROVE KidsIn(Q, i, j) = KidsIn(R, i, j)
    BY <1>2 DEF KidsIn
  <1>3. ASSUME Replaces(t) PROVE /\ \A j \in Scope(t) : Exactly(Q, i, j, W \ (w \ {k}))
                                 /\ w \subseteq W
    <2>1. w \subseteq W /\ \A j \in Scope(t) : Exactly(R, i, j, W \ w)
      BY <1>3 DEF Due
    <2>2. ASSUME NEW j \in Scope(t) PROVE Exactly(Q, i, j, W \ (w \ {k}))
      <3>1. CASE j = k
        <4>1. KidsIn(R, i, k) = {}
          BY <2>1, <3>1 DEF Exactly
        <4> QED BY <1>1, <2>1, <3>1, <4>1 DEF Exactly
      <3>2. CASE j # k
        <4>1. j \in W \ w <=> j \in W \ (w \ {k})
          BY <3>2
        <4> QED BY <1>2, <2>1, <3>2, <4>1 DEF Exactly
      <3> QED BY <3>1, <3>2
    <2> QED BY <2>1, <2>2
  <1>4. ASSUME t.mode = "missing" PROVE \A j \in W : j \in w \ {k} \/ KidsIn(Q, i, j) # {}
    BY <1>1, <1>2, <1>4 DEF Due
  <1>5. \E x \in Q : x.up = i
    OBVIOUS
  <1> QED BY <1>3, <1>4, <1>5 DEF Due

LEMMA RunGoes == ASSUME Runs, NEW r \in Run, NEW t, Goes(r, t) PROVE run'[r] = t
  BY DEF Goes, Runs

LEMMA EndedSound == ASSUME Runs, NEW r \in Run, Fails(r), NEW R PROVE Sound(R, run'[r])
  <1>1. PICK t : t = [IdleRun EXCEPT !.pc = "ended"]
    OBVIOUS
  <1>2. t.pc = "ended" /\ t.ok = FALSE
    BY <1>1 DEF IdleRun
  <1>3. run'[r] = t
    BY <1>1, RunGoes DEF Fails
  <1> QED BY <1>2, <1>3 DEF Sound

LEMMA StartSound ==
  ASSUME Runs, NEW r \in Run, StartRun(r), NEW R
  PROVE  Sound(R, run'[r])
  <1>1. PICK l \in Launches, filter \in Filter :
          LET V == Visits(l[1], filter)
          IN  Goes(r, Visit([IdleRun EXCEPT !.script = l[1], !.mode = l[2], !.visits = V], V))
    BY DEF StartRun
  <1>2. PICK script, mode : script = l[1] /\ mode = l[2]
    OBVIOUS
  <1>3. /\ script \in {"seed", "courses", "notion"} /\ <<script, mode>> \in Modes
        /\ mode \in {"default", "missing", "force", "safe"}
    BY <1>2, ContentAssumption DEF Modes
  <1>4. PICK V \in SUBSET (Nat \X DOMAIN File) : V = Visits(script, filter)
    BY <1>3, VisitsType
  <1>5. PICK t : t = [IdleRun EXCEPT !.script = script, !.mode = mode, !.visits = V]
    OBVIOUS
  <1>6. PICK u : u = Visit(t, V)
    OBVIOUS
  <1>7. Goes(r, u)
    BY <1>1, <1>2, <1>4, <1>5, <1>6
  <1>8. t \in RunRecord /\ t.visits = V /\ t.script = script /\ t.mode = mode
    BY <1>3, <1>5, IdleRunFits DEF RunRecord
  <1>9. Launched(t)
    BY <1>3, <1>4, <1>8 DEF Launched
  <1>10. Sound(R, u)
    BY <1>6, <1>8, <1>9, StartNext
  <1> QED BY <1>7, <1>10, RunGoes

LEMMA FindSound ==
  ASSUME Rooted, Runs, NEW r \in Run, Sound(rows, run[r]), FindRow(r)
  PROVE  Sound(rows, run'[r])
  <1>1. PICK i \in {NoId} \cup {x.id : x \in Matches(run[r])} :
          Goes(r, [run[r] EXCEPT !.pc = "save", !.hit = i])
    BY DEF FindRow
  <1>2. PICK t : t = run[r]
    OBVIOUS
  <1>3. t.pc = "find" /\ t \in RunRecord /\ Going(rows, t)
    BY <1>2 DEF Runs, RunFits, FindRow, Sound
  <1>4. i \in Id \cup {NoId}
    BY <1>1, NodeType DEF Matches, Of, Kids
  <1>5. PICK u : u = [t EXCEPT !.pc = "save", !.hit = i]
    OBVIOUS
  <1>6. /\ u \in RunRecord /\ u.pc = "save" /\ u.hit = i /\ u.path = t.path /\ u.at = t.at
        /\ u.visits = t.visits /\ u.script = t.script /\ u.mode = t.mode
    BY <1>3, <1>4, <1>5 DEF RunRecord
  <1>7. Going(rows, u)
    BY <1>3, <1>6, GoingSame
  <1>8. ASSUME i # NoId PROVE Found(rows, u, i)
    <2>1. PICK x \in rows : /\ x.id = i /\ x.up = Parent(t) /\ x.kind = Tree[Level(t)]
                            /\ x.num = Last(Entry(t).path)
      BY <1>1, <1>2, <1>8 DEF Matches, Of, Kids
    <2>2. Level(u) = Level(t) /\ Parent(u) = Parent(t)
      BY <1>6 DEF Level, Entry, Parent
    <2>3. Last(Entry(t).path) = Path(u.at)[Level(u)]
      BY <1>6 DEF Last, Entry, Path, Level
    <2> QED BY <2>1, <2>2, <2>3 DEF Found
  <1>9. Sound(rows, u)
    BY <1>6, <1>7, <1>8 DEF Sound
  <1>10. Goes(r, u)
    BY <1>1, <1>2, <1>5
  <1> QED BY <1>9, <1>10, RunGoes

LEMMA SaveSound ==
  ASSUME Rooted, Runs, NEW r \in Run, Sound(rows, run[r]), UpdateRow(r) \/ CreateRow(r)
  PROVE  Sound(rows', run'[r])
  <1>1. PICK t : t = run[r]
    OBVIOUS
  <1>2. RunFits(t) /\ t.pc = "save" /\ t \in RunRecord /\ t.at \in t.visits /\ Going(rows, t)
    BY <1>1 DEF Runs, RunFits, UpdateRow, CreateRow, Sound
  <1>3. CASE Fails(r)
    BY <1>3, EndedSound
  <1>4. CASE UpdateRow(r) /\ ~ Fails(r)
    <2>1. PICK i : i = t.hit
      OBVIOUS
    <2>2. i \in Ids /\ i # NoId /\ Goes(r, Settled(t, i)) /\ rows' = rows
      BY <1>1, <1>4, <2>1 DEF UpdateRow
    <2>3. i \in Id
      BY <2>2, NodeType DEF Ids
    <2>4. Found(rows, t, i)
      BY <1>1, <1>2, <2>1, <2>2 DEF Sound
    <2>5. PICK u : u = Settled(t, i)
      OBVIOUS
    <2>6. Sound(rows, u)
      BY <1>2, <2>3, <2>4, <2>5, SettledNext
    <2> QED BY <2>2, <2>5, <2>6, RunGoes
  <1>5. CASE CreateRow(r) /\ ~ Fails(r)
    <2>1. PICK k \in 1..3 : k = Level(t)
      BY <1>2, LevelType
    <2>2. PICK i, num, new : i = Parent(t) /\ num = Last(Entry(t).path) /\ new = next
      OBVIOUS
    <2>3. Add(Tree[k], i, num) /\ Goes(r, Settled(t, new))
      BY <1>1, <1>5, <2>1, <2>2 DEF CreateRow
    <2>4. new \in Id
      BY <2>2, <2>3, Bounds DEF Add, Rooted, Id
    <2>5. PICK n : n = [id |-> new, kind |-> Tree[k], up |-> i, num |-> num]
      OBVIOUS
    <2>6. rows' = rows \cup {n}
      BY <2>2, <2>3, <2>5 DEF Add
    <2>7. n.kind \in Branch /\ n.kind = Tree[k] /\ n.id = new /\ n.up = i /\ n.num = num
      BY <2>5 DEF Tree, Branch
    <2>8. Keeps(rows, rows', NoId)
      BY <2>6, <2>7 DEF Keeps, Branch, Leaf
    <2>9. \A z \in rows : z.id # NoId
      BY NodeType, Bounds
    <2>10. Sane(rows)
      BY SaneRows
    <2>11. Going(rows', t)
      BY <1>2, <2>8, <2>9, <2>10, GoingKeeps
    <2>12. num = Path(t.at)[k]
      BY <2>1, <2>2 DEF Last, Entry, Path, Level
    <2>13. Found(rows', t, new)
      BY <2>1, <2>2, <2>6, <2>7, <2>12 DEF Found
    <2>14. PICK u : u = Settled(t, new)
      OBVIOUS
    <2>15. Sound(rows', u)
      BY <1>2, <2>4, <2>11, <2>13, <2>14, SettledNext
    <2> QED BY <2>3, <2>14, <2>15, RunGoes
  <1> QED BY <1>3, <1>4, <1>5

LEMMA CountSound ==
  ASSUME Rooted, Runs, NEW r \in Run, Sound(rows, run[r]), CountContent(r)
  PROVE  Sound(rows, run'[r])
  <1>1. PICK o : o = run[r] /\ o \in RunRecord /\ RunFits(o) /\ o.pc = "count"
    BY DEF Runs, CountContent
  <1>2. /\ Going(rows, o) /\ Launched(o) /\ o.at \in o.visits /\ Level(o) = 3
        /\ Chain(rows, o.path, Path(o.at), 3)
    BY <1>1 DEF Sound, Going, RunFits
  <1>3. /\ <<o.script, o.mode>> \in Modes /\ o.script \in {"seed", "courses", "notion"}
        /\ o.at[2] \in DOMAIN File
    BY <1>2, LaunchedType DEF Launched
  <1>4. PICK i, had, W : /\ i = o.path[4] /\ had = {x.kind : x \in {y \in rows : y.up = i}}
                         /\ W = Wanted(o.script, Entry(o))
    OBVIOUS
  <1>5. PICK plan : plan = Plan(o, had, W)
    OBVIOUS
  <1>6. PICK t : t = [o EXCEPT !.clear = plan.clear, !.write = plan.write]
    OBVIOUS
  <1>7. Goes(r, Onward(t))
    <2>1. Here(o) = i
      BY <1>2, <1>4 DEF Here
    <2>2. {x.kind : x \in Kids(Here(o))} = had
      BY <1>4, <2>1 DEF Kids
    <2> QED BY <1>1, <1>4, <1>5, <1>6, <2>2 DEF CountContent
  <1>8. plan.clear \in Seq(Leaf) /\ plan.write \in Seq(Leaf)
    BY <1>1, <1>5, PlanFits
  <1>9. /\ t \in RunRecord /\ t.path = o.path /\ t.at = o.at /\ t.visits = o.visits
        /\ t.script = o.script /\ t.mode = o.mode /\ t.clear = plan.clear /\ t.write = plan.write
    BY <1>1, <1>6, <1>8 DEF RunRecord
  <1>10. Going(rows, t) /\ Level(t) = 3 /\ Chain(rows, t.path, Path(t.at), 3)
    BY <1>2, <1>9, GoingSame DEF Level, Entry
  <1>11. had \subseteq Leaf
    <2>1. PICK z \in rows : z.kind = "section" /\ z.id = i
      BY <1>2, <1>4, ChainAt DEF SectionAt
    <2>2. Sane(rows)
      BY SaneRows
    <2> QED BY <1>4, <2>1, <2>2 DEF Sane
  <1>12. W \in SUBSET Leaf /\ (o.script = "notion" => W = {"card"})
    <2>1. W = Wanted(o.script, File[o.at[2]])
      BY <1>4 DEF Entry
    <2> QED BY <1>3, <2>1, WantedType DEF Wanted
  <1>13. Decided(rows, o, W, i, plan)
    <2>1. <<o.script, o.mode>> \in Modes
      BY <1>3
    <2>2. W \in SUBSET Leaf
      BY <1>12
    <2>3. o.script = "notion" => W = {"card"}
      BY <1>12
    <2>4. \A k : k \in had <=> \E x \in rows : x.up = i /\ x.kind = k
      BY <1>4
    <2>5. had \in SUBSET Leaf
      BY <1>11
    <2> QED BY <1>5, <2>5, <2>1, <2>2, <2>3, <2>4, PlanDue
  <1>14. Filling(rows, t)
    <2>1. W = Wanted(t.script, Entry(t)) /\ i = t.path[4]
      BY <1>4, <1>9 DEF Entry
    <2>2. Due(rows, t, W, i, Range(plan.clear), Range(plan.write))
      BY <1>9, <1>13 DEF Decided, Due, Replaces, Scope
    <2> QED BY <1>9, <1>13, <2>1, <2>2 DEF Decided, Filling
  <1>15. PICK u : u = Onward(t)
    OBVIOUS
  <1>16. Sound(rows, u)
    BY <1>10, <1>14, <1>15, OnwardNext
  <1> QED BY <1>7, <1>15, <1>16, RunGoes

LEMMA FillSound ==
  ASSUME NEW R, Sane(R), NEW o \in RunRecord, o.pc = "fill", Sound(R, o), Level(o) = 3,
         NEW Q, Keeps(R, Q, o.path[4]), NEW t \in RunRecord, t.path = o.path, t.at = o.at,
         t.visits = o.visits, t.script = o.script, t.mode = o.mode,
         Distinct(t.clear), Distinct(t.write),
         \A W \in SUBSET Leaf :
            Due(R, o, W, o.path[4], Range(o.clear), Range(o.write))
               => Due(Q, o, W, o.path[4], Range(t.clear), Range(t.write))
  PROVE  Sound(Q, Onward(t))
  <1>1. /\ Going(R, o) /\ Filling(R, o) /\ Launched(o) /\ o.at \in o.visits
        /\ Chain(R, o.path, Path(o.at), 3)
    BY DEF Sound, Going
  <1>2. o.at[2] \in DOMAIN File /\ o.script \in {"seed", "courses", "notion"}
    BY <1>1, LaunchedType
  <1>3. PICK h : h = o.path[4]
    OBVIOUS
  <1>4. Going(Q, o)
    <2>1. Len(Path(o.at)) = 3
      BY DEF Level, Entry, Path
    <2>2. Keeps(R, Q, h)
      BY <1>3
    <2> QED BY <1>1, <1>3, <2>1, <2>2, GoingKeeps
  <1>5. Going(Q, t)
    BY <1>4, GoingSame
  <1>6. Level(t) = 3 /\ Entry(t) = Entry(o) /\ Entry(o) = File[o.at[2]]
    BY DEF Level, Entry
  <1>7. Chain(Q, t.path, Path(t.at), 3)
    <2>1. Chain(Q, o.path, Path(o.at), 3)
      BY <1>1, KeepsChain
    <2> QED BY <2>1
  <1>8. Filling(Q, t)
    <2>1. PICK W \in SUBSET Leaf : W = Wanted(o.script, Entry(o))
      BY <1>2, <1>6, WantedType
    <2>2. Due(R, o, W, o.path[4], Range(o.clear), Range(o.write))
      BY <1>1, <2>1 DEF Filling
    <2>3. Due(Q, o, W, o.path[4], Range(t.clear), Range(t.write))
      BY <2>2
    <2>4. Due(Q, t, W, o.path[4], Range(t.clear), Range(t.write))
      BY <2>3 DEF Due, Replaces, Scope
    <2> QED BY <1>6, <2>1, <2>4 DEF Filling
  <1>9. PICK u : u = Onward(t)
    OBVIOUS
  <1>10. Sound(Q, u)
    BY <1>5, <1>6, <1>7, <1>8, <1>9, OnwardNext
  <1> QED BY <1>9, <1>10

LEMMA ClearSound ==
  ASSUME Rooted, Runs, NEW r \in Run, Sound(rows, run[r]), ClearKind(r)
  PROVE  Sound(rows', run'[r])
  <1>1. PICK o : /\ o = run[r] /\ o \in RunRecord /\ RunFits(o)
                 /\ o.pc = "fill" /\ o.clear # <<>>
    BY DEF Runs, ClearKind
  <1>2. /\ Level(o) = 3 /\ o.clear \in Seq(Leaf) /\ Distinct(o.clear) /\ Distinct(o.write)
        /\ <<o.script, o.mode>> \in Modes /\ ~ Careful(o) /\ Sound(rows, o)
    BY <1>1 DEF Sound, Filling, RunRecord, Going, Launched, RunFits
  <1>3. PICK i, k, c : i = o.path[4] /\ k = Head(o.clear) /\ c = Tail(o.clear)
    OBVIOUS
  <1>4. /\ k \in Range(o.clear) /\ Range(c) = Range(o.clear) \ {k} /\ Distinct(c)
        /\ c \in Seq(Leaf) /\ k \in Leaf /\ Range(o.clear) \in SUBSET Leaf
    <2>1. Range(o.clear) \in SUBSET Leaf
      BY <1>2 DEF Range
    <2> QED BY <1>1, <1>2, <1>3, <2>1, HeadTail
  <1>5. PICK S : S = {x.id : x \in Of(i, k)}
    OBVIOUS
  <1>6. Drop(S)
    <2>1. Here(o) = i
      BY <1>2, <1>3 DEF Here
    <2> QED BY <1>1, <1>3, <1>5, <2>1 DEF ClearKind
  <1>7. \A x \in rows : x.id \in S <=> x.up = i /\ x.kind = k
    BY <1>5 DEF Of, Kids, Rooted
  <1>8. rows' = {x \in rows : ~ (x.up = i /\ x.kind = k)}
    <2>1. \A x \in rows : x.up \notin S
      <3> SUFFICES ASSUME NEW x \in rows, x.up \in S PROVE FALSE
        OBVIOUS
      <3>1. PICK y \in rows : y.id = x.up /\ y.kind = k
        BY <1>5 DEF Of, Kids
      <3> QED BY <1>4, <3>1, ParentOf DEF Branch, Leaf
    <2>2. Below(S) = S
      BY <2>1 DEF Below
    <2>3. rows' = {x \in rows : x.id \notin S}
      BY <1>6, <2>2 DEF Drop
    <2> QED BY <1>7, <2>3
  <1>9. Keeps(rows, rows', o.path[4])
    BY <1>3, <1>4, <1>8 DEF Keeps, Branch, Leaf
  <1>10. PICK t : t = [o EXCEPT !.clear = c]
    OBVIOUS
  <1>11. /\ t \in RunRecord /\ t.path = o.path /\ t.at = o.at /\ t.visits = o.visits
         /\ t.script = o.script /\ t.mode = o.mode /\ t.clear = c /\ t.write = o.write
    BY <1>1, <1>4, <1>10 DEF RunRecord
  <1>12. ASSUME NEW W \in SUBSET Leaf,
                Due(rows, o, W, o.path[4], Range(o.clear), Range(o.write))
         PROVE  Due(rows', o, W, o.path[4], Range(t.clear), Range(t.write))
    <2>1. PICK Q, b, w : Q = rows' /\ b = Range(o.clear) /\ w = Range(o.write)
      OBVIOUS
    <2>2. Q = {x \in rows : ~ (x.up = i /\ x.kind = k)}
      BY <1>8, <2>1
    <2>3. Due(rows, o, W, i, b, w)
      BY <1>3, <1>12, <2>1
    <2>4. b \in SUBSET Leaf /\ k \in b
      BY <1>4, <2>1
    <2>5. Due(Q, o, W, i, b \ {k}, w)
      BY <1>2, <2>2, <2>3, <2>4, ClearDue
    <2> QED BY <1>3, <1>4, <1>11, <2>1, <2>5
  <1>13. Sane(rows) /\ Distinct(t.clear) /\ Distinct(t.write)
    BY <1>2, <1>4, <1>11, SaneRows
  <1>14. Sound(rows', Onward(t))
    BY <1>1, <1>2, <1>9, <1>11, <1>12, <1>13, FillSound
  <1>15. Goes(r, Onward(t))
    <2>1. t = [o EXCEPT !.clear = Tail(@)]
      BY <1>3, <1>10
    <2> QED BY <1>1, <2>1 DEF ClearKind
  <1> QED BY <1>14, <1>15, RunGoes

LEMMA WriteSound ==
  ASSUME Rooted, Runs, NEW r \in Run, Sound(rows, run[r]), WriteKind(r)
  PROVE  Sound(rows', run'[r])
  <1>1. PICK o : /\ o = run[r] /\ o \in RunRecord /\ RunFits(o)
                 /\ o.pc = "fill" /\ o.clear = <<>> /\ o.write # <<>>
    BY DEF Runs, WriteKind, RunFits
  <1>2. /\ Level(o) = 3 /\ o.write \in Seq(Leaf) /\ Distinct(o.clear) /\ Distinct(o.write)
        /\ Sound(rows, o)
    BY <1>1 DEF Sound, Filling, RunRecord, RunFits
  <1>3. CASE Fails(r)
    BY <1>3, EndedSound
  <1>4. CASE ~ Fails(r)
    <2>1. PICK i, k, w : i = o.path[4] /\ k = Head(o.write) /\ w = Tail(o.write)
      OBVIOUS
    <2>2. /\ k \in Range(o.write) /\ Range(w) = Range(o.write) \ {k} /\ Distinct(w)
          /\ w \in Seq(Leaf) /\ k \in Leaf
      BY <1>1, <1>2, <2>1, HeadTail
    <2>3. PICK t : t = [o EXCEPT !.write = w]
      OBVIOUS
    <2>4. Add(k, i, 0) /\ Goes(r, Onward(t))
      <3>1. Here(o) = i
        BY <1>2, <2>1 DEF Here
      <3>2. t = [o EXCEPT !.write = Tail(@)]
        BY <2>1, <2>3
      <3> QED BY <1>1, <1>4, <2>1, <3>1, <3>2 DEF WriteKind
    <2>5. PICK n : n = [id |-> next, kind |-> k, up |-> i, num |-> 0]
      OBVIOUS
    <2>6. rows' = rows \cup {n} /\ n.up = i /\ n.kind = k
      BY <2>4, <2>5 DEF Add
    <2>7. Keeps(rows, rows', o.path[4])
      BY <2>1, <2>2, <2>6 DEF Keeps, Branch, Leaf
    <2>8. /\ t \in RunRecord /\ t.path = o.path /\ t.at = o.at /\ t.visits = o.visits
          /\ t.script = o.script /\ t.mode = o.mode /\ t.clear = <<>> /\ t.write = w
      BY <1>1, <2>2, <2>3 DEF RunRecord
    <2>9. ASSUME NEW W \in SUBSET Leaf,
                 Due(rows, o, W, o.path[4], Range(o.clear), Range(o.write))
          PROVE  Due(rows', o, W, o.path[4], Range(t.clear), Range(t.write))
      <3>1. PICK Q, b : Q = rows' /\ b = Range(o.write)
        OBVIOUS
      <3>2. Range(o.clear) = {} /\ Range(t.clear) = {}
        BY <1>1, <2>8, KindsRange
      <3>3. Due(rows, o, W, i, {}, b)
        BY <2>1, <2>9, <3>1, <3>2
      <3>4. k \in b /\ Q = rows \cup {n}
        BY <2>2, <2>6, <3>1
      <3>5. Due(Q, o, W, i, {}, b \ {k})
        BY <2>6, <3>3, <3>4, WriteDue
      <3> QED BY <2>1, <2>2, <2>8, <3>1, <3>2, <3>5
    <2>10. Sane(rows) /\ Distinct(t.clear) /\ Distinct(t.write)
      BY <2>2, <2>8, SaneRows, KindsRange
    <2>11. Sound(rows', Onward(t))
      BY <1>1, <1>2, <2>7, <2>8, <2>9, <2>10, FillSound
    <2> QED BY <2>4, <2>11, RunGoes
  <1> QED BY <1>3, <1>4

(* What every run that is alone has done so far. *)
AtWork == \A r \in Run \cap alone : Sound(rows, run[r])

LEMMA AtWorkStep ==
  ASSUME TreeInv, AtWork, [CatalogueNext]_catalogueVars
  PROVE  AtWork'
  <1> SUFFICES ASSUME NEW q \in Run, q \in alone' PROVE Sound(rows', run'[q])
    BY DEF AtWork, Sound
  <1>1. Rooted /\ Runs
    BY DEF TreeInv
  <1>2. CASE StartRun(q)
    BY <1>1, <1>2, StartSound
  <1>3. CASE RunStep(q) /\ ~ StartRun(q)
    <2>1. q \in alone
      BY <1>3 DEF RunStep, FindRow, UpdateRow, CreateRow, CountContent, ClearKind,
                  WriteKind, KillRun, Disturb
    <2>2. Sound(rows, run[q])
      BY <2>1 DEF AtWork
    <2>3. CASE FindRow(q) \/ CountContent(q)
      <3>1. rows' = rows
        BY <2>3 DEF FindRow, CountContent
      <3> QED BY <1>1, <2>2, <2>3, <3>1, FindSound, CountSound
    <2>4. CASE UpdateRow(q) \/ CreateRow(q)
      BY <1>1, <2>2, <2>4, SaveSound
    <2>5. CASE ClearKind(q)
      BY <1>1, <2>2, <2>5, ClearSound
    <2>6. CASE WriteKind(q)
      BY <1>1, <2>2, <2>6, WriteSound
    <2>7. CASE KillRun(q)
      BY <1>1, <2>7, EndedSound DEF KillRun
    <2> QED BY <1>3, <2>3, <2>4, <2>5, <2>6, <2>7 DEF RunStep
  <1>4. CASE ~ RunStep(q)
    <2>1. run'[q] = run[q] /\ q \in alone /\ UNCHANGED rows
      BY <1>4, Undisturbed
    <2> QED BY <2>1 DEF AtWork
  <1> QED BY <1>2, <1>3, <1>4

LEMMA CompletesHere == TreeInv /\ AtWork => RunCompletes
  <1> SUFFICES ASSUME TreeInv, AtWork, NEW r \in Run, NEW me, me = run[r],
                      me.pc = "ended", me.ok, r \in alone,
                      NEW v \in me.visits, Len(File[v[2]].path) = 3
               PROVE  \E z \in Sections(File[v[2]].path) :
                        CASE me.mode = "missing" ->
                               \A k \in Wanted(me.script, File[v[2]]) :
                                  Cardinality(Of(z.id, k)) >= 1
                          [] me.mode = "force" ->
                               \A k \in Range(Kinds) :
                                  Cardinality(Of(z.id, k)) =
                                     IF k \in Wanted(me.script, File[v[2]]) THEN 1 ELSE 0
                          [] me.script = "notion" /\ me.mode = "default" ->
                               Cardinality(Of(z.id, "card")) = 1
                          [] OTHER -> Kids(z.id) # {} \/ Wanted(me.script, File[v[2]]) = {}
    BY DEF RunCompletes
  <1>1. PICK W : W = Wanted(me.script, File[v[2]])
    OBVIOUS
  <1>2. Finished(rows, me)
    BY DEF AtWork, Sound
  <1>3. /\ me.script \in {"seed", "courses", "notion"} /\ <<me.script, me.mode>> \in Modes
        /\ v[2] \in DOMAIN File
    BY <1>2, LaunchedType DEF Finished, Launched
  <1>4. PICK z \in rows : SectionAt(rows, Path(v), z) /\ Due(rows, me, W, z.id, {}, {})
    BY <1>1, <1>2 DEF Finished, Filled, Path
  <1>5. z \in Sections(File[v[2]].path)
    BY <1>4 DEF SectionAt, Path, Sections
  <1>6. PICK i : i = z.id
    OBVIOUS
  <1>7. W \in SUBSET Leaf /\ (me.script = "notion" => W = {"card"})
    BY <1>1, <1>3, WantedType DEF Wanted
  <1>8. ASSUME NEW k PROVE Of(i, k) = KidsIn(rows, i, k) /\ IsFiniteSet(Of(i, k))
    <2>1. Of(i, k) \subseteq rows
      BY DEF Of, Kids
    <2> QED BY <2>1, FS_Subset DEF Of, Kids, KidsIn, TreeInv, Rooted
  <1>9. ASSUME NEW k, Exactly(rows, i, k, W)
        PROVE  Cardinality(Of(i, k)) = IF k \in W THEN 1 ELSE 0
    BY <1>8, <1>9, FS_EmptySet, FS_Singleton DEF Exactly
  <1>10. Due(rows, me, W, i, {}, {})
    BY <1>4, <1>6
  <1>11. CASE me.mode = "missing"
    <2>1. ASSUME NEW k \in W PROVE Cardinality(Of(i, k)) >= 1
      <3>1. Of(i, k) # {} /\ IsFiniteSet(Of(i, k))
        BY <1>8, <1>10, <1>11 DEF Due
      <3>2. Cardinality(Of(i, k)) # 0 /\ Cardinality(Of(i, k)) \in Nat
        BY <3>1, FS_EmptySet, FS_CardinalityType
      <3> QED BY <3>2
    <2> QED BY <1>1, <1>5, <1>6, <1>11, <2>1
  <1>12. CASE me.mode = "force"
    <2>1. \A k \in Leaf : Exactly(rows, i, k, W)
      BY <1>10, <1>12 DEF Due, Replaces, Scope, Exactly
    <2>2. \A k \in Range(Kinds) : Cardinality(Of(i, k)) = IF k \in W THEN 1 ELSE 0
      BY <1>9, <2>1, KindsRange
    <2> QED BY <1>1, <1>5, <1>6, <1>12, <2>2
  <1>13. CASE me.script = "notion" /\ me.mode = "default"
    <2>1. Exactly(rows, i, "card", W)
      BY <1>10, <1>13 DEF Due, Replaces, Scope, Exactly
    <2>2. Cardinality(Of(i, "card")) = 1
      BY <1>7, <1>9, <1>13, <2>1
    <2> QED BY <1>5, <1>6, <1>13, <2>2
  <1>14. CASE me.mode # "missing" /\ ~ Replaces(me)
    <2>1. Kids(i) # {} \/ W = {}
      BY <1>10, <1>14 DEF Due, Kids
    <2>2. me.mode # "force" /\ ~ (me.script = "notion" /\ me.mode = "default")
      BY <1>14 DEF Replaces
    <2> QED BY <1>1, <1>5, <1>6, <1>14, <2>1, <2>2
  <1> QED BY <1>11, <1>12, <1>13, <1>14 DEF Replaces

(* A run that came to its end undisturbed has done what its mode promises, for
   every section of its files, whatever an earlier run that was killed, a double
   import or an editor left behind. *)
THEOREM RunCompletesHolds == CatalogueSpec => []RunCompletes
  <1>1. CatalogueInit => AtWork
    BY DEF CatalogueInit, ContentInit, AtWork
  <1>2. TreeInv /\ AtWork /\ [CatalogueNext]_catalogueVars => AtWork'
    BY AtWorkStep
  <1> QED BY <1>1, <1>2, CompletesHere, TreeInvHolds, PTL DEF CatalogueSpec

-----------------------------------------------------------------------------
(* The Idempotency-Key interceptor, with crashes, Redis faults and expiry. *)

(* A request under way knows its key and its body; an answer is its own. *)
Fits(q) == /\ q \in Request
           /\ q.pc # "idle" => q.key \in Key /\ q.body \in Body
           /\ q.answer \in {q.body, NoBody}

Stored == /\ cache \in [Key -> Body \cup {NoBody}]
          /\ age \in [Key -> 0..RetainHours]
          /\ lock \in [Key -> Req \cup {NoReq}]
          /\ runs \in [Key -> 0..2]

(* The INCR comes before the handler, so it counts every one admitted. *)
Counted == /\ quota \in 0..(MaxNewKeys + 1)
           /\ admitted \in Nat /\ admitted <= quota /\ admitted <= MaxNewKeys

RequestsFit == req \in [Req -> Request] /\ \A r \in Req : Fits(req[r])

Inv == Stored /\ Counted /\ RequestsFit

LEMMA IdleFits == Fits(Idle)
  BY DEF Fits, Idle, Request, Pc

LEMMA BecomeFits ==
  ASSUME RequestsFit, NEW r \in Req, NEW rec, Become(r, rec), Fits(rec)
  PROVE  RequestsFit'
  <1>1. rec \in Request
    BY DEF Fits
  <1> QED BY <1>1 DEF RequestsFit, Become

LEMMA GotoFits ==
  ASSUME RequestsFit, NEW r \in Req, ~ At(r, "idle"), NEW c \in Pc, Goto(r, c)
  PROVE  RequestsFit'
  <1>1. Fits([req[r] EXCEPT !.pc = c])
    BY DEF RequestsFit, Fits, Request, At
  <1> QED BY <1>1, BecomeFits DEF Goto

LEMMA ReplyFits ==
  ASSUME RequestsFit, NEW r \in Req, ~ At(r, "idle"),
         NEW a \in {req[r].body, NoBody}, Reply(r, a)
  PROVE  RequestsFit'
  <1>1. req[r] \in Request /\ req[r].key \in Key /\ req[r].body \in Body
    BY DEF RequestsFit, Fits, At
  <1>2. [req[r] EXCEPT !.pc = "reply", !.answer = a] \in Request
    BY <1>1 DEF Request, Pc
  <1>3. Fits([req[r] EXCEPT !.pc = "reply", !.answer = a])
    BY <1>1, <1>2 DEF Fits, Request
  <1> QED BY <1>3, BecomeFits DEF Reply

LEMMA ReplayFits ==
  ASSUME RequestsFit, NEW r \in Req, ~ At(r, "idle"), Replay(r)
  PROVE  RequestsFit'
  BY ReplyFits DEF Replay

-----------------------------------------------------------------------------
LEMMA InitInv == Init => Inv
  BY IdleFits, BoundAssumption DEF Init, Inv, Stored, Counted, RequestsFit, Fits

LEMMA StepInv == ASSUME Inv, NEW r \in Req, Step(r) PROVE Inv'
  <1> USE DEF Inv
  <1>a. Fits(req[r]) /\ req[r] \in Request
    BY DEF RequestsFit
  <1>b. ~ At(r, "idle")
    BY DEF Step, Lookup, Acquire, Poll, Quota, Handler, Store, Unlock, Return, At
  <1>c. req[r].key \in Key /\ req[r].body \in Body
    BY <1>a, <1>b DEF Fits, At
  <1>1. CASE Lookup(r)
    BY <1>1, <1>b, GotoFits, ReplayFits DEF Lookup, Stored, Counted, Pc
  <1>2. CASE Acquire(r)
    <2>1. RequestsFit'
      BY <1>2, <1>b, GotoFits DEF Acquire, Pc
    <2> QED BY <1>2, <1>c, <2>1 DEF Acquire, Stored, Counted
  <1>3. CASE Poll(r)
    <2>1. Fits([req[r] EXCEPT !.polls = @ + 1])
      BY <1>a, <1>c DEF Fits, Request
    <2>2. RequestsFit'
      BY <1>3, <1>b, <2>1, ReplayFits, ReplyFits, BecomeFits DEF Poll
    <2> QED BY <1>3, <2>2 DEF Poll, Stored, Counted
  <1>4. CASE Quota(r)
    <2>1. RequestsFit'
      BY <1>4, <1>b, GotoFits DEF Quota, Pc
    <2>2. Counted'
      BY <1>4, BoundAssumption DEF Quota, Counted
    <2> QED BY <1>4, <2>1, <2>2 DEF Quota, Stored
  <1>5. CASE Handler(r)
    <2>1. RequestsFit'
      BY <1>5, <1>b, GotoFits DEF Handler, Pc
    <2>2. runs' \in [Key -> 0..2]
      BY <1>5, <1>c DEF Handler, Stored
    <2> QED BY <1>5, <2>1, <2>2 DEF Handler, Stored, Counted
  <1>6. CASE Store(r)
    <2>1. [req[r] EXCEPT !.pc = "unlock", !.answer = req[r].body] \in Request
      BY <1>a, <1>c DEF Request, Pc
    <2>2. Fits([req[r] EXCEPT !.pc = "unlock", !.answer = req[r].body])
      BY <1>a, <1>c, <2>1 DEF Fits, Request
    <2>3. RequestsFit'
      BY <1>6, <1>b, <2>2, GotoFits, BecomeFits DEF Store, Pc
    <2>4. cache' \in [Key -> Body \cup {NoBody}] /\ age' \in [Key -> 0..RetainHours]
      BY <1>6, <1>c, BoundAssumption DEF Store, Stored
    <2> QED BY <1>6, <2>3, <2>4 DEF Store, Stored, Counted
  <1>7. CASE Unlock(r)
    <2>1. RequestsFit'
      BY <1>7, <1>b, GotoFits DEF Unlock, Pc
    <2> QED BY <1>7, <1>c, <2>1 DEF Unlock, Stored, Counted
  <1>8. CASE Return(r)
    BY <1>8, IdleFits, BecomeFits DEF Return, Stored, Counted
  <1> QED BY <1>1, <1>2, <1>3, <1>4, <1>5, <1>6, <1>7, <1>8 DEF Step

LEMMA ArrivalInv ==
  ASSUME Inv, NEW r \in Req,
         Crash(r) \/ \E k \in Key, b \in Body : Start(r, k, b)
  PROVE  Inv'
  <1> USE DEF Inv
  <1>1. CASE Crash(r)
    BY <1>1, IdleFits, BecomeFits DEF Crash, Stored, Counted
  <1>2. ASSUME NEW k \in Key, NEW b \in Body, Start(r, k, b) PROVE Inv'
    <2>1. Fits([Idle EXCEPT !.pc = "lookup", !.key = k, !.body = b])
      BY IdleFits DEF Fits, Idle, Request, Pc
    <2> QED BY <1>2, <2>1, BecomeFits DEF Start, Stored, Counted
  <1> QED BY <1>1, <1>2

LEMMA ExpiryInv ==
  ASSUME Inv, (\E k \in Key : ExpireLock(k) \/ ExpireResult(k)) \/ Hour \/ ExpireQuota
  PROVE  Inv'
  <1> USE DEF Inv
  <1>1. CASE \E k \in Key : ExpireLock(k)
    BY <1>1 DEF ExpireLock, Stored, Counted, RequestsFit
  <1>2. CASE \E k \in Key : ExpireResult(k)
    BY <1>2, BoundAssumption DEF ExpireResult, Stored, Counted, RequestsFit
  <1>3. CASE Hour
    <2>1. age' \in [Key -> 0..RetainHours]
      BY <1>3, BoundAssumption DEF Hour, Stored
    <2> QED BY <1>3, <2>1 DEF Hour, Stored, Counted, RequestsFit
  <1>4. CASE ExpireQuota
    BY <1>4, BoundAssumption DEF ExpireQuota, Stored, Counted, RequestsFit
  <1> QED BY <1>1, <1>2, <1>3, <1>4

LEMMA NextInv == Inv /\ [Next]_vars => Inv'
  <1> SUFFICES ASSUME Inv, [Next]_vars PROVE Inv'
    OBVIOUS
  <1>1. CASE UNCHANGED vars
    BY <1>1 DEF vars, Inv, Stored, Counted, RequestsFit
  <1> QED BY <1>1, StepInv, ArrivalInv, ExpiryInv DEF Next

THEOREM InvHolds == Spec => []Inv
  BY InitInv, NextInv, PTL DEF Spec

(* Every reachable state is well typed. *)
THEOREM TypeCorrect == Spec => []TypeOK
  <1>1. Inv => TypeOK
    BY DEF Inv, Stored, Counted, RequestsFit, TypeOK
  <1> QED BY <1>1, InvHolds, PTL

(* The hourly quota is never overrun, whatever the number of requests that
   count at once and of processes that crash in between. *)
THEOREM QuotaBoundHolds == Spec => []QuotaBound
  <1>1. Inv => QuotaBound
    BY DEF Inv, Counted, QuotaBound
  <1> QED BY <1>1, InvHolds, PTL

(* No replay and no poll hands a client the response to another body. *)
THEOREM AnswersOwnBodyHolds == Spec => []AnswersOwnBody
  <1>1. Inv => AnswersOwnBody
    BY DEF Inv, RequestsFit, Fits, AnswersOwnBody
  <1> QED BY <1>1, InvHolds, PTL

-----------------------------------------------------------------------------
(* While no handler outlives the lock, whoever is in the section set it. *)
Owned == \A r \in Req, k \in Key : InSection(r, k) => lock[k] = r

LEMMA OwnedExclusive == Owned => HandlersExclusive
  BY DEF Owned, HandlersExclusive

(* A request that moves without entering the section owns what it owned. *)
LEMMA OwnedKept ==
  ASSUME Inv, Owned, NEW r \in Req, NEW rec, Become(r, rec), lock' = lock,
         rec.pc \in {"quota", "handler", "store", "unlock"} =>
           /\ req[r].pc \in {"quota", "handler", "store", "unlock"}
           /\ rec.key = req[r].key
  PROVE  Owned'
  BY DEF Inv, RequestsFit, Become, Owned, InSection

LEMMA OwnedStep ==
  ASSUME ~ SlowHandlers, Inv, Owned, [Next]_vars
  PROVE  Owned'
  <1>1. CASE UNCHANGED vars
    BY <1>1 DEF vars, Owned, InSection
  <1>2. ASSUME NEW r \in Req, Step(r) PROVE Owned'
    <2>a. req[r] \in Request /\ req \in [Req -> Request] /\ lock \in [Key -> Req \cup {NoReq}]
      BY DEF Inv, RequestsFit, Stored
    <2>1. CASE Lookup(r) \/ Poll(r)
      BY <1>2, <2>a, <2>1, OwnedKept DEF Lookup, Poll, Replay, Reply, Goto, Request
    <2>2. CASE Quota(r) \/ Handler(r)
      BY <2>a, <2>2, OwnedKept DEF Quota, Handler, At, Goto, Request
    <2>3. CASE Store(r) \/ Return(r)
      BY <2>a, <2>3, OwnedKept DEF Store, Return, At, Goto, Idle, Request
    <2>4. CASE Acquire(r)
      <3>1. CASE lock[req[r].key] = NoReq
        <4>1. \A q \in Req : ~ InSection(q, req[r].key)
          BY <2>a, <2>4, <3>1, NullAssumption DEF Owned, InSection, Inv, RequestsFit, Fits
        <4>2. req[r].key \in Key
          BY <2>4 DEF Acquire, At, Inv, RequestsFit, Fits
        <4> QED BY <2>a, <2>4, <3>1, <4>1, <4>2 DEF Acquire, Goto, Become, Owned,
                InSection, Request
      <3>2. CASE lock[req[r].key] # NoReq
        BY <2>a, <2>4, <3>2, OwnedKept DEF Acquire, Goto, Request
      <3> QED BY <3>1, <3>2
    <2>5. CASE Unlock(r)
      <3>1. req[r].key \in Key /\ InSection(r, req[r].key) /\ lock[req[r].key] = r
        BY <2>5 DEF Unlock, At, InSection, Owned, Inv, RequestsFit, Fits
      <3>2. \A q \in Req \ {r} : ~ InSection(q, req[r].key)
        BY <3>1 DEF Owned
      <3>3. \A k \in Key : ~ InSection(r, k)'
        BY <2>a, <2>5 DEF Unlock, Goto, Become, InSection, Request
      <3>4. \A q \in Req \ {r}, k \in Key : InSection(q, k)' => InSection(q, k)
        BY <2>a, <2>5 DEF Unlock, Goto, Become, InSection
      <3>5. \A k \in Key \ {req[r].key} : lock'[k] = lock[k]
        BY <2>a, <2>5 DEF Unlock
      <3> QED BY <3>1, <3>2, <3>3, <3>4, <3>5 DEF Owned
    <2> QED BY <1>2, <2>1, <2>2, <2>3, <2>4, <2>5 DEF Step
  <1>3. ASSUME NEW r \in Req, Crash(r) \/ \E k \in Key, b \in Body : Start(r, k, b)
        PROVE  Owned'
    BY <1>3, OwnedKept DEF Crash, Start, Idle
  <1>4. ASSUME NEW k \in Key, ExpireLock(k) PROVE Owned'
    <2>1. \A r \in Req : ~ InSection(r, k)
      BY <1>4 DEF ExpireLock, Owned
    <2> QED BY <1>4, <2>1 DEF ExpireLock, Owned, InSection, Inv, Stored
  <1>5. CASE (\E k \in Key : ExpireResult(k)) \/ Hour \/ ExpireQuota
    BY <1>5 DEF ExpireResult, Hour, ExpireQuota, Owned, InSection
  <1> QED BY <1>1, <1>2, <1>3, <1>4, <1>5 DEF Next

(* With handlers that end within the lock's TTL, the lock is mutual exclusion
   for every number of requests, through crashes and failed releases. *)
THEOREM HandlersExclusiveHolds ==
  ASSUME ~ SlowHandlers
  PROVE  Spec => []HandlersExclusive
  <1>1. Init => Owned
    BY DEF Init, Owned, InSection, Idle
  <1>2. Inv /\ Owned /\ [Next]_vars => Owned'
    BY OwnedStep
  <1> QED BY <1>1, <1>2, InvHolds, OwnedExclusive, PTL DEF Spec
=============================================================================
