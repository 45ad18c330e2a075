--------------------------- MODULE AccountsProofs ---------------------------
(***************************************************************************)
(* Proofs about Accounts, for any requests, accounts, e-mails, identities, *)
(* plans and bounds: type correctness with the unique columns, one account *)
(* per identity, and that purchases which do not overlap are appended.     *)
(***************************************************************************)
EXTENDS Accounts, TLAPS

Types ==
    /\ user \in [Account -> User] /\ used \subseteq Account
    /\ token \in [Key -> Email \cup {NoEmail}]
    /\ req \in [Req -> Request]
    /\ clock \in 0..MaxTime /\ edits \in 0..MaxEdits
    /\ answered \in [Sub -> SUBSET Account]
    /\ due \in [Account -> Nat] /\ calm \subseteq Account

(* The unique columns, and an account's identity owns its e-mail. *)
Columns ==
    /\ \A a \in Account : Alive(a) => a \in used /\ user[a].sub \in {NoSub, Owner[user[a].email]}
    /\ \A a, b \in Account : Alive(a) /\ Alive(b) /\ a # b =>
         /\ user[a].email # user[b].email /\ user[a].name # user[b].name
         /\ user[a].sub # user[b].sub \/ user[a].sub = NoSub

(* What a request knows of the account it found or made, as long as it lives. *)
Knows(rq) ==
    /\ rq.sub # NoSub => rq.email \in Email /\ rq.sub = Owner[rq.email]
    /\ rq.pc \in {"name", "create", "exists", "byEmail"} => rq.email \in Email
    /\ rq.pc = "delToken" => rq.sub = NoSub
    /\ rq.pc = "byEmail" => rq.sub # NoSub
    /\ rq.pc \in {"link", "answer", "delToken", "delete", "pay"} => rq.acc \in used
    /\ rq.pc = "link" => /\ rq.sub # NoSub
                         /\ Alive(rq.acc) => user[rq.acc].email = rq.email
    /\ rq.pc = "answer" /\ rq.sub # NoSub =>
         (Alive(rq.acc) => user[rq.acc].sub = rq.sub)

Answered == \A s \in Sub : \A a \in answered[s] :
              a \in used /\ (Alive(a) => user[a].sub = s)

Inv == Types /\ Columns /\ (\A r \in Req : Knows(req[r])) /\ Answered

-----------------------------------------------------------------------------
(* The queries of the schema's unique columns. *)
LEMMA FindEmail ==
  ASSUME NEW e
  PROVE  /\ ByEmail(e) # NoAccount => /\ ByEmail(e) \in Account /\ Alive(ByEmail(e))
                                      /\ user[ByEmail(e)].email = e
         /\ ByEmail(e) = NoAccount => \A a \in Account : Alive(a) => user[a].email # e
BY AccountsAssumption DEF ByEmail, Find

LEMMA FindName ==
  ASSUME NEW n
  PROVE  ByName(n) = NoAccount => \A a \in Account : Alive(a) => user[a].name # n
BY AccountsAssumption DEF ByName, Find

LEMMA FindSub ==
  ASSUME NEW s
  PROVE  /\ BySub(s) # NoAccount => /\ BySub(s) \in Account /\ Alive(BySub(s))
                                    /\ user[BySub(s)].sub = s
         /\ BySub(s) = NoAccount => \A a \in Account : Alive(a) => user[a].sub # s
BY AccountsAssumption DEF BySub, Find

LEMMA InitInv == Init => Inv
BY AccountsAssumption
   DEF Init, Inv, Types, Columns, Knows, Answered, Alive, Gone, Idle, User, Request

-----------------------------------------------------------------------------
(* No step brings an account back, changes its e-mail, or takes its identity. *)
Grows ==
    /\ used \subseteq used'
    /\ \A a \in used : Alive(a)' =>
         /\ Alive(a) /\ user'[a].email = user[a].email
         /\ user'[a].sub = user[a].sub \/ user'[a].sub = Owner[user[a].email]

LEMMA Steady == ASSUME UNCHANGED rows PROVE Grows
BY DEF Grows, rows, Alive

LEMMA OneStep ==
  ASSUME Inv, Types', Columns', Grows, answered' = answered, NEW r \in Req,
         \A q \in Req \ {r} : req'[q] = req[q], Knows(req[r])'
  PROVE  Inv'
<1>1. ASSUME NEW q \in Req, q # r PROVE Knows(req[q])'
  <2>1. req'[q] = req[q] /\ Knows(req[q])  BY <1>1 DEF Inv
  <2>2. PICK rq : rq = req[q]  OBVIOUS
  <2>3. req[q].acc \in used =>
          /\ req[q].acc \in Account
          /\ user[req[q].acc].sub \in {NoSub, Owner[user[req[q].acc].email]} \/ ~ Alive(req[q].acc)
    BY DEF Inv, Types, Columns
  <2> QED  BY <2>1, <2>3 DEF Knows, Grows, Alive
<1>2. Answered'
  <2> SUFFICES ASSUME NEW s \in Sub, NEW a \in answered[s]
               PROVE  a \in used' /\ (Alive(a)' => user'[a].sub = s)
    BY DEF Answered
  <2>1. a \in used /\ (Alive(a) => user[a].sub = s) /\ s # NoSub
    BY AccountsAssumption DEF Inv, Answered
  <2>2. Alive(a) => user[a].sub \in {NoSub, Owner[user[a].email]}
    BY <2>1 DEF Inv, Columns, Types
  <2> QED  BY <2>1, <2>2 DEF Grows
<1> QED  BY <1>1, <1>2 DEF Inv

(* A request that only reads, or only moves on. *)
LEMMA Reads ==
  ASSUME Inv, UNCHANGED <<rows, answered>>, Types', NEW r \in Req,
         \A q \in Req \ {r} : req'[q] = req[q], Knows(req[r])'
  PROVE  Inv'
<1>1. Columns'  BY DEF Inv, Columns, rows, Alive
<1> QED  BY <1>1, Steady, OneStep

LEMMA IdleKnows == ASSUME NEW r \in Req, req'[r] = Idle PROVE Knows(req[r])'
BY AccountsAssumption DEF Knows, Idle

LEMMA Becomes ==
  ASSUME Types, NEW r \in Req, NEW rec \in Request, req' = [req EXCEPT ![r] = rec]
  PROVE  /\ req' \in [Req -> Request] /\ req'[r] = rec
         /\ \A q \in Req \ {r} : req'[q] = req[q]
BY DEF Types

LEMMA IdleType == Idle \in Request
BY DEF Idle, Request

-----------------------------------------------------------------------------
LEMMA GoogleInv ==
  ASSUME Inv, NEW r \in Req,
         (\E e \in Email : GoogleFind(r, e)) \/ GoogleEmail(r)
  PROVE  Inv'
<1> USE AccountsAssumption
<1>1. ASSUME NEW e \in Email, GoogleFind(r, e) PROVE Inv'
  <2> DEFINE a == BySub(Owner[e])
             rec == [Idle EXCEPT !.sub = Owner[e], !.email = e, !.acc = a,
                                 !.pc = IF a # NoAccount THEN "answer" ELSE "byEmail"]
  <2>1. a # NoAccount => /\ a \in Account /\ Alive(a) /\ user[a].sub = Owner[e]
    BY FindSub
  <2>2. Owner[e] \in Sub /\ Owner[e] # NoSub  OBVIOUS
  <2>3. rec \in Request /\ rec.sub = Owner[e] /\ rec.email = e /\ rec.acc = a
        /\ \/ a # NoAccount /\ rec.pc = "answer"
           \/ a = NoAccount /\ rec.pc = "byEmail"
    <3> HIDE DEF a
    <3>1. CASE a = NoAccount  BY <2>2, <3>1 DEF Idle, Request
    <3>2. CASE a # NoAccount  BY <2>1, <2>2, <3>2 DEF Idle, Request
    <3> QED  BY <3>1, <3>2
  <2>4. req' = [req EXCEPT ![r] = rec] /\ UNCHANGED <<rows, token, clock, edits, ghost>>
    BY <1>1 DEF GoogleFind, Become
  <2> HIDE DEF rec, a
  <2>5. /\ req' \in [Req -> Request] /\ req'[r] = rec
        /\ \A q \in Req \ {r} : req'[q] = req[q]
    BY <2>3, <2>4, Becomes DEF Inv
  <2>6. Types'  BY <2>4, <2>5 DEF Inv, Types, rows, ghost
  <2>7. a # NoAccount => a \in used  BY <2>1 DEF Inv, Columns
  <2>8. Knows(req[r])'
    BY <2>1, <2>2, <2>3, <2>4, <2>5, <2>7 DEF Knows, rows, Alive
  <2> QED  BY <2>4, <2>5, <2>6, <2>8, Reads DEF ghost
<1>2. CASE GoogleEmail(r)
  <2> DEFINE a == ByEmail(req[r].email)
             rec == [req[r] EXCEPT !.acc = a, !.pc = IF a # NoAccount THEN "link" ELSE "name"]
  <2>1. a # NoAccount => /\ a \in Account /\ Alive(a) /\ user[a].email = req[r].email
    BY FindEmail
  <2>2. /\ req[r] \in Request /\ req[r].sub # NoSub /\ req[r].email \in Email
        /\ req[r].sub = Owner[req[r].email]
    BY <1>2 DEF GoogleEmail, At, Inv, Types, Knows
  <2>3. rec \in Request /\ rec.sub = req[r].sub /\ rec.email = req[r].email /\ rec.acc = a
        /\ \/ a # NoAccount /\ rec.pc = "link"
           \/ a = NoAccount /\ rec.pc = "name"
    <3> HIDE DEF a
    <3>1. CASE a = NoAccount  BY <2>2, <3>1 DEF Request
    <3>2. CASE a # NoAccount  BY <2>1, <2>2, <3>2 DEF Request
    <3> QED  BY <3>1, <3>2
  <2>4. req' = [req EXCEPT ![r] = rec] /\ UNCHANGED <<rows, token, clock, edits, ghost>>
    BY <1>2 DEF GoogleEmail, Become
  <2> HIDE DEF rec, a
  <2>5. /\ req' \in [Req -> Request] /\ req'[r] = rec
        /\ \A q \in Req \ {r} : req'[q] = req[q]
    BY <2>3, <2>4, Becomes DEF Inv
  <2>6. Types'  BY <2>4, <2>5 DEF Inv, Types, rows, ghost
  <2>7. a # NoAccount => a \in used  BY <2>1 DEF Inv, Columns
  <2>8. Knows(req[r])'
    BY <2>1, <2>2, <2>3, <2>4, <2>5, <2>7 DEF Knows, rows, Alive
  <2> QED  BY <2>4, <2>5, <2>6, <2>8, Reads DEF ghost
<1> QED  BY <1>1, <1>2

(* The link writes the identity that owns the account's e-mail. *)
LEMMA LinkInv == ASSUME Inv, NEW r \in Req, GoogleLink(r) PROVE Inv'
<1> DEFINE a == req[r].acc
<1> USE AccountsAssumption
<1>0. /\ req[r] \in Request /\ req[r].sub # NoSub /\ req[r].email \in Email
      /\ req[r].sub = Owner[req[r].email] /\ a \in used /\ a \in Account
      /\ Alive(a) => user[a].email = req[r].email
  BY DEF GoogleLink, At, Inv, Types, Knows
<1>1. UNCHANGED <<used, token, clock, edits, ghost>>  BY DEF GoogleLink
<1>2. CASE Alive(a) /\ BySub(req[r].sub) \in {a, NoAccount}
  <2> DEFINE rec == [req[r] EXCEPT !.pc = "answer"]
  <2>1. user' = [user EXCEPT ![a].sub = req[r].sub] /\ req' = [req EXCEPT ![r] = rec]
    BY <1>2 DEF GoogleLink, Become
  <2>2. rec \in Request /\ rec.sub = req[r].sub /\ rec.email = req[r].email
        /\ rec.acc = a /\ rec.pc = "answer"
    BY <1>0 DEF Request
  <2> HIDE DEF rec
  <2>3. /\ req' \in [Req -> Request] /\ req'[r] = rec
        /\ \A q \in Req \ {r} : req'[q] = req[q]
    BY <2>1, <2>2, Becomes DEF Inv
  <2>4. /\ user' \in [Account -> User]
        /\ \A b \in Account \ {a} : user'[b] = user[b]
        /\ user'[a].sub = req[r].sub /\ user'[a].email = user[a].email
        /\ user'[a].name = user[a].name
    <3> DEFINE row == [user[a] EXCEPT !.sub = req[r].sub]
    <3>1. user \in [Account -> User] /\ a \in Account /\ req[r].sub \in Sub \cup {NoSub}
      BY <1>0 DEF Inv, Types, Request
    <3>2. /\ row \in User /\ row.sub = req[r].sub /\ row.email = user[a].email
          /\ row.name = user[a].name
      BY <3>1 DEF User
    <3>3. user' = [user EXCEPT ![a] = row]  BY <2>1
    <3> HIDE DEF row
    <3>4. user' \in [Account -> User]  BY <3>1, <3>2, <3>3
    <3>5. /\ user'[a] = row
          /\ \A b \in Account \ {a} : user'[b] = user[b]
      BY <3>1, <3>3
    <3> QED  BY <3>2, <3>4, <3>5
  <2>5. Types'  BY <1>1, <2>3, <2>4 DEF Inv, Types, ghost
  <2>6. \A b \in Account : Alive(b) /\ b # a => user[b].sub # req[r].sub
    BY <1>2, FindSub, <1>0 DEF Inv, Columns
  <2>7. Columns'
    BY <1>0, <1>1, <1>2, <2>4, <2>6 DEF Inv, Columns, Alive
  <2>8. Grows  BY <1>0, <1>1, <1>2, <2>4 DEF Grows, Alive, Inv, Types
  <2>9. Knows(req[r])'
    BY <1>0, <1>1, <2>2, <2>3, <2>4 DEF Knows
  <2> QED  BY <1>1, <2>3, <2>5, <2>7, <2>8, <2>9, OneStep DEF ghost
<1>3. CASE ~ (Alive(a) /\ BySub(req[r].sub) \in {a, NoAccount})
  <2>1. UNCHANGED user /\ req' = [req EXCEPT ![r] = Idle]
    BY <1>3 DEF GoogleLink, Finish, Become
  <2>2. /\ req' \in [Req -> Request] /\ req'[r] = Idle
        /\ \A q \in Req \ {r} : req'[q] = req[q]
    BY <2>1, IdleType, Becomes DEF Inv
  <2>3. Types'  BY <1>1, <2>1, <2>2 DEF Inv, Types, ghost
  <2> QED  BY <1>1, <2>1, <2>2, <2>3, IdleKnows, Reads DEF ghost, rows
<1> QED  BY <1>2, <1>3

-----------------------------------------------------------------------------
LEMMA SignupInv ==
  ASSUME Inv, NEW r \in Req, (\E k \in Key : SignupToken(r, k)) \/ SignupExists(r) \/ TryName(r)
  PROVE  Inv'
<1> USE AccountsAssumption
<1>1. ASSUME NEW k \in Key, SignupToken(r, k) PROVE Inv'
  <2> DEFINE rec == [Idle EXCEPT !.pc = "exists", !.key = k, !.email = token[k]]
  <2>1. token[k] \in Email  BY <1>1 DEF SignupToken, Inv, Types
  <2>2. rec \in Request /\ rec.pc = "exists" /\ rec.sub = NoSub /\ rec.email = token[k]
    BY <2>1 DEF Idle, Request
  <2>3. req' = [req EXCEPT ![r] = rec] /\ UNCHANGED <<rows, token, clock, edits, ghost>>
    BY <1>1 DEF SignupToken, Become
  <2> HIDE DEF rec
  <2>4. /\ req' \in [Req -> Request] /\ req'[r] = rec
        /\ \A q \in Req \ {r} : req'[q] = req[q]
    BY <2>2, <2>3, Becomes DEF Inv
  <2>5. Types'  BY <2>3, <2>4 DEF Inv, Types, rows, ghost
  <2>6. Knows(req[r])'  BY <2>1, <2>2, <2>4 DEF Knows
  <2> QED  BY <2>3, <2>4, <2>5, <2>6, Reads DEF ghost
<1>2. CASE SignupExists(r)
  <2>1. /\ req[r] \in Request /\ req[r].email \in Email
        /\ req[r].sub # NoSub => req[r].sub = Owner[req[r].email]
    BY <1>2 DEF SignupExists, At, Inv, Types, Knows
  <2>2. UNCHANGED <<rows, token, clock, edits, ghost>>  BY <1>2 DEF SignupExists
  <2>3. PICK rec \in Request :
          /\ req' = [req EXCEPT ![r] = rec]
          /\ rec = Idle \/ (rec.pc = "name" /\ rec.sub = req[r].sub /\ rec.email = req[r].email)
    <3>1. CASE req' = [req EXCEPT ![r] = Idle]  BY <3>1, IdleType
    <3>2. CASE req' = [req EXCEPT ![r] = [req[r] EXCEPT !.pc = "name"]]
      <4>1. [req[r] EXCEPT !.pc = "name"] \in Request  BY <2>1 DEF Request
      <4>2. /\ [req[r] EXCEPT !.pc = "name"].pc = "name"
            /\ [req[r] EXCEPT !.pc = "name"].sub = req[r].sub
            /\ [req[r] EXCEPT !.pc = "name"].email = req[r].email
        BY <2>1 DEF Request
      <4> QED  BY <3>2, <4>1, <4>2
    <3> QED  BY <1>2, <3>1, <3>2 DEF SignupExists, Finish, Become
  <2>4. /\ req' \in [Req -> Request] /\ req'[r] = rec
        /\ \A q \in Req \ {r} : req'[q] = req[q]
    BY <2>3, Becomes DEF Inv
  <2>5. Types'  BY <2>2, <2>4 DEF Inv, Types, rows, ghost
  <2>6. Knows(req[r])'  BY <2>1, <2>3, <2>4, IdleKnows DEF Knows
  <2> QED  BY <2>2, <2>4, <2>5, <2>6, Reads DEF ghost
<1>3. CASE TryName(r)
  <2>1. /\ req[r] \in Request /\ req[r].email \in Email
        /\ req[r].sub # NoSub => req[r].sub = Owner[req[r].email]
    BY <1>3 DEF TryName, At, Inv, Types, Knows
  <2>2. UNCHANGED <<rows, token, clock, edits, ghost>>  BY <1>3 DEF TryName
  <2>3. PICK rec \in Request :
          /\ req' = [req EXCEPT ![r] = rec]
          /\ rec.pc \in {"name", "create"}
          /\ rec.sub = req[r].sub /\ rec.email = req[r].email
    <3>0. req[r].n \in Nat /\ Name \subseteq Nat /\ MaxName + 1 \in Nat
      BY <2>1 DEF Request, Name
    <3>1. PICK n \in Nat, pc \in {"name", "create"} :
            req' = [req EXCEPT ![r] = [req[r] EXCEPT !.pc = pc, !.n = n]]
      <4>1. CASE req[r].sub # NoSub /\ ByName(req[r].n) # NoAccount
        <5>1. req' = [req EXCEPT ![r] = [req[r] EXCEPT !.n = req[r].n + 1]]
          BY <1>3, <2>1, <4>1 DEF TryName, Become, Request
        <5>2. [req[r] EXCEPT !.n = req[r].n + 1] = [req[r] EXCEPT !.pc = "name", !.n = req[r].n + 1]
          BY <1>3, <2>1 DEF TryName, At, Request
        <5>3. req[r].n + 1 \in Nat  BY <3>0
        <5>4. req' = [req EXCEPT ![r] = [req[r] EXCEPT !.pc = "name", !.n = req[r].n + 1]]
          BY <5>1, <5>2
        <5> QED  BY <5>3, <5>4
      <4>2. CASE ~ (req[r].sub # NoSub /\ ByName(req[r].n) # NoAccount)
        <5>1. PICK n \in CASE req[r].sub # NoSub -> {req[r].n}
                           [] \A n \in Name : ByName(n) # NoAccount -> {MaxName + 1}
                           [] OTHER -> {n \in Name : ByName(n) = NoAccount} :
                req' = [req EXCEPT ![r] = [req[r] EXCEPT !.pc = "create", !.n = n]]
          BY <1>3, <4>2 DEF TryName, Become
        <5>2. n \in Nat  BY <3>0, <5>1
        <5> QED  BY <5>1, <5>2
      <4> QED  BY <4>1, <4>2
    <3>2. [req[r] EXCEPT !.pc = pc, !.n = n] \in Request  BY <2>1, <3>1 DEF Request
    <3>3. /\ [req[r] EXCEPT !.pc = pc, !.n = n].pc = pc
          /\ [req[r] EXCEPT !.pc = pc, !.n = n].sub = req[r].sub
          /\ [req[r] EXCEPT !.pc = pc, !.n = n].email = req[r].email
      BY <2>1 DEF Request
    <3> QED  BY <3>1, <3>2, <3>3
  <2>4. /\ req' \in [Req -> Request] /\ req'[r] = rec
        /\ \A q \in Req \ {r} : req'[q] = req[q]
    BY <2>3, Becomes DEF Inv
  <2>5. Types'  BY <2>2, <2>4 DEF Inv, Types, rows, ghost
  <2>7. Knows(req[r])'  BY <2>1, <2>3, <2>4 DEF Knows
  <2> QED  BY <2>2, <2>4, <2>5, <2>7, Reads DEF ghost
<1> QED  BY <1>1, <1>2, <1>3

(* The unique columns decide at the insert. *)
LEMMA CreateInv == ASSUME Inv, NEW r \in Req, Create(r) PROVE Inv'
<1> USE AccountsAssumption
<1>0. /\ req[r] \in Request /\ req[r].email \in Email
      /\ req[r].sub # NoSub => req[r].sub = Owner[req[r].email]
      /\ UNCHANGED <<token, clock, edits, ghost>>
  BY DEF Create, At, Inv, Types, Knows
<1>1. CASE Finish(r) /\ UNCHANGED rows
  <2>1. /\ req' \in [Req -> Request] /\ req'[r] = Idle
        /\ \A q \in Req \ {r} : req'[q] = req[q]
    BY <1>1, IdleType, Becomes DEF Inv, Finish, Become
  <2>2. Types'  BY <1>0, <1>1, <2>1 DEF Inv, Types, rows, ghost
  <2> QED  BY <1>0, <1>1, <2>1, <2>2, IdleKnows, Reads DEF ghost
<1>2. CASE ~ (Finish(r) /\ UNCHANGED rows)
  <2>1. /\ ByEmail(req[r].email) = NoAccount /\ ByName(req[r].n) = NoAccount
        /\ req[r].sub # NoSub => BySub(req[r].sub) = NoAccount
    BY <1>2 DEF Create
  <2>2. \A b \in Account : Alive(b) =>
          /\ user[b].email # req[r].email /\ user[b].name # req[r].n
          /\ req[r].sub # NoSub => user[b].sub # req[r].sub
    BY <2>1, FindEmail, FindName, FindSub
  <2>3. PICK a \in Account \ used :
          /\ used' = used \cup {a}
          /\ user' = [user EXCEPT ![a] = [email |-> req[r].email, sub |-> req[r].sub,
                                          name |-> req[r].n, exp |-> 0]]
          /\ Become(r, [req[r] EXCEPT !.acc = a,
                          !.pc = IF req[r].sub = NoSub THEN "delToken" ELSE "answer"])
    BY <2>1, <1>2 DEF Create
  <2> DEFINE rec == [req[r] EXCEPT !.acc = a,
                       !.pc = IF req[r].sub = NoSub THEN "delToken" ELSE "answer"]
  <2>4. rec \in Request /\ rec.sub = req[r].sub /\ rec.email = req[r].email /\ rec.acc = a
        /\ \/ req[r].sub = NoSub /\ rec.pc = "delToken"
           \/ req[r].sub # NoSub /\ rec.pc = "answer"
    <3>1. CASE req[r].sub = NoSub  BY <1>0, <3>1 DEF Request
    <3>2. CASE req[r].sub # NoSub  BY <1>0, <3>2 DEF Request
    <3> QED  BY <3>1, <3>2
  <2>5. req' = [req EXCEPT ![r] = rec]  BY <2>3 DEF Become
  <2> HIDE DEF rec
  <2>6. /\ req' \in [Req -> Request] /\ req'[r] = rec
        /\ \A q \in Req \ {r} : req'[q] = req[q]
    BY <2>4, <2>5, Becomes DEF Inv
  <2>7. /\ user' \in [Account -> User]
        /\ \A b \in Account \ {a} : user'[b] = user[b]
        /\ user'[a].sub = req[r].sub /\ user'[a].email = req[r].email
        /\ user'[a].name = req[r].n
    BY <1>0, <2>3 DEF Inv, Types, User, Request
  <2>8. Types'  BY <1>0, <2>3, <2>6, <2>7 DEF Inv, Types, ghost
  <2>9. Columns'
    <3>1. \A b \in Account : Alive(b)' => b \in used' /\ user'[b].sub \in {NoSub, Owner[user'[b].email]}
      BY <1>0, <2>3, <2>7 DEF Inv, Columns, Alive
    <3>2. \A b, c \in Account : Alive(b)' /\ Alive(c)' /\ b # c =>
            /\ user'[b].email # user'[c].email /\ user'[b].name # user'[c].name
            /\ user'[b].sub # user'[c].sub \/ user'[b].sub = NoSub
      BY <1>0, <2>2, <2>7 DEF Inv, Columns, Alive
    <3> QED  BY <3>1, <3>2 DEF Columns, Alive
  <2>10. Grows  BY <2>3, <2>7 DEF Grows, Alive, Inv, Types
  <2>11. Knows(req[r])'  BY <1>0, <2>3, <2>4, <2>6, <2>7 DEF Knows
  <2> QED  BY <1>0, <2>6, <2>8, <2>9, <2>10, <2>11, OneStep DEF ghost
<1> QED  BY <1>1, <1>2

-----------------------------------------------------------------------------
LEMMA ToIdle ==
  ASSUME Inv, NEW r \in Req, Finish(r)
  PROVE  /\ req' \in [Req -> Request] /\ req'[r] = Idle /\ Knows(req[r])'
         /\ \A q \in Req \ {r} : req'[q] = req[q]
BY IdleType, IdleKnows, Becomes DEF Inv, Finish, Become

LEMMA AnswerInv == ASSUME Inv, NEW r \in Req, DelToken(r) \/ Answer(r) PROVE Inv'
<1> USE AccountsAssumption
<1>1. CASE DelToken(r)
  <2> DEFINE rec == [req[r] EXCEPT !.pc = "answer"]
  <2>1. req[r] \in Request /\ req[r].sub = NoSub /\ req[r].acc \in used
    BY <1>1 DEF DelToken, At, Inv, Types, Knows
  <2>2. rec \in Request /\ rec.sub = NoSub /\ rec.acc \in used /\ rec.pc = "answer"
    BY <2>1 DEF Request
  <2>3. req' = [req EXCEPT ![r] = rec] /\ UNCHANGED <<rows, clock, edits, ghost>>
    BY <1>1 DEF DelToken, Become
  <2> HIDE DEF rec
  <2>4. /\ req' \in [Req -> Request] /\ req'[r] = rec
        /\ \A q \in Req \ {r} : req'[q] = req[q]
    BY <2>2, <2>3, Becomes DEF Inv
  <2>5. token' \in [Key -> Email \cup {NoEmail}]  BY <1>1 DEF DelToken, Inv, Types
  <2>6. Types'  BY <2>3, <2>4, <2>5 DEF Inv, Types, rows, ghost
  <2>7. Knows(req[r])'  BY <2>2, <2>3, <2>4 DEF Knows, rows
  <2> QED  BY <2>3, <2>4, <2>6, <2>7, Reads DEF ghost
<1>2. CASE Answer(r)
  <2>1. /\ req' \in [Req -> Request] /\ Knows(req[r])'
        /\ \A q \in Req \ {r} : req'[q] = req[q]
    BY <1>2, ToIdle DEF Answer
  <2>2. UNCHANGED <<rows, token, clock, edits, due, calm>>  BY <1>2 DEF Answer
  <2>3. /\ req[r].acc \in used /\ req[r].acc \in Account
        /\ req[r].sub # NoSub => (Alive(req[r].acc) => user[req[r].acc].sub = req[r].sub)
    BY <1>2 DEF Answer, At, Inv, Types, Knows
  <2>4. \A s \in Sub : /\ answered'[s] \subseteq answered[s] \cup {req[r].acc}
                       /\ s # req[r].sub => answered'[s] = answered[s]
    BY <1>2 DEF Answer
  <2>5. answered' \in [Sub -> SUBSET Account]
    BY <1>2, <2>3 DEF Answer, Inv, Types
  <2>6. Types'  BY <2>1, <2>2, <2>5 DEF Inv, Types, rows
  <2>7. Columns'  BY <2>2 DEF Inv, Columns, rows, Alive
  <2>8. Answered'
    <3> SUFFICES ASSUME NEW s \in Sub, NEW a, a \in answered'[s]
                 PROVE  a \in used /\ (Alive(a) => user[a].sub = s)
      BY <2>2 DEF Answered, rows, Alive
    <3>1. CASE a \in answered[s]  BY <3>1 DEF Inv, Answered
    <3>2. CASE a \notin answered[s]
      <4>1. a = req[r].acc /\ s = req[r].sub /\ s # NoSub  BY <3>2, <2>4
      <4> QED  BY <4>1, <2>3
    <3> QED  BY <3>1, <3>2
  <2>9. ASSUME NEW q \in Req PROVE Knows(req[q])'
    <3>1. CASE q = r  BY <3>1, <2>1
    <3>2. CASE q # r
      <4>1. Knows(req[q]) /\ req'[q] = req[q]  BY <3>2, <2>1 DEF Inv
      <4> QED  BY <4>1, <2>2 DEF Knows, rows, Alive
    <3> QED  BY <3>1, <3>2
  <2> QED  BY <2>6, <2>7, <2>8, <2>9 DEF Inv
<1> QED  BY <1>1, <1>2

(* Steps on a row alone, or on a column no identity depends on. *)
LEMMA RowInv ==
  ASSUME Inv,
         \/ \E k \in Key : ExpireToken(k) \/ \E e \in Email : Verify(k, e)
         \/ \E a \in Account, n \in Name : Rename(a, n)
         \/ Tick
  PROVE  Inv'
<1> USE AccountsAssumption
<1>1. ASSUME NEW k \in Key, ExpireToken(k) \/ \E e \in Email : Verify(k, e) PROVE Inv'
  <2>1. UNCHANGED <<rows, req, clock, edits, ghost>>  BY <1>1 DEF ExpireToken, Verify
  <2>2. token' \in [Key -> Email \cup {NoEmail}]
    BY <1>1 DEF ExpireToken, Verify, Inv, Types
  <2>3. Types'  BY <2>1, <2>2 DEF Inv, Types, rows, ghost
  <2> QED  BY <2>1, <2>3 DEF Inv, Columns, Knows, Answered, Alive, rows, ghost
<1>2. ASSUME NEW a \in Account, NEW n \in Name, Rename(a, n) PROVE Inv'
  <2>0. n \in Nat  BY DEF Name
  <2>1. /\ UNCHANGED <<used, token, req, clock, ghost>> /\ Alive(a)
        /\ user' = [user EXCEPT ![a].name = n]
        /\ \A b \in Account : Alive(b) => user[b].name # n
    BY <1>2, FindName DEF Rename
  <2>2. edits' \in 0..MaxEdits  BY <1>2 DEF Rename, Inv, Types
  <2>3. /\ user' \in [Account -> User]
        /\ \A b \in Account \ {a} : user'[b] = user[b]
        /\ user'[a].sub = user[a].sub /\ user'[a].email = user[a].email /\ user'[a].name = n
    BY <2>0, <2>1 DEF Inv, Types, User
  <2>4. Types'  BY <2>1, <2>2, <2>3 DEF Inv, Types, ghost
  <2>5. \A b \in Account : (Alive(b)' <=> Alive(b)) /\ user'[b].sub = user[b].sub
                                                   /\ user'[b].email = user[b].email
    BY <2>3 DEF Alive
  <2>6. Columns'  BY <2>1, <2>3, <2>5 DEF Inv, Columns, Alive
  <2>7. \A q \in Req : Knows(req[q])'
    <3> SUFFICES ASSUME NEW q \in Req PROVE Knows(req[q])'  OBVIOUS
    <3>1. Knows(req[q]) /\ req'[q] = req[q] /\ req[q].acc \in Account \cup {NoAccount}
      BY <2>1 DEF Inv, Types, Request
    <3>2. used' = used /\ NoAccount \notin used  BY <2>1 DEF Inv, Types
    <3> QED  BY <3>1, <3>2, <2>5 DEF Knows, Alive
  <2>8. Answered'  BY <2>1, <2>5 DEF Inv, Types, Answered, ghost, Alive
  <2> QED  BY <2>4, <2>6, <2>7, <2>8 DEF Inv
<1>3. CASE Tick
  <2>1. UNCHANGED <<rows, token, req, edits, ghost>>  BY <1>3 DEF Tick
  <2>2. clock' \in 0..MaxTime  BY <1>3 DEF Tick, Inv, Types
  <2>3. Types'  BY <2>1, <2>2 DEF Inv, Types, rows, ghost
  <2> QED  BY <2>1, <2>3 DEF Inv, Columns, Knows, Answered, Alive, rows, ghost
<1> QED  BY <1>1, <1>2, <1>3

-----------------------------------------------------------------------------
LEMMA PayingType == \A a : Paying(a) \subseteq Req
BY DEF Paying

LEMMA LaterType == \A a, b \in Nat : Later(a, b) \in Nat
BY DEF Later

(* Deletion, purchase, and a process that stops. *)
LEMMA EditInv ==
  ASSUME Inv, NEW r \in Req,
         \/ \E a \in Account : StartDelete(r, a)
         \/ \E a \in Account, m \in Months \cup {0} : StartSubscribe(r, a, m)
         \/ DeleteRow(r) \/ Pay(r) \/ Crash(r)
  PROVE  Inv'
<1> USE AccountsAssumption
<1>1. ASSUME NEW a \in Account, StartDelete(r, a) PROVE Inv'
  <2> DEFINE rec == [Idle EXCEPT !.pc = "delete", !.acc = a]
  <2>1. a \in used  BY <1>1 DEF StartDelete, Inv, Columns
  <2>2. rec \in Request /\ rec.pc = "delete" /\ rec.acc = a /\ rec.sub = NoSub
    BY DEF Idle, Request
  <2>3. req' = [req EXCEPT ![r] = rec] /\ UNCHANGED <<rows, token, clock, ghost>>
    BY <1>1 DEF StartDelete, Become
  <2>4. edits' \in 0..MaxEdits
    <3>1. edits \in 0..MaxEdits /\ edits < MaxEdits /\ edits' = edits + 1
      BY <1>1 DEF StartDelete, Inv, Types
    <3> QED  BY <3>1
  <2> HIDE DEF rec
  <2>5. /\ req' \in [Req -> Request] /\ req'[r] = rec
        /\ \A q \in Req \ {r} : req'[q] = req[q]
    BY <2>2, <2>3, Becomes DEF Inv
  <2>6. Types'  BY <2>3, <2>4, <2>5 DEF Inv, Types, rows, ghost
  <2>7. Knows(req[r])'  BY <2>1, <2>2, <2>3, <2>5 DEF Knows, rows
  <2> QED  BY <2>3, <2>5, <2>6, <2>7, Reads DEF ghost
<1>2. ASSUME NEW a \in Account, NEW m \in Months \cup {0}, StartSubscribe(r, a, m) PROVE Inv'
  <2>1. /\ a \in used /\ user[a].exp \in Nat /\ clock \in Nat /\ m \in Nat
        /\ due \in [Account -> Nat]
    <3>1. Alive(a) /\ user[a] \in User /\ clock \in 0..MaxTime
      BY <1>2 DEF StartSubscribe, Inv, Types
    <3>2. clock \in Nat /\ m \in Nat  BY <3>1
    <3> QED  BY <3>1, <3>2 DEF Inv, Types, Columns, User
  <2>2. Later(user[a].exp, clock) \in Nat /\ Later(due[a], clock) \in Nat
    BY <2>1, LaterType
  <2>3. PICK n \in Nat : req' = [req EXCEPT ![r] = [Idle EXCEPT !.pc = "pay", !.acc = a, !.n = n]]
    <3>1. (IF m = 0 THEN 0 ELSE Later(user[a].exp, clock) + m) \in Nat  BY <2>1, <2>2
    <3> QED  BY <1>2, <3>1 DEF StartSubscribe, Become
  <2> DEFINE rec == [Idle EXCEPT !.pc = "pay", !.acc = a, !.n = n]
  <2>4. rec \in Request /\ rec.pc = "pay" /\ rec.acc = a /\ rec.sub = NoSub
    BY DEF Idle, Request
  <2>5. req' = [req EXCEPT ![r] = rec]  BY <2>3
  <2> HIDE DEF rec
  <2>6. /\ req' \in [Req -> Request] /\ req'[r] = rec
        /\ \A q \in Req \ {r} : req'[q] = req[q]
    BY <2>4, <2>5, Becomes DEF Inv
  <2>7. due' \in [Account -> Nat]
    <3>1. PICK d \in Nat : due' = [due EXCEPT ![a] = d]
      <4>1. (IF m = 0 THEN 0 ELSE Later(due[a], clock) + m) \in Nat  BY <2>1, <2>2
      <4> QED  BY <1>2, <4>1 DEF StartSubscribe
    <3> QED  BY <2>1, <3>1
  <2>8. /\ edits' \in 0..MaxEdits /\ calm' \subseteq Account
        /\ UNCHANGED <<rows, token, clock, answered>>
    <3>1. edits \in 0..MaxEdits /\ edits < MaxEdits /\ edits' = edits + 1
      BY <1>2 DEF StartSubscribe, Inv, Types
    <3>2. edits' \in 0..MaxEdits  BY <3>1
    <3>3. calm' \subseteq calm  BY <1>2 DEF StartSubscribe
    <3> QED  BY <1>2, <3>2, <3>3 DEF StartSubscribe, Inv, Types
  <2>9. Types'  BY <2>6, <2>7, <2>8 DEF Inv, Types, rows
  <2>10. Knows(req[r])'  BY <2>1, <2>4, <2>6, <2>8 DEF Knows, rows
  <2> QED  BY <2>6, <2>8, <2>9, <2>10, Reads
<1>3. CASE DeleteRow(r)
  <2>1. /\ req' \in [Req -> Request] /\ Knows(req[r])'
        /\ \A q \in Req \ {r} : req'[q] = req[q]
    BY <1>3, ToIdle DEF DeleteRow
  <2>2. /\ UNCHANGED <<used, token, clock, edits, ghost>>
        /\ user' = [user EXCEPT ![req[r].acc] = Gone]
    BY <1>3 DEF DeleteRow
  <2>3. /\ user' \in [Account -> User]
        /\ \A b \in Account : user'[b] = user[b] \/ user'[b] = Gone
    BY <2>2 DEF Inv, Types, User, Gone
  <2>4. \A b \in Account : Alive(b)' => Alive(b) /\ user'[b] = user[b]
    BY <2>3 DEF Alive, Gone
  <2>5. Types'  BY <2>1, <2>2, <2>3 DEF Inv, Types, ghost
  <2>6. Columns'  BY <2>2, <2>4 DEF Inv, Columns
  <2>7. Grows  BY <2>2, <2>4 DEF Grows, Inv, Types
  <2> QED  BY <2>1, <2>2, <2>5, <2>6, <2>7, OneStep DEF ghost
<1>4. CASE Pay(r)
  <2>1. /\ req' \in [Req -> Request] /\ Knows(req[r])'
        /\ \A q \in Req \ {r} : req'[q] = req[q]
    BY <1>4, ToIdle DEF Pay
  <2>2. UNCHANGED <<used, token, clock, edits, ghost>>  BY <1>4 DEF Pay
  <2>3. /\ user' \in [Account -> User]
        /\ \A b \in Account : /\ user'[b].email = user[b].email /\ user'[b].sub = user[b].sub
                              /\ user'[b].name = user[b].name
    <3>1. req[r].n \in Nat  BY DEF Inv, Types, Request
    <3>2. CASE Alive(req[r].acc)
      <4>1. user' = [user EXCEPT ![req[r].acc].exp = req[r].n]  BY <1>4, <3>2 DEF Pay
      <4>2. user \in [Account -> User]  BY DEF Inv, Types
      <4> DEFINE a == req[r].acc
                 row == [user[a] EXCEPT !.exp = req[r].n]
      <4>3. user' = [user EXCEPT ![a] = row]  BY <4>1
      <4>4. ASSUME a \in Account
            PROVE  /\ row \in User /\ row.email = user[a].email
                   /\ row.sub = user[a].sub /\ row.name = user[a].name
        BY <3>1, <4>2, <4>4 DEF User
      <4> HIDE DEF a, row
      <4>5. CASE a \in Account
        <5>1. \A b \in Account : user'[b] = IF b = a THEN row ELSE user[b]
          BY <4>2, <4>3, <4>5
        <5>2. user' \in [Account -> User]  BY <4>2, <4>3, <4>4, <4>5
        <5> QED  BY <4>4, <4>5, <5>1, <5>2
      <4>6. CASE a \notin Account
        <5>1. \A b \in Account : user'[b] = user[b]  BY <4>2, <4>3, <4>6
        <5>2. user' \in [Account -> User]  BY <4>2, <4>3, <4>6
        <5> QED  BY <5>1, <5>2
      <4> QED  BY <4>5, <4>6
    <3>3. CASE ~ Alive(req[r].acc)  BY <1>4, <3>3 DEF Pay, Inv, Types
    <3> QED  BY <3>2, <3>3
  <2>4. Types'  BY <2>1, <2>2, <2>3 DEF Inv, Types, ghost
  <2>5. Columns'  BY <2>2, <2>3 DEF Inv, Columns, Alive
  <2>6. Grows  BY <2>2, <2>3 DEF Grows, Alive, Inv, Types
  <2> QED  BY <2>1, <2>2, <2>4, <2>5, <2>6, OneStep DEF ghost
<1>5. CASE Crash(r)
  <2>1. /\ req' \in [Req -> Request] /\ Knows(req[r])'
        /\ \A q \in Req \ {r} : req'[q] = req[q]
    BY <1>5, ToIdle DEF Crash
  <2>2. UNCHANGED <<rows, token, clock, edits, answered, due>> /\ calm' \subseteq calm
    BY <1>5 DEF Crash
  <2>3. Types'  BY <2>1, <2>2 DEF Inv, Types, rows
  <2> QED  BY <2>1, <2>2, <2>3, Reads
<1> QED  BY <1>1, <1>2, <1>3, <1>4, <1>5

LEMMA NextInv == Inv /\ [Next]_vars => Inv'
<1> SUFFICES ASSUME Inv, [Next]_vars PROVE Inv'  OBVIOUS
<1>1. ASSUME NEW r \in Req, Step(r) PROVE Inv'
  BY <1>1, GoogleInv, LinkInv, SignupInv, CreateInv, AnswerInv, EditInv DEF Step
<1>2. CASE UNCHANGED vars
  BY <1>2 DEF vars, Inv, Types, Columns, Knows, Answered, Alive, rows, ghost
<1> QED  BY <1>1, <1>2, GoogleInv, SignupInv, EditInv, RowInv DEF Next

LEMMA InvHolds == Spec => []Inv
BY InitInv, NextInv, PTL DEF Spec

-----------------------------------------------------------------------------
(* Every variable keeps its type, and the columns email, username and social
   identity stay unique whatever requests overlap. *)
THEOREM TypeCorrect == Spec => []TypeOK
<1>1. Inv => TypeOK  BY DEF Inv, Types, Columns, TypeOK
<1> QED  BY InvHolds, <1>1, PTL

(* Of the accounts a Google identity was signed in to at most one exists
   (googleAuth: find, link or create). *)
THEOREM OneAccountHolds == Spec => []OneAccountPerIdentity
<1>1. Inv => OneAccountPerIdentity
  <2> SUFFICES ASSUME Inv, NEW s \in Sub, NEW a \in answered[s], NEW b \in answered[s],
                      Alive(a), Alive(b)
               PROVE  a = b
    BY DEF OneAccountPerIdentity
  <2>1. a \in Account /\ b \in Account /\ user[a].sub = s /\ user[b].sub = s /\ s # NoSub
    BY AccountsAssumption DEF Inv, Types, Answered
  <2> QED  BY <2>1 DEF Inv, Columns
<1> QED  BY InvHolds, <1>1, PTL

-----------------------------------------------------------------------------
(* While one purchase is under way it carries the expiry that is due, and
   otherwise the row does; an account not yet made owes nothing. *)
Periods ==
    \A a \in Account :
      /\ a \notin used => due[a] = 0
      /\ a \in calm => /\ \A q, r \in Paying(a) : q = r
                       /\ \A r \in Paying(a) : req[r].n = due[a]
                       /\ Alive(a) /\ Paying(a) = {} => user[a].exp = due[a]

LEMMA PeriodsInit == Init => Periods
BY AccountsAssumption DEF Init, Periods, Paying, At, Idle, Alive, Gone

(* A step that neither begins nor ends a purchase. *)
LEMMA NoPurchase ==
  ASSUME Inv, Periods, due' = due, calm' \subseteq calm, used \subseteq used',
         \A a \in Account : Paying(a)' = Paying(a),
         \A r \in Req : req[r].pc = "pay" => req'[r] = req[r],
         \A a \in Account : Alive(a)' => \/ Alive(a) /\ user'[a].exp = user[a].exp
                                         \/ a \notin used /\ user'[a].exp = 0
  PROVE  Periods'
<1> SUFFICES ASSUME NEW a \in Account
             PROVE  /\ a \notin used' => due[a] = 0
                    /\ a \in calm' =>
                         /\ \A q, r \in Paying(a) : q = r
                         /\ \A r \in Paying(a) : req'[r].n = due[a]
                         /\ Alive(a)' /\ Paying(a) = {} => user'[a].exp = due[a]
  BY DEF Periods
<1>1. \A r \in Paying(a) : req'[r] = req[r]  BY DEF Paying, At
<1>2. a \notin used' => due[a] = 0  BY DEF Periods
<1>3. a \in calm' => /\ \A q, r \in Paying(a) : q = r
                     /\ \A r \in Paying(a) : req[r].n = due[a]
                     /\ Alive(a) /\ Paying(a) = {} => user[a].exp = due[a]
  BY DEF Periods
<1>4. a \in calm' => \A r \in Paying(a) : req'[r].n = due[a]  BY <1>1, <1>3
<1>5. a \in calm' /\ Alive(a)' /\ Paying(a) = {} => user'[a].exp = due[a]
  <2>1. CASE Alive(a) /\ user'[a].exp = user[a].exp  BY <1>3, <2>1
  <2>2. CASE a \notin used /\ user'[a].exp = 0  BY <2>2 DEF Periods
  <2> QED  BY <2>1, <2>2
<1> QED  BY <1>2, <1>3, <1>4, <1>5

LEMMA PayingSame ==
  ASSUME NEW r \in Req, \A q \in Req \ {r} : req'[q] = req[q],
         req[r].pc # "pay", req'[r].pc # "pay"
  PROVE  /\ \A a \in Account : Paying(a)' = Paying(a)
         /\ \A q \in Req : req[q].pc = "pay" => req'[q] = req[q]
BY DEF Paying, At

(* A request at any other call than the purchase's. *)
Elsewhere(r) ==
    /\ \A q \in Req \ {r} : req'[q] = req[q]
    /\ req[r].pc # "pay" /\ req'[r].pc # "pay"

LEMMA Moves ==
  ASSUME Inv, NEW r \in Req, NEW rec, req' = [req EXCEPT ![r] = rec],
         req[r].pc # "pay", rec.pc # "pay"
  PROVE  Elsewhere(r)
BY DEF Inv, Types, Elsewhere

LEMMA OtherCalls ==
  ASSUME Inv, NEW r \in Req,
         \/ \E e \in Email : GoogleFind(r, e)
         \/ \E k \in Key : SignupToken(r, k)
         \/ \E a \in Account : StartDelete(r, a)
         \/ GoogleEmail(r) \/ GoogleLink(r) \/ SignupExists(r) \/ TryName(r)
         \/ Create(r) \/ DelToken(r) \/ Answer(r) \/ DeleteRow(r)
  PROVE  Elsewhere(r)
<1>0. req[r] \in Request /\ Idle \in Request /\ Idle.pc = "idle"
  BY IdleType DEF Inv, Types, Idle
<1>1. ASSUME NEW pc \in {"link", "answer", "name", "create", "byEmail", "exists", "delete", "delToken"}
      PROVE  \A rec \in Request : \A x :
                  /\ [rec EXCEPT !.pc = pc].pc # "pay"
                  /\ [rec EXCEPT !.acc = x, !.pc = pc].pc # "pay"
                  /\ [rec EXCEPT !.pc = pc, !.acc = x].pc # "pay"
                  /\ [rec EXCEPT !.pc = pc, !.n = x].pc # "pay"
  BY DEF Request
<1>2. ASSUME NEW e \in Email, GoogleFind(r, e) PROVE Elsewhere(r)
  <2> DEFINE a == BySub(Owner[e])
             pc == IF a # NoAccount THEN "answer" ELSE "byEmail"
  <2>1. pc \in {"answer", "byEmail"}  OBVIOUS
  <2>2. req' = [req EXCEPT ![r] = [Idle EXCEPT !.sub = Owner[e], !.email = e, !.acc = a, !.pc = pc]]
    BY <1>2 DEF GoogleFind, Become
  <2> HIDE DEF pc, a
  <2>3. [Idle EXCEPT !.sub = Owner[e], !.email = e, !.acc = a, !.pc = pc].pc = pc  BY DEF Idle
  <2>4. pc # "pay" /\ req[r].pc # "pay"  BY <1>2, <2>1 DEF GoogleFind, At
  <2> QED  BY <2>2, <2>3, <2>4, Moves
<1>3. ASSUME NEW k \in Key, SignupToken(r, k) PROVE Elsewhere(r)
  <2>1. [Idle EXCEPT !.pc = "exists", !.key = k, !.email = token[k]].pc = "exists"  BY DEF Idle
  <2>2. /\ req' = [req EXCEPT ![r] = [Idle EXCEPT !.pc = "exists", !.key = k, !.email = token[k]]]
        /\ req[r].pc # "pay"
    BY <1>3 DEF SignupToken, At, Become
  <2> QED  BY <2>1, <2>2, Moves
<1>4. ASSUME NEW a \in Account, StartDelete(r, a) PROVE Elsewhere(r)
  BY <1>0, <1>1, <1>4, Moves DEF StartDelete, At, Become
<1>5. CASE GoogleEmail(r)
  <2> DEFINE a == ByEmail(req[r].email)
             pc == IF a # NoAccount THEN "link" ELSE "name"
  <2>1. pc \in {"link", "name"}  OBVIOUS
  <2>2. req' = [req EXCEPT ![r] = [req[r] EXCEPT !.acc = a, !.pc = pc]]
    BY <1>5 DEF GoogleEmail, Become
  <2> HIDE DEF pc, a
  <2> QED  BY <1>0, <1>1, <1>5, <2>1, <2>2, Moves DEF GoogleEmail, At
<1>6. CASE GoogleLink(r)
  BY <1>0, <1>1, <1>6, Moves DEF GoogleLink, At, Become, Finish
<1>7. CASE SignupExists(r)
  BY <1>0, <1>1, <1>7, Moves DEF SignupExists, At, Become, Finish
<1>8. CASE TryName(r)
  <2>1. CASE req' = [req EXCEPT ![r] = [req[r] EXCEPT !.n = req[r].n + 1]]
    <3>1. [req[r] EXCEPT !.n = req[r].n + 1].pc = "name"
      BY <1>0, <1>8 DEF TryName, At, Request
    <3> QED  BY <1>8, <2>1, <3>1, Moves DEF TryName, At
  <2>2. ASSUME NEW n, req' = [req EXCEPT ![r] = [req[r] EXCEPT !.pc = "create", !.n = n]]
        PROVE  Elsewhere(r)
    BY <1>0, <1>1, <1>8, <2>2, Moves DEF TryName, At
  <2> QED  BY <1>8, <2>1, <2>2 DEF TryName, Become
<1>9. CASE Create(r)
  <2>1. CASE Finish(r)  BY <1>0, <1>9, <2>1, Moves DEF Create, At, Finish, Become
  <2>2. CASE ~ Finish(r)
    <3> DEFINE pc == IF req[r].sub = NoSub THEN "delToken" ELSE "answer"
    <3>1. pc \in {"delToken", "answer"}  OBVIOUS
    <3>2. PICK a : req' = [req EXCEPT ![r] = [req[r] EXCEPT !.acc = a, !.pc = pc]]
      BY <1>9, <2>2 DEF Create, Become
    <3> HIDE DEF pc
    <3> QED  BY <1>0, <1>1, <1>9, <3>1, <3>2, Moves DEF Create, At
  <2> QED  BY <2>1, <2>2
<1>10. CASE DelToken(r)
  BY <1>0, <1>1, <1>10, Moves DEF DelToken, At, Become
<1>11. CASE Answer(r)
  BY <1>0, <1>11, Moves DEF Answer, At, Finish, Become
<1>12. CASE DeleteRow(r)
  BY <1>0, <1>12, Moves DEF DeleteRow, At, Finish, Become
<1> QED  BY <1>2, <1>3, <1>4, <1>5, <1>6, <1>7, <1>8, <1>9, <1>10, <1>11, <1>12

LEMMA OtherPeriods ==
  ASSUME Inv, Inv', Periods, NEW r \in Req,
         \/ \E e \in Email : GoogleFind(r, e)
         \/ \E k \in Key : SignupToken(r, k)
         \/ \E a \in Account : StartDelete(r, a)
         \/ GoogleEmail(r) \/ GoogleLink(r) \/ SignupExists(r) \/ TryName(r)
         \/ Create(r) \/ DelToken(r) \/ Answer(r) \/ DeleteRow(r)
  PROVE  Periods'
<1>1. Elsewhere(r)  BY OtherCalls
<1>2. /\ \A a \in Account : Paying(a)' = Paying(a)
      /\ \A q \in Req : req[q].pc = "pay" => req'[q] = req[q]
  BY <1>1, PayingSame DEF Elsewhere
<1>3. due' = due /\ calm' = calm
  BY DEF GoogleFind, SignupToken, StartDelete, GoogleEmail, GoogleLink, SignupExists, TryName,
         Create, DelToken, Answer, DeleteRow, ghost
<1>4. /\ used \subseteq used'
      /\ \A a \in Account : Alive(a)' => \/ Alive(a) /\ user'[a].exp = user[a].exp
                                         \/ a \notin used /\ user'[a].exp = 0
  <2>1. CASE UNCHANGED rows  BY <2>1 DEF rows, Alive
  <2>2. CASE GoogleLink(r)
    <3>1. UNCHANGED user \/ (/\ Alive(req[r].acc)
                             /\ user' = [user EXCEPT ![req[r].acc].sub = req[r].sub])
      BY <2>2 DEF GoogleLink
    <3>2. \A a \in Account : user'[a].exp = user[a].exp /\ user'[a].email = user[a].email
      BY <3>1 DEF Inv, Types, User
    <3> QED  BY <2>2, <3>2 DEF GoogleLink, Alive
  <2>3. CASE Create(r) /\ ~ UNCHANGED rows
    <3>1. PICK a \in Account \ used :
            /\ used' = used \cup {a}
            /\ user' = [user EXCEPT ![a] = [email |-> req[r].email, sub |-> req[r].sub,
                                            name |-> req[r].n, exp |-> 0]]
      BY <2>3 DEF Create
    <3>2. /\ \A b \in Account \ {a} : user'[b] = user[b]
          /\ user'[a].exp = 0
      BY <3>1 DEF Inv, Types
    <3> QED  BY <3>1, <3>2 DEF Alive
  <2>4. CASE DeleteRow(r)
    <3>1. \A b \in Account : user'[b] = user[b] \/ user'[b] = Gone
      BY <2>4 DEF DeleteRow, Inv, Types
    <3> QED  BY <2>4, <3>1 DEF DeleteRow, Alive, Gone
  <2>5. UNCHANGED rows \/ GoogleLink(r) \/ Create(r) \/ DeleteRow(r)
    BY DEF GoogleFind, SignupToken, StartDelete, GoogleEmail, SignupExists, TryName, DelToken, Answer
  <2> QED  BY <2>1, <2>2, <2>3, <2>4, <2>5
<1> QED  BY <1>2, <1>3, <1>4, NoPurchase

(* A purchase reads the expiry that is due, unless another one is under way. *)
LEMMA SubscribePeriods ==
  ASSUME Inv, Periods, NEW r \in Req, NEW a \in Account, NEW m \in Months \cup {0},
         StartSubscribe(r, a, m)
  PROVE  Periods'
<1>0. /\ At(r, "idle") /\ Alive(a) /\ a \in used /\ UNCHANGED rows
      /\ due \in [Account -> Nat] /\ user \in [Account -> User]
      /\ calm' = IF Paying(a) = {} THEN calm ELSE calm \ {a}
  BY DEF StartSubscribe, Inv, Types, Columns
<1>1. PICK n : /\ n = IF m = 0 THEN 0 ELSE Later(user[a].exp, clock) + m
               /\ req' = [req EXCEPT ![r] = [Idle EXCEPT !.pc = "pay", !.acc = a, !.n = n]]
  BY DEF StartSubscribe, Become
<1>2. PICK d : /\ d = IF m = 0 THEN 0 ELSE Later(due[a], clock) + m
               /\ due' = [due EXCEPT ![a] = d]
  BY DEF StartSubscribe
<1>3. /\ req'[r].pc = "pay" /\ req'[r].acc = a /\ req'[r].n = n
      /\ \A q \in Req \ {r} : req'[q] = req[q]
  <2>1. /\ [Idle EXCEPT !.pc = "pay", !.acc = a, !.n = n].pc = "pay"
        /\ [Idle EXCEPT !.pc = "pay", !.acc = a, !.n = n].acc = a
        /\ [Idle EXCEPT !.pc = "pay", !.acc = a, !.n = n].n = n
    BY DEF Idle
  <2> QED  BY <1>1, <2>1 DEF Inv, Types
<1>4. due'[a] = d /\ \A b \in Account \ {a} : due'[b] = due[b]  BY <1>0, <1>2
<1>5. /\ Paying(a)' = Paying(a) \cup {r}
      /\ \A b \in Account \ {a} : Paying(b)' = Paying(b)
  BY <1>0, <1>3 DEF Paying, At
<1>6. \A b : (Alive(b)' <=> Alive(b)) /\ user'[b] = user[b]  BY <1>0 DEF rows, Alive
<1> SUFFICES ASSUME NEW b \in Account
             PROVE  /\ b \notin used => due'[b] = 0
                    /\ b \in calm' =>
                         /\ \A q, s \in Paying(b)' : q = s
                         /\ \A s \in Paying(b)' : req'[s].n = due'[b]
                         /\ Alive(b) /\ Paying(b)' = {} => user[b].exp = due'[b]
  BY <1>0, <1>6 DEF Periods, rows
<1>7. CASE b = a
  <2>1. r \in Paying(a)'  BY <1>5
  <2>2. CASE a \in calm'
    <3>1. Paying(a) = {} /\ a \in calm  BY <1>0, <2>2
    <3>2. user[a].exp = due[a]  BY <1>0, <3>1 DEF Periods
    <3>3. n = d  BY <1>1, <1>2, <3>2
    <3>4. Paying(a)' = {r}  BY <3>1, <1>5
    <3> QED  BY <1>0, <1>3, <1>4, <1>7, <3>3, <3>4
  <2> QED  BY <1>0, <1>7, <2>2
<1>8. CASE b # a
  <2>1. /\ due'[b] = due[b] /\ Paying(b)' = Paying(b)
        /\ b \in calm' => b \in calm
    BY <1>0, <1>4, <1>5, <1>8
  <2>2. \A s \in Paying(b) : req'[s] = req[s]
    BY <1>0, <1>3 DEF Paying, At
  <2> QED  BY <2>1, <2>2 DEF Periods
<1> QED  BY <1>7, <1>8

(* The purchase under way writes what is due. *)
LEMMA PayPeriods == ASSUME Inv, Periods, NEW r \in Req, Pay(r) PROVE Periods'
<1>a. PICK a : a = req[r].acc  OBVIOUS
<1>0. /\ At(r, "pay") /\ a = req[r].acc /\ a \in used /\ a \in Account /\ r \in Paying(a)
      /\ UNCHANGED <<used, due, calm>>
  BY <1>a DEF Pay, At, Inv, Types, Knows, Paying, ghost
<1>1. req'[r].pc = "idle" /\ \A q \in Req \ {r} : req'[q] = req[q]
  BY ToIdle DEF Pay, Idle
<1>2. /\ Paying(a)' = Paying(a) \ {r}
      /\ \A b \in Account \ {a} : Paying(b)' = Paying(b)
  BY <1>0, <1>1 DEF Paying, At
<1>3. /\ \A b \in Account : user'[b].email = user[b].email
      /\ \A b \in Account \ {a} : user'[b] = user[b]
      /\ Alive(a) => user'[a].exp = req[r].n
  <2>1. CASE Alive(a)
    <3>1. user' = [user EXCEPT ![a].exp = req[r].n]  BY <1>0, <2>1 DEF Pay
    <3> QED  BY <1>0, <2>1, <3>1 DEF Inv, Types, User
  <2>2. CASE ~ Alive(a)  BY <1>0, <2>2 DEF Pay
  <2> QED  BY <2>1, <2>2
<1> SUFFICES ASSUME NEW b \in Account
             PROVE  /\ b \notin used => due[b] = 0
                    /\ b \in calm =>
                         /\ \A q, s \in Paying(b)' : q = s
                         /\ \A s \in Paying(b)' : req'[s].n = due[b]
                         /\ Alive(b) /\ Paying(b)' = {} => user'[b].exp = due[b]
  BY <1>0, <1>3 DEF Periods, Alive
<1>4. b \notin used => due[b] = 0  BY DEF Periods
<1>5. ASSUME b \in calm, b = a
      PROVE  /\ Paying(b)' = {} /\ Alive(b) => user'[b].exp = due[b]
  <2>1. /\ \A q, s \in Paying(a) : q = s
        /\ \A s \in Paying(a) : req[s].n = due[a]
    BY <1>0, <1>5 DEF Periods
  <2>2. Paying(b)' = {}  BY <1>0, <1>2, <1>5, <2>1
  <2> QED  BY <1>0, <1>3, <1>5, <2>1, <2>2
<1>6. ASSUME b \in calm, b # a
      PROVE  /\ \A q, s \in Paying(b)' : q = s
             /\ \A s \in Paying(b)' : req'[s].n = due[b]
             /\ Alive(b) /\ Paying(b)' = {} => user'[b].exp = due[b]
  <2>1. Paying(b)' = Paying(b) /\ user'[b] = user[b]  BY <1>2, <1>3, <1>6
  <2>2. \A s \in Paying(b) : req'[s] = req[s]  BY <1>0, <1>1, <1>6 DEF Paying, At
  <2> QED  BY <1>6, <2>1, <2>2 DEF Periods
<1>7. ASSUME b \in calm, b = a PROVE Paying(b)' = {}
  <2>1. \A q, s \in Paying(a) : q = s  BY <1>0, <1>7 DEF Periods
  <2> QED  BY <1>0, <1>2, <1>7, <2>1
<1> QED  BY <1>4, <1>5, <1>6, <1>7

LEMMA CrashPeriods == ASSUME Inv, Periods, NEW r \in Req, Crash(r) PROVE Periods'
<1>0. UNCHANGED rows /\ UNCHANGED due /\ calm' = calm \ {req[r].acc}  BY DEF Crash
<1>1. req'[r].pc = "idle" /\ \A q \in Req \ {r} : req'[q] = req[q]
  BY ToIdle DEF Crash, Idle
<1> SUFFICES ASSUME NEW b \in Account
             PROVE  /\ b \notin used => due[b] = 0
                    /\ b \in calm' =>
                         /\ \A q, s \in Paying(b)' : q = s
                         /\ \A s \in Paying(b)' : req'[s].n = due[b]
                         /\ Alive(b) /\ Paying(b)' = {} => user[b].exp = due[b]
  BY <1>0 DEF Periods, rows, Alive
<1>2. ASSUME b \in calm'
      PROVE  Paying(b)' = Paying(b) /\ \A s \in Paying(b) : req'[s] = req[s]
  BY <1>0, <1>1, <1>2 DEF Paying, At
<1> QED  BY <1>0, <1>2 DEF Periods

LEMMA PeriodsStep == Inv /\ Inv' /\ Periods /\ [Next]_vars => Periods'
<1> SUFFICES ASSUME Inv, Inv', Periods, [Next]_vars PROVE Periods'  OBVIOUS
<1>1. ASSUME NEW r \in Req, Step(r) PROVE Periods'
  BY <1>1, OtherPeriods, PayPeriods DEF Step
<1>2. ASSUME NEW a \in Account, NEW n \in Name, Rename(a, n) PROVE Periods'
  <2>1. /\ UNCHANGED <<used, req, due, calm>>
        /\ user' = [user EXCEPT ![a].name = n]
    BY <1>2 DEF Rename, ghost
  <2>2. \A b \in Account : user'[b].exp = user[b].exp /\ user'[b].email = user[b].email
    BY <2>1 DEF Inv, Types, User
  <2>3. \A b \in Account : Paying(b)' = Paying(b)  BY <2>1 DEF Paying, At
  <2> QED  BY <2>1, <2>2, <2>3, NoPurchase DEF Alive
<1>3. ASSUME UNCHANGED <<rows, req, ghost>> PROVE Periods'
  BY <1>3 DEF Periods, rows, ghost, Paying, At, Alive
<1>4. ASSUME \/ \E k \in Key : ExpireToken(k) \/ \E e \in Email : Verify(k, e)
             \/ Tick \/ UNCHANGED vars
      PROVE  UNCHANGED <<rows, req, ghost>>
  BY <1>4 DEF ExpireToken, Verify, Tick, vars
<1> QED  BY <1>1, <1>2, <1>3, <1>4, OtherPeriods, SubscribePeriods, CrashPeriods DEF Next

(* Purchases that do not overlap lose no period: the expiry is what appending
   each of them to the one that runs gives (subscribe). *)
THEOREM PeriodsAppendedHolds == Spec => []PeriodsAppended
<1>1. Inv /\ Periods /\ [Next]_vars => (Inv /\ Periods)'  BY NextInv, PeriodsStep
<1>2. Inv /\ Periods => PeriodsAppended
  BY DEF Inv, Types, Periods, PeriodsAppended
<1> QED  BY InitInv, PeriodsInit, <1>1, <1>2, PTL DEF Spec
=============================================================================
