------------------------------ MODULE Accounts ------------------------------
(***************************************************************************)
(* The rows of users: sign-up with a verified e-mail, sign-in with Google  *)
(* (find, link or create; auth.service.ts), profile, deletion              *)
(* (user.service.ts) and the subscription (subscription.service.ts).       *)
(* Several requests run at once; every await ends an action, and what a    *)
(* request has read may be stale when it writes.  The schema's unique      *)
(* columns are email, username and the pair (socialProvider, socialUid).   *)
(***************************************************************************)
EXTENDS Integers

CONSTANTS
    Req,              \* requests in flight
    Account, NoAccount,
    Email, NoEmail,
    Sub, NoSub,       \* Google identities
    Owner,            \* the identity an e-mail belongs to
    Key,              \* verify tokens of sign-up
    Months,           \* paid plans: billingCycleMonths
    MaxName,          \* usernames a client asks for are 0..MaxName: a base with its suffixes
    MaxTime,          \* bound on the clock, in months
    MaxEdits          \* bound on renames, deletions and subscriptions

(* Google does not hand an e-mail to another identity. *)
ASSUME AccountsAssumption ==
    /\ NoAccount \notin Account /\ NoEmail \notin Email /\ NoSub \notin Sub
    /\ Owner \in [Email -> Sub]
    /\ Months \subseteq Nat \ {0}
    /\ MaxName \in Nat /\ MaxTime \in Nat /\ MaxEdits \in Nat

VARIABLES
    user,      \* users: email, (google, socialUid), username, subscriptionExpiresAt
    used,      \* ids drawn
    token,     \* signup:verify:<token>: its e-mail
    req,       \* the requests
    clock,     \* the month
    edits,     \* renames, deletions and subscriptions begun
    answered,  \* ghost: accounts an identity was signed in to
    due,       \* ghost: expiry if purchases are appended one to the other
    calm       \* ghost: accounts whose subscriptions never overlapped

rows  == <<user, used>>
ghost == <<answered, due, calm>>
vars  == <<rows, token, req, clock, edits, ghost>>

Name == 0..MaxName
User == [email : Email \cup {NoEmail}, sub : Sub \cup {NoSub}, name : Nat, exp : Nat]
Gone == [email |-> NoEmail, sub |-> NoSub, name |-> 0, exp |-> 0]
Alive(a) == user[a].email # NoEmail

Request == [pc    : {"idle", "byEmail", "link", "exists", "name", "create", "delToken",
                     "answer", "delete", "pay"},
            key   : Key \cup {NoEmail},    \* of a sign-up
            email : Email \cup {NoEmail},
            sub   : Sub \cup {NoSub},      \* of a Google sign-in
            acc   : Account \cup {NoAccount},
            n     : Nat]                   \* username tried, or expiry to write
Idle == [pc |-> "idle", key |-> NoEmail, email |-> NoEmail, sub |-> NoSub,
         acc |-> NoAccount, n |-> 0]

TypeOK ==
    /\ user \in [Account -> User] /\ used \subseteq Account
    /\ token \in [Key -> Email \cup {NoEmail}]
    /\ req \in [Req -> Request]
    /\ clock \in 0..MaxTime /\ edits \in 0..MaxEdits
    /\ answered \in [Sub -> SUBSET Account]
    /\ due \in [Account -> Nat] /\ calm \subseteq Account
    /\ \A a \in Account : Alive(a) => a \in used
    /\ \A a, b \in Account : Alive(a) /\ Alive(b) /\ a # b =>
         /\ user[a].email # user[b].email /\ user[a].name # user[b].name
         /\ user[a].sub # user[b].sub \/ user[a].sub = NoSub

Init ==
    /\ user = [a \in Account |-> Gone] /\ used = {}
    /\ token = [k \in Key |-> NoEmail]
    /\ req = [r \in Req |-> Idle]
    /\ clock = 0 /\ edits = 0
    /\ answered = [s \in Sub |-> {}] /\ due = [a \in Account |-> 0] /\ calm = Account

At(r, pc) == req[r].pc = pc
Become(r, request) == req' = [req EXCEPT ![r] = request]
Finish(r) == Become(r, Idle)
Find(P(_)) == IF \E a \in Account : Alive(a) /\ P(a)
              THEN CHOOSE a \in Account : Alive(a) /\ P(a) ELSE NoAccount
ByEmail(e) == LET Has(a) == user[a].email = e IN Find(Has)
BySub(s) == LET Has(a) == user[a].sub = s IN Find(Has)
ByName(n) == LET Has(a) == user[a].name = n IN Find(Has)

-----------------------------------------------------------------------------
(* Mutant: the account is looked for by the e-mail of the ticket first. *)
GoogleFindByEmail(r, e) ==
    /\ At(r, "idle")
    /\ Become(r, [Idle EXCEPT !.sub = Owner[e], !.email = e, !.acc = ByEmail(e),
                              !.pc = IF ByEmail(e) # NoAccount THEN "answer" ELSE "byEmail"])
    /\ UNCHANGED <<rows, token, clock, edits, ghost>>

(* googleAuth: the ticket names an identity and one of its e-mails. *)
GoogleFind(r, e) ==
    /\ At(r, "idle")
    /\ LET s == Owner[e]
           a == BySub(s)
       IN Become(r, [Idle EXCEPT !.sub = s, !.email = e, !.acc = a,
                                 !.pc = IF a # NoAccount THEN "answer" ELSE "byEmail"])
    /\ UNCHANGED <<rows, token, clock, edits, ghost>>

GoogleEmail(r) ==
    /\ At(r, "byEmail")
    /\ LET a == ByEmail(req[r].email)
       IN Become(r, [req[r] EXCEPT !.acc = a, !.pc = IF a # NoAccount THEN "link" ELSE "name"])
    /\ UNCHANGED <<rows, token, clock, edits, ghost>>

(* The update fails if the row is gone or another has the identity. *)
GoogleLink(r) ==
    /\ At(r, "link")
    /\ LET a == req[r].acc
       IN IF Alive(a) /\ BySub(req[r].sub) \in {a, NoAccount}
          THEN /\ user' = [user EXCEPT ![a].sub = req[r].sub]
               /\ Become(r, [req[r] EXCEPT !.pc = "answer"])
          ELSE Finish(r) /\ UNCHANGED user
    /\ UNCHANGED <<used, token, clock, edits, ghost>>

(* verifyEmailCode leaves a token for an e-mail. *)
Verify(k, e) ==
    /\ token[k] = NoEmail
    /\ token' = [token EXCEPT ![k] = e]
    /\ UNCHANGED <<rows, req, clock, edits, ghost>>

ExpireToken(k) ==
    /\ token[k] # NoEmail
    /\ token' = [token EXCEPT ![k] = NoEmail]
    /\ UNCHANGED <<rows, req, clock, edits, ghost>>

(* signup: the token, then the e-mail. *)
SignupToken(r, k) ==
    /\ At(r, "idle") /\ token[k] # NoEmail
    /\ Become(r, [Idle EXCEPT !.pc = "exists", !.key = k, !.email = token[k]])
    /\ UNCHANGED <<rows, token, clock, edits, ghost>>

SignupExists(r) ==
    /\ At(r, "exists")
    /\ IF ByEmail(req[r].email) # NoAccount THEN Finish(r)
       ELSE Become(r, [req[r] EXCEPT !.pc = "name"])
    /\ UNCHANGED <<rows, token, clock, edits, ghost>>

(* A username: for Google the display name with the next suffix while it is
   taken; a sign-up draws one that is free or ends with a time stamp, which it
   does not look up (generateUniqueUsername). *)
TryName(r) ==
    /\ At(r, "name")
    /\ IF req[r].sub # NoSub /\ ByName(req[r].n) # NoAccount
       THEN Become(r, [req[r] EXCEPT !.n = @ + 1])
       ELSE \E n \in CASE req[r].sub # NoSub -> {req[r].n}
                       [] \A n \in Name : ByName(n) # NoAccount -> {MaxName + 1}
                       [] OTHER -> {n \in Name : ByName(n) = NoAccount} :
              Become(r, [req[r] EXCEPT !.pc = "create", !.n = n])
    /\ UNCHANGED <<rows, token, clock, edits, ghost>>

(* Mutant: the columns have no unique index. *)
CreateTwice(r) ==
    /\ At(r, "create")
    /\ \E a \in Account \ used :
         /\ used' = used \cup {a}
         /\ user' = [user EXCEPT ![a] = [email |-> req[r].email, sub |-> req[r].sub,
                                         name |-> req[r].n, exp |-> 0]]
         /\ Become(r, [req[r] EXCEPT !.acc = a,
                         !.pc = IF req[r].sub = NoSub THEN "delToken" ELSE "answer"])
    /\ UNCHANGED <<token, clock, edits, ghost>>

(* One transaction creates the user with statistics and badge; a value that is
   taken by now ends the request with an error. *)
Create(r) ==
    /\ At(r, "create")
    /\ IF \/ ByEmail(req[r].email) # NoAccount \/ ByName(req[r].n) # NoAccount
          \/ req[r].sub # NoSub /\ BySub(req[r].sub) # NoAccount
       THEN Finish(r) /\ UNCHANGED rows
       ELSE \E a \in Account \ used :
              /\ used' = used \cup {a}
              /\ user' = [user EXCEPT ![a] = [email |-> req[r].email, sub |-> req[r].sub,
                                              name |-> req[r].n, exp |-> 0]]
              /\ Become(r, [req[r] EXCEPT !.acc = a,
                              !.pc = IF req[r].sub = NoSub THEN "delToken" ELSE "answer"])
    /\ UNCHANGED <<token, clock, edits, ghost>>

DelToken(r) ==
    /\ At(r, "delToken")
    /\ token' = [token EXCEPT ![req[r].key] = NoEmail]
    /\ Become(r, [req[r] EXCEPT !.pc = "answer"])
    /\ UNCHANGED <<rows, clock, edits, ghost>>

(* The tokens of the account go to the client. *)
Answer(r) ==
    /\ At(r, "answer")
    /\ answered' = [s \in Sub |-> IF s = req[r].sub THEN answered[s] \cup {req[r].acc}
                                                    ELSE answered[s]]
    /\ Finish(r)
    /\ UNCHANGED <<rows, token, clock, edits, due, calm>>

-----------------------------------------------------------------------------
(* patchMe: the unique index decides, and its error is caught. *)
Rename(a, n) ==
    /\ Alive(a) /\ ByName(n) = NoAccount /\ edits < MaxEdits
    /\ user' = [user EXCEPT ![a].name = n] /\ edits' = edits + 1
    /\ UNCHANGED <<used, token, req, clock, ghost>>

(* deleteAccount: the check of the password or of the Google identity, then
   the row. *)
StartDelete(r, a) ==
    /\ At(r, "idle") /\ Alive(a) /\ edits < MaxEdits
    /\ Become(r, [Idle EXCEPT !.pc = "delete", !.acc = a]) /\ edits' = edits + 1
    /\ UNCHANGED <<rows, token, clock, ghost>>

DeleteRow(r) ==
    /\ At(r, "delete")
    /\ user' = [user EXCEPT ![req[r].acc] = Gone]
    /\ Finish(r)
    /\ UNCHANGED <<used, token, clock, edits, ghost>>

Later(a, b) == IF a > b THEN a ELSE b
Paying(a) == {r \in Req : At(r, "pay") /\ req[r].acc = a}

(* Mutant: the period starts today. *)
StartSubscribeToday(r, a, m) ==
    /\ At(r, "idle") /\ Alive(a) /\ edits < MaxEdits
    /\ Become(r, [Idle EXCEPT !.pc = "pay", !.acc = a, !.n = IF m = 0 THEN 0 ELSE clock + m])
    /\ edits' = edits + 1
    /\ due' = [due EXCEPT ![a] = IF m = 0 THEN 0 ELSE Later(@, clock) + m]
    /\ calm' = IF Paying(a) = {} THEN calm ELSE calm \ {a}
    /\ UNCHANGED <<rows, token, clock, answered>>

(* subscribe: a period is appended to the one that runs; a free plan (m = 0)
   ends it. *)
StartSubscribe(r, a, m) ==
    /\ At(r, "idle") /\ Alive(a) /\ edits < MaxEdits
    /\ Become(r, [Idle EXCEPT !.pc = "pay", !.acc = a,
                              !.n = IF m = 0 THEN 0 ELSE Later(user[a].exp, clock) + m])
    /\ edits' = edits + 1
    /\ due' = [due EXCEPT ![a] = IF m = 0 THEN 0 ELSE Later(@, clock) + m]
    /\ calm' = IF Paying(a) = {} THEN calm ELSE calm \ {a}
    /\ UNCHANGED <<rows, token, clock, answered>>

Pay(r) ==
    /\ At(r, "pay")
    /\ user' = IF Alive(req[r].acc) THEN [user EXCEPT ![req[r].acc].exp = req[r].n] ELSE user
    /\ Finish(r)
    /\ UNCHANGED <<used, token, clock, edits, ghost>>

Crash(r) ==
    /\ ~ At(r, "idle")
    /\ Finish(r)
    /\ calm' = calm \ {req[r].acc}
    /\ UNCHANGED <<rows, token, clock, edits, answered, due>>

Tick == /\ clock < MaxTime /\ clock' = clock + 1
        /\ UNCHANGED <<rows, token, req, edits, ghost>>

Step(r) == \/ GoogleEmail(r) \/ GoogleLink(r) \/ SignupExists(r) \/ TryName(r) \/ Create(r)
           \/ DelToken(r) \/ Answer(r) \/ DeleteRow(r) \/ Pay(r)

Next ==
    \/ \E r \in Req :
         \/ Step(r) \/ Crash(r)
         \/ \E e \in Email : GoogleFind(r, e)
         \/ \E k \in Key : SignupToken(r, k)
         \/ \E a \in Account : StartDelete(r, a)
         \/ \E a \in Account, m \in Months \cup {0} : StartSubscribe(r, a, m)
    \/ \E k \in Key : ExpireToken(k) \/ \E e \in Email : Verify(k, e)
    \/ \E a \in Account, n \in Name : Rename(a, n)
    \/ Tick

Spec == Init /\ [][Next]_vars

-----------------------------------------------------------------------------
(* Properties *)

(* A Google identity is signed in to one account, whichever of its e-mails the
   ticket carries, with sign-ins, sign-ups, links and deletions that overlap:
   of the accounts it was answered with at most one exists. *)
OneAccountPerIdentity ==
    \A s \in Sub : \A a, b \in answered[s] : Alive(a) /\ Alive(b) => a = b

(* Purchases that do not overlap are appended: no period is lost
   (subscription.service.ts: 만료일 이후로 기간을 이어 붙인다). *)
PeriodsAppended ==
    \A a \in calm : Alive(a) /\ Paying(a) = {} => user[a].exp = due[a]
=============================================================================
