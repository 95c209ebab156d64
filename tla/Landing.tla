-------------------------------- MODULE Landing --------------------------------
(***************************************************************************)
(* Demo access from the landing page: LandingService.subscribe creates a   *)
(* user, notes the lead in Redis and mails the credentials; when the mail  *)
(* cannot be sent it takes the user back.  AuthService is here as far as   *)
(* it touches such a user: signing in and asking for a reset link insert   *)
(* rows that refer to it.                                                  *)
(*                                                                         *)
(* A step of a request is one call to the database, to Redis or to the     *)
(* mail provider.  An account is the number of the signup that created it, *)
(* and its temporary password is told from all others by that number.      *)
(***************************************************************************)
EXTENDS Naturals, FiniteSets

CONSTANTS
  Visitors,    \* browsers with the landing page open
  Emails,      \* addresses, trimmed and in lower case
  MaxAccounts, \* bound on the users ever created
  MaxSubmits,  \* bound on the submissions of the form
  MaxMishaps   \* bound on calls that fail, answers that get lost and crashes

ASSUME LimitsAssumption == MaxAccounts \in Nat /\ MaxSubmits \in Nat /\ MaxMishaps \in Nat

VARIABLES
  enabled,    \* RESEND_API_KEY is set
  account,    \* database: users
  referenced, \* database: users with a refresh token or a reset token
  leads,      \* Redis: landing:leads
  mailed,     \* users whose credentials have reached the mailbox
  linked,     \* users for whom a reset link has
  form,       \* per visitor: the form on the page
  signup,     \* per visitor: the request it has sent
  visit,      \* per address: its owner's request to AuthService
  created, submits, mishaps,
  granted,    \* history: users whose signup was answered 201
  excused,    \* history: users for whom a call failed or a process ended
  disturbed   \* history: addresses the same is true of, or whose signups overlapped

database == <<account, referenced>>
mailbox  == <<mailed, linked>>
requests == <<form, signup, visit>>
budget   == <<created, submits, mishaps>>
history  == <<granted, excused, disturbed>>
vars     == <<enabled, database, leads, mailbox, requests, budget, history>>

Ids    == 1..MaxAccounts
NoUser == 0
Forms  == {"idle", "loading", "success", "conflict", "error"}
Labels == {"idle", "find", "create", "saveLead", "send", "delete", "removeLead", "reply"}

Absent == [state |-> "none"]
Idle   == [pc |-> "idle"]

Init ==
  /\ enabled \in BOOLEAN
  /\ account = [i \in Ids |-> Absent] /\ referenced = {}
  /\ leads = {} /\ mailed = {} /\ linked = {}
  /\ form = [v \in Visitors |-> "idle"]
  /\ signup = [v \in Visitors |-> Idle]
  /\ visit = [e \in Emails |-> Idle]
  /\ created = 0 /\ submits = 0 /\ mishaps = 0
  /\ granted = {} /\ excused = {} /\ disturbed = {}

Live == {i \in Ids : account[i].state = "live"}

\* findUnique by email.
UserOf(e) == IF \E i \in Live : account[i].email = e
               THEN CHOOSE i \in Live : account[i].email = e ELSE NoUser

\* The signups under way that have got past the search.
Working(e) == {v \in Visitors : /\ signup[v].pc \notin {"idle", "find"}
                                /\ signup[v].email = e}

At(v, label) == signup[v].pc = label

Step(v, label) == signup' = [signup EXCEPT ![v].pc = label]

Mishap == mishaps < MaxMishaps /\ mishaps' = mishaps + 1

\* The answer reaches the page and the request is over.
Answer(v, outcome) ==
  /\ form' = [form EXCEPT ![v] = outcome]
  /\ signup' = [signup EXCEPT ![v] = Idle]

-----------------------------------------------------------------------------
(* The form and LandingService.subscribe. *)

\* handleSubscribe, which sends nothing while an answer is due. Without a mail provider the
\* service refuses at once.
Submit(v, e) ==
  /\ form[v] # "loading" /\ submits < MaxSubmits
  /\ submits' = submits + 1
  /\ IF enabled
       THEN /\ form' = [form EXCEPT ![v] = "loading"]
            /\ signup' = [signup EXCEPT ![v] = [pc |-> "find", email |-> e, id |-> NoUser]]
       ELSE form' = [form EXCEPT ![v] = "error"] /\ UNCHANGED signup
  /\ UNCHANGED <<enabled, database, leads, mailbox, visit, created, mishaps, history>>

\* An account that exists is a conflict.
FindExisting(v) ==
  /\ At(v, "find")
  /\ LET e == signup[v].email IN
     /\ IF UserOf(e) = NoUser THEN Step(v, "create") /\ UNCHANGED form ELSE Answer(v, "conflict")
     /\ disturbed' = IF Working(e) # {} THEN disturbed \union {e} ELSE disturbed
  /\ UNCHANGED <<enabled, database, leads, mailbox, visit, budget, granted, excused>>

NewAccount(v) == [state |-> "live", email |-> signup[v].email, password |-> "temporary"]

CreateUser_Upserts(v) ==
  /\ At(v, "create") /\ created < MaxAccounts
  /\ created' = created + 1
  /\ account' = [i \in Ids |-> IF i = created + 1 THEN NewAccount(v)
                               ELSE IF i \in Live /\ account[i].email = signup[v].email
                                 THEN [account[i] EXCEPT !.state = "gone"] ELSE account[i]]
  /\ signup' = [signup EXCEPT ![v].pc = "saveLead", ![v].id = created + 1]
  /\ UNCHANGED <<enabled, referenced, leads, mailbox, form, visit, submits, mishaps, history>>

\* The email is unique: a user created since the search makes the query fail, and the request
\* with it.
CreateUser(v) ==
  /\ At(v, "create")
  /\ IF UserOf(signup[v].email) # NoUser
       THEN Answer(v, "error") /\ UNCHANGED <<account, created>>
       ELSE /\ created < MaxAccounts
            /\ created' = created + 1
            /\ account' = [account EXCEPT ![created + 1] = NewAccount(v)]
            /\ signup' = [signup EXCEPT ![v].pc = "saveLead", ![v].id = created + 1]
            /\ UNCHANGED form
  /\ UNCHANGED <<enabled, referenced, leads, mailbox, visit, submits, mishaps, history>>

\* The lead must never fail the signup.
SaveLead(v) ==
  /\ At(v, "saveLead") /\ Step(v, "send")
  /\ LET e == signup[v].email IN
     \/ leads' = leads \union {e} /\ UNCHANGED <<mishaps, disturbed>>
     \/ Mishap /\ disturbed' = disturbed \union {e} /\ UNCHANGED leads
  /\ UNCHANGED <<enabled, database, mailbox, form, visit, created, submits, granted, excused>>

SendWelcomeEmail_Trusts(v) ==
  /\ At(v, "send")
  /\ mailed' \in {mailed, mailed \union {signup[v].id}}
  /\ Step(v, "reply")
  /\ UNCHANGED <<enabled, database, leads, linked, form, visit, budget, history>>

\* The provider delivers the mail or refuses it; or it delivers it and its answer is lost.
SendWelcomeEmail(v) ==
  /\ At(v, "send")
  /\ \/ mailed' = mailed \union {signup[v].id} /\ Step(v, "reply") /\ UNCHANGED mishaps
     \/ UNCHANGED <<mailed, mishaps>> /\ Step(v, "delete")
     \/ Mishap /\ mailed' = mailed \union {signup[v].id} /\ Step(v, "delete")
  /\ UNCHANGED <<enabled, database, leads, linked, form, visit, created, submits, history>>

\* A row that refers to the user keeps it from being deleted (ON DELETE RESTRICT).
Deletable(i) == i \in Live \ referenced

\* Whatever the database answers, the rollback goes on.
DeleteUser(v) ==
  /\ At(v, "delete") /\ Step(v, "removeLead")
  /\ LET i == signup[v].id IN
     \/ /\ account' = IF Deletable(i) THEN [account EXCEPT ![i].state = "gone"] ELSE account
        /\ UNCHANGED <<mishaps, excused>>
     \/ Mishap /\ excused' = excused \union {i} /\ UNCHANGED account
  /\ UNCHANGED <<enabled, referenced, leads, mailbox, form, visit, created, submits, granted, disturbed>>

RemoveLead_Forgotten(v) ==
  /\ At(v, "removeLead") /\ Answer(v, "error")
  /\ UNCHANGED <<enabled, database, leads, mailbox, visit, budget, history>>

RemoveLead(v) ==
  /\ At(v, "removeLead") /\ Answer(v, "error")
  /\ LET e == signup[v].email IN
     \/ leads' = leads \ {e} /\ UNCHANGED <<mishaps, disturbed>>
     \/ Mishap /\ disturbed' = disturbed \union {e} /\ UNCHANGED leads
  /\ UNCHANGED <<enabled, database, mailbox, visit, created, submits, granted, excused>>

Reply(v) ==
  /\ At(v, "reply") /\ Answer(v, "success")
  /\ granted' = granted \union {signup[v].id}
  /\ UNCHANGED <<enabled, database, leads, mailbox, visit, budget, excused, disturbed>>

-----------------------------------------------------------------------------
(* The owner of the address, and the backend process.                        *)

\* findUnique of the login form and of requestPasswordReset; only a password that is known
\* signs in.
Approach(e, kind) ==
  /\ visit[e] = Idle /\ UserOf(e) # NoUser
  /\ LET i == UserOf(e) IN
     /\ kind = "login" => i \in mailed \/ account[i].password = "chosen"
     /\ visit' = [visit EXCEPT ![e] = [pc |-> kind, id |-> i]]
  /\ UNCHANGED <<enabled, database, leads, mailbox, form, signup, budget, history>>

\* The row that refers to the user is inserted, unless the user is gone by now. A reset link
\* is mailed then, if the provider takes it.
InsertToken(e) ==
  /\ visit[e] # Idle
  /\ visit' = [visit EXCEPT ![e] = Idle]
  /\ LET i == visit[e].id IN
     IF i \in Live
       THEN /\ referenced' = referenced \union {i}
            /\ linked' \in IF visit[e].pc = "forgot" THEN {linked, linked \union {i}} ELSE {linked}
       ELSE UNCHANGED <<referenced, linked>>
  /\ UNCHANGED <<enabled, account, leads, mailed, form, signup, budget, history>>

\* resetPassword with the link.
ResetPassword(i) ==
  /\ i \in linked \intersect Live
  /\ account[i].password = "temporary"
  /\ account' = [account EXCEPT ![i].password = "chosen"]
  /\ UNCHANGED <<enabled, referenced, leads, mailbox, requests, budget, history>>

\* The process ends: the requests it was working on get no answer.
Crash ==
  /\ Mishap
  /\ LET cut == {v \in Visitors : signup[v] # Idle} IN
     /\ cut # {}
     /\ form' = [v \in Visitors |-> IF v \in cut THEN "error" ELSE form[v]]
     /\ excused' = excused \union {signup[v].id : v \in cut}
     /\ disturbed' = disturbed \union {signup[v].email : v \in cut}
  /\ signup' = [v \in Visitors |-> Idle]
  /\ visit' = [e \in Emails |-> Idle]
  /\ UNCHANGED <<enabled, database, leads, mailbox, created, submits, granted>>

Next ==
  \/ \E v \in Visitors :
       \/ \E e \in Emails : Submit(v, e)
       \/ FindExisting(v) \/ CreateUser(v) \/ SaveLead(v) \/ SendWelcomeEmail(v)
       \/ DeleteUser(v) \/ RemoveLead(v) \/ Reply(v)
  \/ \E e \in Emails, kind \in {"login", "forgot"} : Approach(e, kind)
  \/ \E e \in Emails : InsertToken(e)
  \/ \E i \in Ids : ResetPassword(i)
  \/ Crash

Spec == Init /\ [][Next]_vars

-----------------------------------------------------------------------------

\* Types of all variables.
LandingTypeOK ==
  /\ enabled \in BOOLEAN
  /\ \A i \in Ids : account[i] = Absent \/ account[i] \in
       [state : {"live", "gone"}, email : Emails, password : {"temporary", "chosen"}]
  /\ referenced \subseteq Ids /\ mailed \subseteq Ids /\ linked \subseteq Ids
  /\ leads \subseteq Emails /\ disturbed \subseteq Emails
  /\ form \in [Visitors -> Forms]
  /\ \A v \in Visitors : signup[v] = Idle \/ signup[v] \in
       [pc : Labels, email : Emails, id : Ids \union {NoUser}]
  /\ granted \subseteq Ids /\ excused \subseteq Ids \union {NoUser}

Owned(i) == \E v \in Visitors : signup[v] # Idle /\ signup[v].id = i

\* "never leave orphan users whose credentials were never sent": a user nobody is working on
\* has had its credentials or a reset link mailed, unless a call failed or the process ended,
\* or a token that refers to it has kept it from being deleted (subscribe, its rollback).
NoOrphans ==
  \A i \in Live : Owned(i) \/ i \in mailed \union linked \union excused \union referenced

\* Who was told that access is granted has it for good: the user exists, is the one found by
\* the address, and the mailed password is its password until its owner chooses another
\* (subscribe against a concurrent subscribe and its rollback).
GrantedIsLasting ==
  \A i \in granted : i \in mailed /\ i \in Live /\ UserOf(account[i].email) = i

\* The leads are the addresses with a user, once their signups are over, unless a call to
\* Redis failed, the process ended, or two signups of one address overlapped: then the
\* rollback of one takes the lead of the other (saveLead, removeLead).
LeadsMatchUsers ==
  \A e \in Emails : Working(e) = {} /\ e \notin disturbed =>
    \/ (e \in leads) = (UserOf(e) # NoUser)
    \/ UserOf(e) # NoUser /\ UserOf(e) \in excused \union referenced
=============================================================================
