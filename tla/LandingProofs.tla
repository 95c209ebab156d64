---------------------------- MODULE LandingProofs ----------------------------
(***************************************************************************)
(* Theorems about Landing, for any visitors, addresses and bounds: what a  *)
(* visitor was granted stays, no account is left whose credentials nobody  *)
(* got, and the leads are the addresses with a user.                       *)
(***************************************************************************)
EXTENDS Landing, TLAPS

Account == [state : {"live", "gone"}, email : Emails, password : {"temporary", "chosen"}]
Signup  == [pc : Labels, email : Emails, id : Ids \union {NoUser}]

Typed ==
  /\ created \in Nat /\ created <= MaxAccounts
  /\ account \in [Ids -> {Absent} \union Account]
  /\ signup \in [Visitors -> {Idle} \union Signup]
  /\ \A i \in Ids : i > created => account[i] = Absent

\* The signups that have created their account and are not over.
Owning(v) == signup[v].pc \in {"saveLead", "send", "delete", "removeLead", "reply"}

\* The account of such a signup is its own, nobody has been granted it, and it exists until
\* the rollback; at the reply its credentials have been mailed.
OwnAccount(v) ==
  LET i == signup[v].id IN
  /\ i \in 1..created /\ i \notin granted
  /\ \A w \in Visitors : Owning(w) /\ signup[w].id = i => w = v
  /\ signup[v].pc \in {"saveLead", "send", "reply"} => i \in Live
  /\ signup[v].pc = "reply" => i \in mailed

\* The email is unique in the table.
UniqueEmails == \A i, j \in Live : account[i].email = account[j].email => i = j

GrantInv ==
  /\ Typed /\ UniqueEmails
  /\ \A v \in Visitors : Owning(v) => OwnAccount(v)
  /\ granted \subseteq Live \intersect mailed

LEMMA GrantInit == Init => GrantInv
<1> SUFFICES ASSUME Init PROVE GrantInv
  OBVIOUS
<1>1. Typed
  BY LimitsAssumption DEF Init, Typed, Ids
<1>2. Live = {}
  BY DEF Init, Live, Absent
<1>3. \A v \in Visitors : ~Owning(v)
  BY DEF Init, Owning, Idle
<1>4. QED
  BY <1>1, <1>2, <1>3 DEF GrantInv, UniqueEmails, Init

Before == {"saveLead", "send", "reply"}

\* A step that lets no signup begin to own an account: it keeps the one it has or is over.
LEMMA SignupsMove ==
  ASSUME GrantInv, Typed', Live' = Live, UNCHANGED <<created, granted>>, mailed \subseteq mailed',
         \A i \in Live : account'[i].email = account[i].email,
         \A v \in Visitors : Owning(v)' =>
           /\ Owning(v) /\ signup'[v].id = signup[v].id
           /\ signup'[v].pc \in Before => signup[v].pc \in Before
           /\ signup'[v].pc = "reply" => signup[v].id \in mailed'
  PROVE  GrantInv'
<1>1. UniqueEmails' /\ (granted \subseteq Live \intersect mailed)'
  BY DEF GrantInv, UniqueEmails
<1>2. ASSUME NEW v \in Visitors, Owning(v)' PROVE OwnAccount(v)'
  <2>1. OwnAccount(v) /\ Owning(v)
    BY <1>2 DEF GrantInv
  <2>2. QED
    BY <1>2, <2>1 DEF OwnAccount, Before
<1>3. QED
  BY <1>1, <1>2 DEF GrantInv

\* The same for a request that goes on to another step.
LEMMA SignupSteps ==
  ASSUME GrantInv, NEW v \in Visitors, NEW label \in Labels, Step(v, label), signup[v] # Idle,
         label # "idle",
         label \in {"saveLead", "send", "delete", "removeLead", "reply"} => Owning(v),
         label \in Before => signup[v].pc \in Before,
         label = "reply" => signup[v].id \in mailed',
         UNCHANGED <<account, created, granted>>, mailed \subseteq mailed'
  PROVE  GrantInv'
<1>1. signup[v] \in Signup /\ signup'[v] = [signup[v] EXCEPT !.pc = label]
  BY DEF GrantInv, Typed, Step
<1>2. signup'[v] \in Signup /\ signup'[v].pc = label /\ signup'[v].id = signup[v].id
  BY <1>1 DEF Signup
<1>3. \A w \in Visitors : w # v => signup'[w] = signup[w]
  BY DEF GrantInv, Typed, Step
<1>4. Typed'
  BY <1>2, <1>3 DEF GrantInv, Typed, Step
<1>5. \A w \in Visitors : Owning(w)' =>
        /\ Owning(w) /\ signup'[w].id = signup[w].id
        /\ signup'[w].pc \in Before => signup[w].pc \in Before
        /\ signup'[w].pc = "reply" => signup[w].id \in mailed'
  BY <1>2, <1>3 DEF Owning, GrantInv, OwnAccount, Before
<1>6. QED
  BY <1>4, <1>5, SignupsMove DEF Live

\* The same for a request that is answered.
LEMMA SignupEnds ==
  ASSUME GrantInv, NEW v \in Visitors, NEW outcome, Answer(v, outcome),
         UNCHANGED <<account, created, granted>>, mailed \subseteq mailed'
  PROVE  GrantInv'
<1>1. Typed' /\ signup'[v] = Idle /\ \A w \in Visitors : w # v => signup'[w] = signup[w]
  BY DEF GrantInv, Typed, Answer
<1>2. \A w \in Visitors : Owning(w)' => Owning(w) /\ signup'[w] = signup[w]
  BY <1>1 DEF Owning, Idle
<1>3. \A w \in Visitors : Owning(w) /\ signup[w].pc = "reply" => signup[w].id \in mailed'
  BY DEF GrantInv, OwnAccount
<1>4. QED
  BY <1>1, <1>2, <1>3, SignupsMove DEF Live

LEMMA GrantInductive == GrantInv /\ [Next]_vars => GrantInv'
<1> SUFFICES ASSUME GrantInv, [Next]_vars PROVE GrantInv'
  OBVIOUS
<1>1. ASSUME NEW v \in Visitors, NEW e \in Emails, Submit(v, e) PROVE GrantInv'
  <2>1. \A w \in Visitors : signup'[w] = signup[w]
                            \/ signup'[w] = [pc |-> "find", email |-> e, id |-> NoUser]
    BY <1>1 DEF Submit, GrantInv, Typed
  <2>2. [pc |-> "find", email |-> e, id |-> NoUser] \in Signup
    BY DEF Signup, Labels
  <2>3. Typed'
    BY <1>1, <2>2 DEF Submit, GrantInv, Typed, database
  <2>4. \A w \in Visitors : Owning(w)' => Owning(w) /\ signup'[w] = signup[w]
    BY <2>1 DEF Owning
  <2>5. \A w \in Visitors : Owning(w) /\ signup[w].pc = "reply" => signup[w].id \in mailed
    BY DEF GrantInv, OwnAccount
  <2>6. UNCHANGED <<account, created, granted, mailed>>
    BY <1>1 DEF Submit, database, mailbox, history
  <2>7. QED
    BY <2>3, <2>4, <2>5, <2>6, SignupsMove DEF Live
<1>2. ASSUME NEW v \in Visitors, FindExisting(v) PROVE GrantInv'
  <2>1. UNCHANGED <<account, created, granted, mailed>>
    BY <1>2 DEF FindExisting, database, mailbox, budget
  <2>2. CASE Step(v, "create")
    BY <1>2, <2>1, <2>2, SignupSteps DEF FindExisting, At, Idle, Labels, Before
  <2>3. CASE Answer(v, "conflict")
    BY <2>1, <2>3, SignupEnds
  <2>4. QED
    BY <1>2, <2>2, <2>3 DEF FindExisting
<1>3. ASSUME NEW v \in Visitors, CreateUser(v) PROVE GrantInv'
  <2>1. CASE UserOf(signup[v].email) # NoUser
    BY <1>3, <2>1, SignupEnds DEF CreateUser, mailbox, history
  <2>2. CASE UserOf(signup[v].email) = NoUser
    <3> DEFINE new == created + 1
    <3>1. /\ At(v, "create") /\ new \in Ids /\ created' = new
          /\ account' = [account EXCEPT ![new] = NewAccount(v)]
          /\ signup' = [signup EXCEPT ![v].pc = "saveLead", ![v].id = new]
          /\ UNCHANGED <<granted, mailed>>
      <4>1. At(v, "create") /\ created < MaxAccounts /\ UNCHANGED <<granted, mailed>>
        BY <1>3, <2>2 DEF CreateUser, mailbox, history
      <4>2. new \in Ids
        BY <4>1, LimitsAssumption DEF GrantInv, Typed, Ids
      <4>3. QED
        BY <1>3, <2>2, <4>1, <4>2 DEF CreateUser
    <3>2. signup[v] \in Signup /\ ~Owning(v)
      BY <3>1 DEF GrantInv, Typed, At, Idle, Owning
    <3>3. NewAccount(v) \in Account /\ NewAccount(v).email = signup[v].email
      BY <3>2 DEF NewAccount, Account, Signup
    <3>4. Typed'
      <4>1. created' \in Nat /\ created' <= MaxAccounts
        BY <3>1, LimitsAssumption DEF GrantInv, Typed, Ids
      <4>2. account' \in [Ids -> {Absent} \union Account]
        BY <3>1, <3>3 DEF GrantInv, Typed
      <4>3. [signup[v] EXCEPT !.pc = "saveLead", !.id = new] \in Signup
        BY <3>1, <3>2 DEF Signup, Labels
      <4>4. signup' \in [Visitors -> {Idle} \union Signup]
        BY <3>1, <4>3 DEF GrantInv, Typed
      <4>5. \A i \in Ids : i > created' => account'[i] = Absent
        BY <3>1, LimitsAssumption DEF GrantInv, Typed, Ids
      <4>6. QED
        BY <4>1, <4>2, <4>4, <4>5 DEF Typed
    <3>5. account[new] = Absent /\ new \notin Live
      BY <3>1 DEF GrantInv, Typed, Live, Absent
    <3>6. /\ Live' = Live \union {new} /\ account'[new] = NewAccount(v)
          /\ \A i \in Live : account'[i] = account[i]
      BY <3>1, <3>5 DEF GrantInv, Typed, Live, NewAccount
    <3>7. \A i \in Live : account[i].email # signup[v].email
      BY <2>2 DEF UserOf, Live, Ids, NoUser
    <3>8. UniqueEmails'
      BY <3>3, <3>6, <3>7 DEF UniqueEmails, GrantInv
    <3>9. new \notin granted
      BY <3>5 DEF GrantInv
    <3>10. /\ signup'[v].id = new /\ signup'[v].pc = "saveLead"
           /\ \A w \in Visitors : w # v => signup'[w] = signup[w]
      BY <3>1, <3>2 DEF GrantInv, Typed, Signup
    <3>11. \A w \in Visitors : w # v /\ Owning(w) => OwnAccount(w) /\ signup[w].id # new
      BY DEF GrantInv, OwnAccount, Typed
    <3>12. ASSUME NEW w \in Visitors, Owning(w)' PROVE OwnAccount(w)'
      <4>1. CASE w = v
        BY <3>1, <3>6, <3>9, <3>10, <3>11, <4>1 DEF OwnAccount, Owning, GrantInv, Typed
      <4>2. CASE w # v
        BY <3>1, <3>6, <3>10, <3>11, <3>12, <4>2 DEF OwnAccount, Owning, GrantInv, Typed
      <4>3. QED
        BY <4>1, <4>2
    <3>13. QED
      BY <3>1, <3>4, <3>6, <3>8, <3>12 DEF GrantInv
  <2>3. QED
    BY <2>1, <2>2
<1>4. ASSUME NEW v \in Visitors, SaveLead(v) PROVE GrantInv'
  BY <1>4, SignupSteps DEF SaveLead, At, Idle, Labels, Before, Owning, database, mailbox
<1>5. ASSUME NEW v \in Visitors, SendWelcomeEmail(v) PROVE GrantInv'
  <2>1. UNCHANGED <<account, created, granted>> /\ mailed \subseteq mailed'
    BY <1>5 DEF SendWelcomeEmail, database, history
  <2>2. CASE Step(v, "reply") /\ mailed' = mailed \union {signup[v].id}
    BY <1>5, <2>1, <2>2, SignupSteps DEF SendWelcomeEmail, At, Idle, Labels, Before, Owning
  <2>3. CASE Step(v, "delete")
    BY <1>5, <2>1, <2>3, SignupSteps DEF SendWelcomeEmail, At, Idle, Labels, Before, Owning
  <2>4. QED
    BY <1>5, <2>2, <2>3 DEF SendWelcomeEmail
<1>6. ASSUME NEW v \in Visitors, DeleteUser(v) PROVE GrantInv'
  <2> DEFINE i == signup[v].id
  <2>1. /\ signup[v] \in Signup /\ signup[v].pc = "delete" /\ Owning(v)
        /\ Step(v, "removeLead") /\ UNCHANGED <<created, granted, mailed>>
        /\ account' = account \/ (i \in Live /\ account' = [account EXCEPT ![i].state = "gone"])
    BY <1>6 DEF DeleteUser, At, GrantInv, Typed, Idle, Owning, mailbox, Deletable
  <2>2. CASE account' = account
    BY <2>1, <2>2, SignupSteps DEF Labels, Before, Idle
  <2>3. CASE i \in Live /\ account' = [account EXCEPT ![i].state = "gone"]
    <3>1. account[i] \in Account
      BY <2>3 DEF Live, GrantInv, Typed, Absent
    <3>2. Live' = Live \ {i} /\ \A j \in Live' : account'[j] = account[j]
      BY <2>3, <3>1 DEF Live, GrantInv, Typed, Account
    <3>3. /\ signup'[v] \in Signup /\ signup'[v].pc = "removeLead" /\ signup'[v].id = i
          /\ \A w \in Visitors : w # v => signup'[w] = signup[w]
      BY <2>1 DEF Step, GrantInv, Typed, Signup, Labels
    <3>4. Typed'
      <4>1. [account[i] EXCEPT !.state = "gone"] \in Account
        BY <3>1 DEF Account
      <4>2. account' \in [Ids -> {Absent} \union Account]
        BY <2>3, <4>1 DEF GrantInv, Typed
      <4>3. signup' \in [Visitors -> {Idle} \union Signup]
        BY <2>1, <3>3 DEF Step, GrantInv, Typed
      <4>4. \A j \in Ids : j > created => account'[j] = Absent
        BY <2>3 DEF GrantInv, Typed, Live, Absent
      <4>5. QED
        BY <2>1, <4>2, <4>3, <4>4 DEF GrantInv, Typed
    <3>5. OwnAccount(v)
      BY <2>1 DEF GrantInv
    <3>6. UniqueEmails' /\ (granted \subseteq Live \intersect mailed)'
      BY <2>1, <3>2, <3>5 DEF UniqueEmails, GrantInv, OwnAccount
    <3>7. ASSUME NEW w \in Visitors, Owning(w)' PROVE OwnAccount(w)'
      <4>1. Owning(w) /\ OwnAccount(w) /\ signup'[w].id = signup[w].id
        BY <2>1, <3>3, <3>7 DEF Owning, GrantInv
      <4>2. w # v => signup[w].id # i
        BY <2>1, <4>1 DEF OwnAccount
      <4>3. \A u \in Visitors : Owning(u)' => Owning(u) /\ signup'[u].id = signup[u].id
        BY <2>1, <3>3 DEF Owning
      <4>4. QED
        BY <2>1, <3>2, <3>3, <4>1, <4>2, <4>3 DEF OwnAccount
    <3>8. QED
      BY <3>4, <3>6, <3>7 DEF GrantInv
  <2>4. QED
    BY <2>1, <2>2, <2>3
<1>7. ASSUME NEW v \in Visitors, RemoveLead(v) PROVE GrantInv'
  BY <1>7, SignupEnds DEF RemoveLead, database, mailbox
<1>8. ASSUME NEW v \in Visitors, Reply(v) PROVE GrantInv'
  <2>1. /\ signup[v].pc = "reply" /\ signup' = [signup EXCEPT ![v] = Idle]
        /\ granted' = granted \union {signup[v].id} /\ UNCHANGED <<account, created, mailed>>
    BY <1>8 DEF Reply, At, Answer, database, mailbox, budget
  <2>2. Owning(v) /\ OwnAccount(v)
    BY <2>1 DEF Owning, GrantInv
  <2>3. /\ Typed' /\ UniqueEmails' /\ Live' = Live /\ signup'[v] = Idle
        /\ \A w \in Visitors : w # v => signup'[w] = signup[w]
    BY <2>1 DEF GrantInv, Typed, UniqueEmails, Live
  <2>4. (granted \subseteq Live \intersect mailed)'
    BY <2>1, <2>2, <2>3 DEF GrantInv, OwnAccount
  <2>5. ASSUME NEW w \in Visitors, Owning(w)' PROVE OwnAccount(w)'
    <3>1. w # v /\ Owning(w) /\ OwnAccount(w)
      BY <2>3, <2>5 DEF Owning, Idle, GrantInv
    <3>2. signup[w].id # signup[v].id
      BY <2>2, <3>1 DEF OwnAccount
    <3>3. \A u \in Visitors : Owning(u)' => Owning(u) /\ signup'[u] = signup[u]
      BY <2>3 DEF Owning, Idle
    <3>4. QED
      BY <2>1, <2>3, <2>5, <3>1, <3>2, <3>3 DEF OwnAccount
  <2>6. QED
    BY <2>3, <2>4, <2>5 DEF GrantInv
<1>9. ASSUME NEW e \in Emails, NEW kind \in {"login", "forgot"}, Approach(e, kind) PROVE GrantInv'
  <2>1. UNCHANGED <<account, signup, created, granted, mailed>>
    BY <1>9 DEF Approach, database, mailbox, budget, history
  <2>2. QED
    BY <2>1 DEF GrantInv, Typed, UniqueEmails, Owning, OwnAccount, Live
<1>10. ASSUME NEW e \in Emails, InsertToken(e) PROVE GrantInv'
  <2>1. UNCHANGED <<account, signup, created, granted, mailed>>
    BY <1>10 DEF InsertToken, budget, history
  <2>2. QED
    BY <2>1 DEF GrantInv, Typed, UniqueEmails, Owning, OwnAccount, Live
<1>11. ASSUME NEW i \in Ids, ResetPassword(i) PROVE GrantInv'
  <2>1. /\ i \in Live /\ account' = [account EXCEPT ![i].password = "chosen"]
        /\ UNCHANGED <<signup, created, granted, mailed>>
    BY <1>11 DEF ResetPassword, mailbox, requests, budget, history
  <2>2. account[i] \in Account
    BY <2>1 DEF Live, GrantInv, Typed, Absent
  <2>3. Typed'
    BY <2>1, <2>2 DEF GrantInv, Typed, Account, Live, Absent
  <2>4. Live' = Live /\ \A j \in Live : account'[j].email = account[j].email
    BY <2>1, <2>2 DEF Live, GrantInv, Typed, Account
  <2>5. \A v \in Visitors : Owning(v) /\ signup[v].pc = "reply" => signup[v].id \in mailed
    BY DEF GrantInv, OwnAccount
  <2>6. \A v \in Visitors : Owning(v)' => Owning(v)
    BY <2>1 DEF Owning
  <2>7. QED
    BY <2>1, <2>3, <2>4, <2>5, <2>6, SignupsMove
<1>12. CASE Crash
  <2>1. UNCHANGED <<account, created, granted, mailed>> /\ signup' = [v \in Visitors |-> Idle]
    BY <1>12 DEF Crash, database, mailbox
  <2>2. Typed' /\ \A v \in Visitors : ~Owning(v)'
    BY <2>1 DEF GrantInv, Typed, Owning, Idle
  <2>3. QED
    BY <2>1, <2>2, SignupsMove DEF Live
<1>13. CASE UNCHANGED vars
  BY <1>13 DEF vars, database, mailbox, requests, budget, history,
               GrantInv, Typed, UniqueEmails, Owning, OwnAccount, Live
<1>14. QED
  BY <1>1, <1>2, <1>3, <1>4, <1>5, <1>6, <1>7, <1>8, <1>9, <1>10, <1>11, <1>12, <1>13 DEF Next

\* Who was told that access is granted has it for good, for any number of visitors and
\* signups, failed calls and crashes (subscribe and its rollback).
THEOREM GrantLasts == Spec => []GrantedIsLasting
<1>1. GrantInv => GrantedIsLasting
  BY DEF GrantInv, UniqueEmails, GrantedIsLasting, UserOf, Live
<1>2. QED
  BY GrantInit, GrantInductive, <1>1, PTL DEF Spec

-----------------------------------------------------------------------------
(* Orphans.                                                                  *)

Cared == mailed \union linked \union excused \union referenced

\* The signups that may still send the credentials or take the account back.
InHand(i) == \E v \in Visitors : signup[v].pc \in {"saveLead", "send", "delete"} /\ signup[v].id = i

OrphanInv ==
  /\ \A v \in Visitors : signup[v] # Idle => form[v] = "loading"
  /\ form \in [Visitors -> Forms]
  /\ \A i \in Live : InHand(i) \/ i \in Cared

LEMMA OrphanInit == Init => OrphanInv
  BY DEF Init, OrphanInv, Live, Absent, Forms

\* A step that keeps the accounts, or takes some, and lets none out of hand uncared for.
LEMMA CareGoesOn ==
  ASSUME OrphanInv, Live' \subseteq Live, Cared \subseteq Cared', form' \in [Visitors -> Forms],
         \A v \in Visitors : signup'[v] # Idle => form'[v] = "loading",
         \A v \in Visitors : signup[v].pc \in {"saveLead", "send", "delete"} =>
           \/ signup'[v].pc \in {"saveLead", "send", "delete"} /\ signup'[v].id = signup[v].id
           \/ signup[v].id \in Live' => signup[v].id \in Cared'
  PROVE  OrphanInv'
<1>1. ASSUME NEW i \in Live' PROVE InHand(i)' \/ i \in Cared'
  <2>1. CASE i \in Cared
    BY <2>1
  <2>2. CASE InHand(i)
    <3>1. PICK v \in Visitors : signup[v].pc \in {"saveLead", "send", "delete"} /\ signup[v].id = i
      BY <2>2 DEF InHand
    <3>2. QED
      BY <1>1, <3>1 DEF InHand
  <2>3. QED
    BY <1>1, <2>1, <2>2 DEF OrphanInv
<1>2. QED
  BY <1>1 DEF OrphanInv

\* A request that goes on keeps its account and its page waiting, and touches no other.
LEMMA StaysInHand ==
  ASSUME GrantInv, OrphanInv, NEW v \in Visitors, NEW label, Step(v, label), signup[v] # Idle
  PROVE  /\ signup'[v].pc = label /\ signup'[v].id = signup[v].id
         /\ \A w \in Visitors : w # v => signup'[w] = signup[w]
         /\ \A w \in Visitors : signup'[w] # Idle => form[w] = "loading"
<1>1. signup[v] \in Signup
  BY DEF GrantInv, Typed
<1>2. /\ signup'[v].pc = label /\ signup'[v].id = signup[v].id
      /\ \A w \in Visitors : w # v => signup'[w] = signup[w]
  BY <1>1 DEF Step, Signup, GrantInv, Typed
<1>3. QED
  BY <1>2 DEF OrphanInv

LEMMA OrphanInductive == GrantInv /\ OrphanInv /\ [Next]_vars => OrphanInv'
<1> SUFFICES ASSUME GrantInv, OrphanInv, [Next]_vars PROVE OrphanInv'
  OBVIOUS
<1>1. ASSUME NEW v \in Visitors, NEW e \in Emails, Submit(v, e) PROVE OrphanInv'
  <2>1. signup[v] = Idle
    BY <1>1 DEF Submit, OrphanInv
  <2>2. /\ form' \in [Visitors -> Forms]
        /\ \A w \in Visitors : signup'[w] # Idle => form'[w] = "loading"
    BY <1>1, <2>1 DEF Submit, OrphanInv, GrantInv, Typed, Forms
  <2>3. \A w \in Visitors : signup[w].pc \in {"saveLead", "send", "delete"} => signup'[w] = signup[w]
    BY <1>1, <2>1 DEF Submit, Idle, GrantInv, Typed
  <2>4. Live' = Live /\ Cared' = Cared
    BY <1>1 DEF Submit, Live, Cared, database, mailbox, history
  <2>5. QED
    BY <2>2, <2>3, <2>4, CareGoesOn
<1>2. ASSUME NEW v \in Visitors, FindExisting(v) PROVE OrphanInv'
  <2>0. signup[v].pc = "find" /\ Live' = Live /\ Cared' = Cared
    BY <1>2 DEF FindExisting, At, Live, Cared, database, mailbox
  <2>1. /\ signup[v].pc = "find" /\ Live' = Live /\ Cared' = Cared
        /\ \A w \in Visitors : w # v => signup'[w] = signup[w] /\ form'[w] = form[w]
    BY <1>2, <2>0 DEF FindExisting, Step, Answer, GrantInv, Typed, OrphanInv
  <2>2. /\ form' \in [Visitors -> Forms]
        /\ signup'[v] # Idle => form'[v] = "loading"
    BY <1>2 DEF FindExisting, At, Step, Answer, OrphanInv, GrantInv, Typed, Forms, Idle
  <2>3. QED
    BY <2>1, <2>2, CareGoesOn DEF OrphanInv
<1>3. ASSUME NEW v \in Visitors, CreateUser(v) PROVE OrphanInv'
  <2>1. /\ signup[v].pc = "create" /\ Cared' = Cared
        /\ \A w \in Visitors : w # v => signup'[w] = signup[w] /\ form'[w] = form[w]
    <3>1. signup[v].pc = "create" /\ Cared' = Cared
      BY <1>3 DEF CreateUser, At, Cared, mailbox, history
    <3>2. QED
      BY <1>3, <3>1 DEF CreateUser, Answer, GrantInv, Typed, OrphanInv
  <2>2. CASE Answer(v, "error") /\ UNCHANGED account
    BY <2>1, <2>2, CareGoesOn DEF Answer, OrphanInv, GrantInv, Typed, Forms, Live, Idle
  <2>3. CASE /\ account' = [account EXCEPT ![created + 1] = NewAccount(v)]
             /\ signup' = [signup EXCEPT ![v].pc = "saveLead", ![v].id = created + 1]
             /\ UNCHANGED form
    <3>1. signup[v] \in Signup
      BY <2>1 DEF GrantInv, Typed, Idle
    <3>2. signup'[v].pc = "saveLead" /\ signup'[v].id = created + 1
      BY <2>3, <3>1 DEF GrantInv, Typed, Signup
    <3>3. \A i \in Live' : i = created + 1 \/ i \in Live
      BY <2>3 DEF Live, GrantInv, Typed
    <3>4. \A i \in Live : InHand(i) => InHand(i)'
      BY <2>1 DEF InHand
    <3>5. \A i : i = created + 1 => InHand(i)'
      BY <2>3, <3>2 DEF InHand
    <3>6. \A w \in Visitors : signup'[w] # Idle => form'[w] = "loading"
      BY <2>1, <2>3, <3>1 DEF OrphanInv, Idle
    <3>7. QED
      BY <2>1, <2>3, <3>3, <3>4, <3>5, <3>6 DEF OrphanInv
  <2>4. QED
    BY <1>3, <2>2, <2>3 DEF CreateUser
<1>4. ASSUME NEW v \in Visitors, SaveLead(v) PROVE OrphanInv'
  <2>1. /\ signup[v].pc = "saveLead" /\ Step(v, "send")
        /\ UNCHANGED <<account, form, mailed, linked, excused, referenced>>
    BY <1>4 DEF SaveLead, At, database, mailbox
  <2>2. QED
    BY <2>1, StaysInHand, CareGoesOn DEF OrphanInv, Live, Cared, Idle
<1>5. ASSUME NEW v \in Visitors, SendWelcomeEmail(v) PROVE OrphanInv'
  <2>1. /\ signup[v].pc = "send" /\ UNCHANGED <<account, form, linked, excused, referenced>>
        /\ \/ Step(v, "reply") /\ mailed' = mailed \union {signup[v].id}
           \/ Step(v, "delete") /\ mailed \subseteq mailed'
    BY <1>5 DEF SendWelcomeEmail, At, database, history
  <2>2. Live' = Live /\ Cared \subseteq Cared' /\ mailed' \subseteq Cared'
    BY <2>1 DEF Live, Cared
  <2>3. QED
    BY <2>1, <2>2, StaysInHand, CareGoesOn DEF OrphanInv, Idle
<1>6. ASSUME NEW v \in Visitors, DeleteUser(v) PROVE OrphanInv'
  <2>1. /\ signup[v].pc = "delete" /\ Step(v, "removeLead")
        /\ UNCHANGED <<form, mailed, linked, referenced>> /\ excused \subseteq excused'
    BY <1>6 DEF DeleteUser, At, mailbox
  <2>2. signup[v] \in Signup
    BY <2>1 DEF GrantInv, Typed, Idle
  <2>3. Live' \subseteq Live /\ (signup[v].id \in Live' => signup[v].id \in excused' \union referenced)
    <3> DEFINE i == signup[v].id
    <3>1. CASE account' = account /\ excused' = excused \union {i}
      BY <3>1 DEF Live
    <3>2. CASE account' = account /\ ~Deletable(i)
      BY <3>2 DEF Live, Deletable
    <3>3. CASE Deletable(i) /\ account' = [account EXCEPT ![i].state = "gone"]
      <4>1. i \in Live /\ account[i] \in Account
        BY <3>3 DEF Deletable, Live, GrantInv, Typed, Absent
      <4>2. Live' = Live \ {i}
        BY <3>3, <4>1 DEF Live, GrantInv, Typed, Account
      <4>3. QED
        BY <4>2
    <3>4. QED
      BY <1>6, <3>1, <3>2, <3>3 DEF DeleteUser
  <2>4. Cared \subseteq Cared' /\ excused' \union referenced \subseteq Cared'
    BY <2>1 DEF Cared
  <2>5. QED
    BY <2>1, <2>3, <2>4, StaysInHand, CareGoesOn DEF OrphanInv, Idle
<1>7. ASSUME NEW v \in Visitors, RemoveLead(v) PROVE OrphanInv'
  <2>1. /\ signup[v].pc = "removeLead" /\ Answer(v, "error")
        /\ UNCHANGED <<account, mailed, linked, excused, referenced>>
    BY <1>7 DEF RemoveLead, At, database, mailbox
  <2>2. QED
    BY <2>1, CareGoesOn DEF Answer, OrphanInv, GrantInv, Typed, Forms, Live, Cared
<1>8. ASSUME NEW v \in Visitors, Reply(v) PROVE OrphanInv'
  <2>1. /\ signup[v].pc = "reply" /\ Answer(v, "success")
        /\ UNCHANGED <<account, mailed, linked, excused, referenced>>
    BY <1>8 DEF Reply, At, database, mailbox
  <2>2. QED
    BY <2>1, CareGoesOn DEF Answer, OrphanInv, GrantInv, Typed, Forms, Live, Cared
<1>9. ASSUME NEW e \in Emails, NEW kind \in {"login", "forgot"}, Approach(e, kind) PROVE OrphanInv'
  <2>1. UNCHANGED <<account, signup, form, mailed, linked, excused, referenced>>
    BY <1>9 DEF Approach, database, mailbox, budget, history
  <2>2. QED
    BY <2>1, CareGoesOn DEF OrphanInv, Live, Cared
<1>10. ASSUME NEW e \in Emails, InsertToken(e) PROVE OrphanInv'
  <2>1. /\ UNCHANGED <<account, signup, form, mailed, excused>>
        /\ linked \subseteq linked' /\ referenced \subseteq referenced'
    BY <1>10 DEF InsertToken, budget, history
  <2>2. Live' = Live /\ Cared \subseteq Cared'
    BY <2>1 DEF Live, Cared
  <2>3. QED
    BY <2>1, <2>2, CareGoesOn DEF OrphanInv
<1>11. ASSUME NEW i \in Ids, ResetPassword(i) PROVE OrphanInv'
  <2>1. /\ i \in Live /\ account' = [account EXCEPT ![i].password = "chosen"]
        /\ UNCHANGED <<signup, form, mailed, linked, excused, referenced>>
    BY <1>11 DEF ResetPassword, mailbox, requests, history
  <2>2. account[i] \in Account
    BY <2>1 DEF Live, GrantInv, Typed, Absent
  <2>3. Live' = Live
    BY <2>1, <2>2 DEF Live, GrantInv, Typed, Account
  <2>4. QED
    BY <2>1, <2>3, CareGoesOn DEF OrphanInv, Cared
<1>12. CASE Crash
  <2> DEFINE cut == {v \in Visitors : signup[v] # Idle}
  <2>1. /\ signup' = [v \in Visitors |-> Idle]
        /\ form' = [v \in Visitors |-> IF v \in cut THEN "error" ELSE form[v]]
        /\ excused' = excused \union {signup[v].id : v \in cut}
        /\ UNCHANGED <<account, mailed, linked, referenced>>
    BY <1>12 DEF Crash, database, mailbox
  <2>2. \A v \in Visitors : signup[v].pc \in {"saveLead", "send", "delete"} => signup[v].id \in Cared'
    BY <2>1 DEF Idle, Cared
  <2>3. Live' = Live /\ Cared \subseteq Cared' /\ form' \in [Visitors -> Forms]
    BY <2>1 DEF Live, Cared, OrphanInv, Forms
  <2>4. QED
    BY <2>1, <2>2, <2>3, CareGoesOn
<1>13. CASE UNCHANGED vars
  <2>1. UNCHANGED <<account, signup, form, mailed, linked, excused, referenced>>
    BY <1>13 DEF vars, database, mailbox, requests, history
  <2>2. QED
    BY <2>1, CareGoesOn DEF OrphanInv, Live, Cared
<1>14. QED
  BY <1>1, <1>2, <1>3, <1>4, <1>5, <1>6, <1>7, <1>8, <1>9, <1>10, <1>11, <1>12, <1>13 DEF Next

\* No account is left whose credentials were never sent but those that a failed call, the end
\* of the process or a token has kept, for any number of visitors, signups and mishaps
\* (the rollback in subscribe).
THEOREM NobodyOrphaned == Spec => []NoOrphans
<1>1. OrphanInv => NoOrphans
  BY DEF OrphanInv, NoOrphans, InHand, Owned, Cared, Idle
<1>2. QED
  BY GrantInit, GrantInductive, OrphanInit, OrphanInductive, <1>1, PTL DEF Spec

-----------------------------------------------------------------------------
(* Leads.                                                                    *)

Users(e) == {i \in Live : account[i].email = e}

\* The lead of an address, step by step of the one signup that works on it.
LeadsAt(e) ==
  /\ \A v, w \in Working(e) : v = w
  /\ Working(e) = {} => \/ e \in leads <=> Users(e) # {}
                        \/ Users(e) # {} /\ Users(e) \subseteq excused \union referenced
  /\ \A v \in Working(e) :
       LET s == signup[v] IN
       /\ s.pc = "create" => Users(e) = {} /\ e \notin leads
       /\ s.pc \in {"saveLead", "send", "delete", "reply"} => Users(e) = {s.id}
       /\ s.pc \in {"send", "delete", "removeLead", "reply"} => e \in leads
       /\ s.pc = "removeLead" => Users(e) \subseteq excused \union referenced

OwnEmail(v) == account[signup[v].id].email = signup[v].email

LeadInv ==
  /\ \A v \in Visitors : Owning(v) => OwnEmail(v)
  /\ \A e \in Emails \ disturbed : LeadsAt(e)

LEMMA LeadInit == Init => LeadInv
<1> SUFFICES ASSUME Init PROVE LeadInv
  OBVIOUS
<1>1. \A v \in Visitors : signup[v] = Idle
  BY DEF Init
<1>2. Live = {} /\ leads = {}
  BY DEF Init, Live, Absent
<1>3. \A e : Working(e) = {} /\ Users(e) = {}
  BY <1>1, <1>2 DEF Working, Users, Idle
<1>4. QED
  BY <1>1, <1>2, <1>3 DEF LeadInv, LeadsAt, Owning, Idle

\* An address has one user at most, the one that is found.
LEMMA UsersFound ==
  ASSUME GrantInv, NEW e
  PROVE  /\ UserOf(e) = NoUser <=> Users(e) = {}
         /\ UserOf(e) # NoUser => Users(e) = {UserOf(e)}
<1>1. \A i, j \in Users(e) : i = j
  BY DEF Users, GrantInv, UniqueEmails
<1>2. CASE Users(e) = {}
  <2>1. UserOf(e) = NoUser
    BY <1>2 DEF UserOf, Users
  <2>2. QED
    BY <1>2, <2>1
<1>3. CASE Users(e) # {}
  <2>1. \E i \in Live : account[i].email = e
    BY <1>3 DEF Users
  <2>2. UserOf(e) \in Live /\ account[UserOf(e)].email = e
    BY <2>1 DEF UserOf
  <2>3. UserOf(e) \in Users(e) /\ UserOf(e) # NoUser
    BY <2>2 DEF Users, Live, Ids, NoUser
  <2>4. QED
    BY <1>1, <2>3
<1>4. QED
  BY <1>2, <1>3

\* A signup is of one address and is idle or at one of its steps.
LEMMA SignupKinds ==
  ASSUME GrantInv, NEW v \in Visitors
  PROVE  /\ signup[v] = Idle => signup[v].pc = "idle"
         /\ signup[v] # Idle => signup[v] \in Signup
         /\ \A e : v \in Working(e) <=> signup[v].pc \notin {"idle", "find"} /\ signup[v].email = e
<1>1. signup[v] \in {Idle} \union Signup
  BY DEF GrantInv, Typed
<1>2. QED
  BY <1>1 DEF Working, Idle

LEMMA OwnedIds ==
  ASSUME GrantInv, NEW v \in Visitors, Owning(v)
  PROVE  signup[v].id \in Ids
<1>1. signup[v].id \in 1..created
  BY DEF GrantInv, OwnAccount
<1>2. created \in Nat /\ created <= MaxAccounts
  BY DEF GrantInv, Typed
<1>3. QED
  BY <1>1, <1>2, LimitsAssumption DEF Ids

\* What an address has to do with stays as it is.
LEMMA Untouched ==
  ASSUME NEW e, LeadsAt(e), Users(e)' = Users(e), e \in leads' <=> e \in leads, Working(e)' = Working(e),
         \A v \in Working(e) : signup'[v] = signup[v],
         excused \subseteq excused', referenced \subseteq referenced'
  PROVE  LeadsAt(e)'
  BY DEF LeadsAt

\* No signup moves and no lead changes.
LEMMA OwnersStep ==
  ASSUME LeadInv, UNCHANGED <<leads, signup>>, Live' = Live, disturbed \subseteq disturbed',
         \A i \in Ids : account'[i].email = account[i].email, GrantInv,
         excused \subseteq excused', referenced \subseteq referenced'
  PROVE  LeadInv'
<1>1. \A e : Users(e)' = Users(e) /\ Working(e)' = Working(e)
  BY DEF Users, Working, Live
<1>2. \A e \in Emails \ disturbed' : LeadsAt(e)'
  BY <1>1, Untouched DEF LeadInv
<1>3. \A v \in Visitors : Owning(v) => signup[v].id \in Ids
  BY OwnedIds
<1>4. \A v \in Visitors : Owning(v)' => OwnEmail(v)'
  BY <1>3 DEF LeadInv, Owning, OwnEmail
<1>5. QED
  BY <1>2, <1>4 DEF LeadInv

\* The signup of v moves, and what it is about is the address e.
LEMMA SignupWorks ==
  ASSUME GrantInv, LeadInv, NEW v \in Visitors, NEW e, \A w \in Visitors : w # v => signup'[w] = signup[w],
         signup[v] # Idle => signup[v].email = e,
         signup'[v] # Idle => signup'[v].email = e,
         \A f \in Emails : f # e => Users(f)' = Users(f) /\ (f \in leads' <=> f \in leads),
         \A w \in Visitors : Owning(w) /\ w # v => account'[signup[w].id].email = account[signup[w].id].email,
         disturbed \subseteq disturbed', excused \subseteq excused', referenced \subseteq referenced',
         Owning(v)' => OwnEmail(v)',
         e \in Emails \ disturbed' => LeadsAt(e)'
  PROVE  LeadInv'
<1>1. ASSUME NEW f \in Emails \ disturbed', f # e PROVE LeadsAt(f)'
  <2>1. v \notin Working(f) /\ v \notin Working(f)'
    BY <1>1, SignupKinds DEF Working, Idle
  <2>2. Working(f)' = Working(f) /\ \A w \in Working(f) : signup'[w] = signup[w]
    BY <2>1 DEF Working
  <2>3. LeadsAt(f) /\ Users(f)' = Users(f) /\ (f \in leads' <=> f \in leads)
    BY <1>1 DEF LeadInv
  <2>4. QED
    BY <2>2, <2>3, Untouched
<1>2. ASSUME NEW w \in Visitors, Owning(w)', w # v PROVE OwnEmail(w)'
  BY <1>2 DEF LeadInv, Owning, OwnEmail
<1>3. QED
  BY <1>1, <1>2 DEF LeadInv

\* The signup of v that works on e alone goes on to a later step.
LEMMA WorkGoesOn ==
  ASSUME GrantInv, NEW v \in Visitors, NEW e, LeadsAt(e), v \in Working(e),
         \A w \in Visitors : w # v => signup'[w] = signup[w],
         signup'[v].email = e, signup'[v].pc \notin {"idle", "find"},
         signup'[v].pc = "create" => Users(e)' = {} /\ e \notin leads',
         signup'[v].pc \in {"saveLead", "send", "delete", "reply"} => Users(e)' = {signup'[v].id},
         signup'[v].pc \in {"send", "delete", "removeLead", "reply"} => e \in leads',
         signup'[v].pc = "removeLead" => Users(e)' \subseteq excused' \union referenced'
  PROVE  LeadsAt(e)'
<1>1. Working(e) = {v}
  BY DEF LeadsAt
<1>2. Working(e)' = {v}
  BY <1>1 DEF Working
<1>3. QED
  BY <1>2 DEF LeadsAt

\* It is over.
LEMMA WorkEnds ==
  ASSUME GrantInv, NEW v \in Visitors, NEW e, LeadsAt(e), v \in Working(e),
         \A w \in Visitors : w # v => signup'[w] = signup[w], signup'[v] = Idle,
         \/ e \in leads' <=> Users(e)' # {}
         \/ Users(e)' # {} /\ Users(e)' \subseteq excused' \union referenced'
  PROVE  LeadsAt(e)'
<1>1. Working(e) = {v}
  BY DEF LeadsAt
<1>2. Working(e)' = {}
  BY <1>1 DEF Working, Idle
<1>3. QED
  BY <1>2 DEF LeadsAt

\* What a step and an answer do to the signups.
LEMMA SignupMoves ==
  ASSUME GrantInv, NEW v \in Visitors
  PROVE  /\ \A label : Step(v, label) /\ signup[v] # Idle =>
              /\ signup'[v].pc = label /\ signup'[v].email = signup[v].email
              /\ signup'[v].id = signup[v].id
              /\ \A w \in Visitors : w # v => signup'[w] = signup[w]
         /\ \A outcome : Answer(v, outcome) =>
              signup'[v] = Idle /\ \A w \in Visitors : w # v => signup'[w] = signup[w]
<1>1. signup[v] # Idle => signup[v] \in Signup
  BY SignupKinds
<1>2. ASSUME NEW label, Step(v, label), signup[v] # Idle
      PROVE  /\ signup'[v].pc = label /\ signup'[v].email = signup[v].email
             /\ signup'[v].id = signup[v].id
             /\ \A w \in Visitors : w # v => signup'[w] = signup[w]
  BY <1>1, <1>2 DEF Step, GrantInv, Typed, Signup
<1>3. QED
  BY <1>2 DEF Answer, GrantInv, Typed

LEMMA LeadInductive == GrantInv /\ OrphanInv /\ LeadInv /\ [Next]_vars => LeadInv'
<1> SUFFICES ASSUME GrantInv, OrphanInv, LeadInv, [Next]_vars PROVE LeadInv'
  OBVIOUS
<1>0. \A v \in Visitors : Owning(v) => OwnAccount(v) /\ OwnEmail(v) /\ signup[v].id \in Ids
  BY OwnedIds DEF GrantInv, LeadInv
<1>1. ASSUME NEW v \in Visitors, NEW e \in Emails, Submit(v, e) PROVE LeadInv'
  <2>1. UNCHANGED <<account, leads, excused, referenced, disturbed>> /\ signup[v] = Idle
    BY <1>1 DEF Submit, database, history, OrphanInv
  <2>2. PICK q : q = [pc |-> "find", email |-> e, id |-> NoUser]
    OBVIOUS
  <2>3. q.pc = "find"
    BY <2>2
  <2>4. signup' = signup \/ signup' = [signup EXCEPT ![v] = q]
    BY <1>1, <2>2 DEF Submit
  <2>5. \A w \in Visitors : w # v => signup'[w] = signup[w]
    BY <2>4 DEF GrantInv, Typed
  <2>6. signup'[v].pc \in {"idle", "find"} /\ signup[v].pc = "idle"
    BY <2>1, <2>3, <2>4 DEF GrantInv, Typed, Idle
  <2>7. \A f : Working(f)' = Working(f) /\ v \notin Working(f)
    BY <2>5, <2>6 DEF Working
  <2>8. \A f : Users(f)' = Users(f)
    BY <2>1 DEF Users, Live
  <2>9. \A f : \A w \in Working(f) : signup'[w] = signup[w]
    BY <2>5, <2>7 DEF Working
  <2>10. \A f \in Emails \ disturbed' : LeadsAt(f)'
    BY <2>1, <2>7, <2>8, <2>9, Untouched DEF LeadInv
  <2>11. \A w \in Visitors : Owning(w)' => OwnEmail(w)'
    BY <2>1, <2>5, <2>6 DEF LeadInv, Owning, OwnEmail
  <2>12. QED
    BY <2>10, <2>11 DEF LeadInv
<1>2. ASSUME NEW v \in Visitors, FindExisting(v) PROVE LeadInv'
  <2> DEFINE e == signup[v].email
  <2>1. /\ UNCHANGED <<account, leads, excused, referenced>> /\ signup[v].pc = "find"
        /\ disturbed' = IF Working(e) # {} THEN disturbed \union {e} ELSE disturbed
        /\ IF UserOf(e) = NoUser THEN Step(v, "create") ELSE Answer(v, "conflict")
    BY <1>2 DEF FindExisting, At, database
  <2>2. signup[v] \in Signup /\ signup[v] # Idle /\ e \in Emails
    BY <2>1, SignupKinds DEF Idle, Signup
  <2>3. /\ \A w \in Visitors : w # v => signup'[w] = signup[w]
        /\ signup'[v] = Idle \/ (signup'[v].email = e /\ signup'[v].pc = "create" /\ UserOf(e) = NoUser)
    BY <2>1, <2>2, SignupMoves
  <2>4. \A f : Users(f)' = Users(f)
    BY <2>1 DEF Users, Live
  <2>5. PICK f : f = e
    OBVIOUS
  <2>6. ASSUME f \notin disturbed' PROVE LeadsAt(f)'
    <3>1. Working(f) = {} /\ LeadsAt(f)
      BY <2>1, <2>2, <2>5, <2>6 DEF LeadInv
    <3>2. CASE signup'[v] = Idle
      <4>1. Working(f)' = {}
        BY <2>3, <3>1, <3>2 DEF Working, Idle
      <4>2. QED
        BY <2>1, <2>4, <3>1, <4>1 DEF LeadsAt
    <3>3. CASE signup'[v].email = f /\ signup'[v].pc = "create" /\ UserOf(f) = NoUser
      <4>1. Working(f)' = {v}
        BY <2>3, <3>1, <3>3 DEF Working
      <4>2. Users(f) = {} /\ f \notin leads
        BY <3>1, <3>3, UsersFound DEF LeadsAt
      <4>3. QED
        BY <2>1, <2>4, <3>3, <4>1, <4>2 DEF LeadsAt
    <3>4. QED
      BY <2>3, <2>5, <3>2, <3>3
  <2>7. ~Owning(v)'
    BY <2>3 DEF Owning, Idle
  <2>8. \A w \in Visitors : Owning(w) /\ w # v => account'[signup[w].id].email = account[signup[w].id].email
    BY <2>1
  <2> HIDE DEF e
  <2>9. QED
    BY <2>1, <2>2, <2>3, <2>4, <2>5, <2>6, <2>7, <2>8, SignupWorks DEF e
<1>3. ASSUME NEW v \in Visitors, CreateUser(v) PROVE LeadInv'
  <2>1. signup[v] \in Signup /\ signup[v] # Idle /\ signup[v].pc = "create"
        /\ UNCHANGED <<leads, excused, referenced, disturbed>>
    BY <1>3, SignupKinds DEF CreateUser, At, Idle, history
  <2>2. PICK e \in Emails : e = signup[v].email
    BY <2>1 DEF Signup
  <2>3. v \in Working(e)
    BY <2>1, <2>2, SignupKinds
  <2>4. CASE UserOf(e) # NoUser
    <3>1. Answer(v, "error") /\ account' = account
      BY <1>3, <2>2, <2>4 DEF CreateUser
    <3>2. signup'[v] = Idle /\ \A w \in Visitors : w # v => signup'[w] = signup[w]
      BY <3>1, SignupMoves
    <3>3. ~LeadsAt(e)
      BY <2>1, <2>3, <2>4, UsersFound DEF LeadsAt
    <3>4. \A f : Users(f)' = Users(f)
      BY <3>1 DEF Users, Live
    <3>5. ~Owning(v)'
      BY <3>2 DEF Owning, Idle
    <3>6. e \in Emails \ disturbed' => LeadsAt(e)'
      BY <2>1, <3>3 DEF LeadInv
    <3>7. QED
      BY <2>1, <2>2, <3>1, <3>2, <3>4, <3>5, <3>6, SignupWorks
  <2>5. CASE UserOf(e) = NoUser
    <3> DEFINE new == created + 1
    <3>1. /\ new \in Ids /\ account' = [account EXCEPT ![new] = NewAccount(v)]
          /\ signup' = [signup EXCEPT ![v].pc = "saveLead", ![v].id = new]
      <4>1. created < MaxAccounts
        BY <1>3, <2>2, <2>5 DEF CreateUser
      <4>2. new \in Ids
        BY <4>1, LimitsAssumption DEF GrantInv, Typed, Ids
      <4>3. QED
        BY <1>3, <2>2, <2>5, <4>2 DEF CreateUser
    <3>2. account[new] = Absent
      BY <3>1 DEF GrantInv, Typed
    <3>3. /\ account'[new].state = "live" /\ account'[new].email = e
          /\ \A i \in Ids : i # new => account'[i] = account[i]
      BY <2>2, <3>1 DEF GrantInv, Typed, NewAccount
    <3>4. Users(e)' = Users(e) \union {new} /\ \A f : f # e => Users(f)' = Users(f)
      BY <3>1, <3>2, <3>3 DEF Users, Live, Absent
    <3>5. /\ signup'[v].pc = "saveLead" /\ signup'[v].id = new /\ signup'[v].email = e
          /\ \A w \in Visitors : w # v => signup'[w] = signup[w]
      BY <2>1, <2>2, <3>1 DEF GrantInv, Typed, Signup
    <3>6. Users(e) = {}
      BY <2>5, UsersFound
    <3>7. \A w \in Visitors : Owning(w) => signup[w].id # new /\ signup[w].id \in Ids
      BY <1>0 DEF OwnAccount, GrantInv, Typed
    <3>8. \A w \in Visitors : Owning(w) /\ w # v => account'[signup[w].id].email = account[signup[w].id].email
      BY <3>3, <3>7
    <3>9. OwnEmail(v)'
      BY <3>3, <3>5 DEF OwnEmail
    <3>10. e \in Emails \ disturbed' => LeadsAt(e)'
      <4>1. Users(e)' = {new}
        BY <3>4, <3>6
      <4> HIDE DEF new
      <4>2. QED
        BY <2>1, <2>3, <3>5, <4>1, WorkGoesOn DEF LeadInv
    <3> HIDE DEF new
    <3>11. QED
      BY <2>1, <2>2, <3>4, <3>5, <3>8, <3>9, <3>10, SignupWorks
  <2>6. QED
    BY <2>4, <2>5
\* The steps of a signup that owns its account but for the rollback's.
<1>4. ASSUME NEW v \in Visitors, NEW label \in {"send", "delete", "reply"}, Step(v, label),
             UNCHANGED <<account, referenced, excused>>, disturbed \subseteq disturbed', Owning(v),
             signup[v].pc \in {"saveLead", "send"},
             NEW e, e = signup[v].email,
             \A f : f # e => (f \in leads' <=> f \in leads),
             e \notin disturbed' => (e \in leads' /\ (e \notin leads => signup[v].pc = "saveLead"))
      PROVE  LeadInv'
  <2>1. signup[v] \in Signup /\ signup[v] # Idle /\ e \in Emails
    BY <1>4, SignupKinds DEF Owning, Idle, Signup
  <2>2. v \in Working(e)
    BY <1>4, SignupKinds
  <2>3. /\ signup'[v].pc = label /\ signup'[v].email = e /\ signup'[v].id = signup[v].id
        /\ \A w \in Visitors : w # v => signup'[w] = signup[w]
    BY <1>4, <2>1, SignupMoves
  <2>4. \A f : Users(f)' = Users(f)
    BY <1>4 DEF Users, Live
  <2>5. e \notin disturbed' => LeadsAt(e)'
    <3> SUFFICES ASSUME e \notin disturbed' PROVE LeadsAt(e)'
      OBVIOUS
    <3>1. LeadsAt(e) /\ e \in leads'
      BY <1>4, <2>1 DEF LeadInv
    <3>2. Users(e) = {signup[v].id}
      BY <1>4, <2>2, <3>1 DEF LeadsAt
    <3>3. QED
      BY <2>2, <2>3, <2>4, <3>1, <3>2, WorkGoesOn
  <2>6. OwnEmail(v)'
    BY <1>0, <1>4, <2>3 DEF OwnEmail
  <2>7. QED
    BY <1>4, <2>1, <2>3, <2>4, <2>5, <2>6, SignupWorks
<1>5. ASSUME NEW v \in Visitors, SaveLead(v) PROVE LeadInv'
  <2>1. /\ Step(v, "send") /\ UNCHANGED <<account, referenced, excused>> /\ Owning(v)
        /\ signup[v].pc = "saveLead"
    BY <1>5 DEF SaveLead, At, database, Owning
  <2>2. PICK e : e = signup[v].email
    OBVIOUS
  <2>3. \/ leads' = leads \union {e} /\ disturbed' = disturbed
        \/ leads' = leads /\ disturbed' = disturbed \union {e}
    BY <1>5, <2>2 DEF SaveLead
  <2>4. /\ disturbed \subseteq disturbed'
        /\ e \notin disturbed' => e \in leads'
        /\ \A f : f # e => (f \in leads' <=> f \in leads)
    BY <2>3
  <2>5. QED
    BY <1>4, <2>1, <2>2, <2>4
<1>6. ASSUME NEW v \in Visitors, SendWelcomeEmail(v) PROVE LeadInv'
  <2>1. /\ signup[v].pc = "send" /\ Owning(v) /\ UNCHANGED <<account, leads, referenced, excused, disturbed>>
        /\ Step(v, "reply") \/ Step(v, "delete")
    BY <1>6 DEF SendWelcomeEmail, At, Owning, database, history
  <2>2. PICK e : e = signup[v].email
    OBVIOUS
  <2>3. e \notin disturbed => e \in leads
    <3>1. e \in Emails /\ v \in Working(e)
      BY <2>1, <2>2, SignupKinds DEF Idle, Signup
    <3>2. QED
      BY <2>1, <3>1 DEF LeadInv, LeadsAt
  <2>4. QED
    BY <1>4, <2>1, <2>2, <2>3
<1>7. ASSUME NEW v \in Visitors, DeleteUser(v) PROVE LeadInv'
  <2> DEFINE i == signup[v].id
  <2>1. /\ signup[v].pc = "delete" /\ Step(v, "removeLead") /\ Owning(v)
        /\ UNCHANGED <<leads, referenced, disturbed>> /\ excused \subseteq excused'
    BY <1>7 DEF DeleteUser, At, Owning
  <2>2. signup[v] \in Signup /\ signup[v] # Idle /\ i \in Ids /\ OwnEmail(v)
    BY <1>0, <2>1, SignupKinds DEF Idle, Signup
  <2>3. PICK e \in Emails : e = signup[v].email
    BY <2>2 DEF Signup
  <2>4. v \in Working(e)
    BY <2>1, <2>3, SignupKinds
  <2>5. /\ signup'[v].pc = "removeLead" /\ signup'[v].email = e /\ signup'[v].id = i
        /\ \A w \in Visitors : w # v => signup'[w] = signup[w]
    BY <2>1, <2>2, <2>3, SignupMoves
  <2>6. /\ \A j \in Ids : account'[j].email = account[j].email
        /\ \A j \in Ids : j # i => account'[j] = account[j]
        /\ i \in Live' => i \in excused' \union referenced'
        /\ Live' \subseteq Live /\ Live \subseteq Live' \union {i}
    <3>1. CASE account' = account /\ excused' = excused \union {i}
      BY <2>1, <3>1 DEF Live
    <3>2. CASE account' = account /\ ~Deletable(i)
      BY <2>1, <3>2 DEF Live, Deletable
    <3>3. CASE Deletable(i) /\ account' = [account EXCEPT ![i].state = "gone"]
      <4>1. i \in Live /\ account[i] \in Account
        BY <3>3 DEF Deletable, Live, GrantInv, Typed, Absent
      <4>2. account'[i].state = "gone" /\ account'[i].email = account[i].email
            /\ \A j \in Ids : j # i => account'[j] = account[j]
        BY <2>2, <3>3, <4>1 DEF GrantInv, Typed, Account
      <4>3. Live' = Live \ {i}
        BY <4>2 DEF Live
      <4>4. QED
        BY <4>2, <4>3
    <3>4. QED
      BY <1>7, <3>1, <3>2, <3>3 DEF DeleteUser
  <2>7. /\ \A f : f # e => Users(f)' = Users(f)
        /\ Users(e)' \subseteq Users(e)
    <3>1. account[i].email = e
      BY <2>2, <2>3 DEF OwnEmail
    <3>2. \A j \in Live' \union Live : j \in Ids
      BY DEF Live
    <3>3. QED
      BY <2>6, <3>1, <3>2 DEF Users
  <2>8. e \notin disturbed' => LeadsAt(e)'
    <3> SUFFICES ASSUME e \notin disturbed' PROVE LeadsAt(e)'
      OBVIOUS
    <3>1. LeadsAt(e)
      BY <2>1 DEF LeadInv
    <3>2. Users(e) = {i} /\ e \in leads
      BY <2>1, <2>4, <3>1 DEF LeadsAt
    <3>3. Users(e)' \subseteq excused' \union referenced'
      BY <2>6, <2>7, <3>2 DEF Users
    <3> HIDE DEF i
    <3>4. QED
      BY <2>1, <2>4, <2>5, <3>1, <3>2, <3>3, WorkGoesOn
  <2>9. OwnEmail(v)'
    BY <2>2, <2>3, <2>5, <2>6 DEF OwnEmail
  <2>10. \A w \in Visitors : Owning(w) /\ w # v => account'[signup[w].id].email = account[signup[w].id].email
    BY <1>0, <2>6
  <2> HIDE DEF i
  <2>11. QED
    BY <2>1, <2>3, <2>5, <2>7, <2>8, <2>9, <2>10, SignupWorks
\* A signup that owns its account is over.
<1>8. ASSUME NEW v \in Visitors, RemoveLead(v) \/ Reply(v) PROVE LeadInv'
  <2>1. /\ signup[v].pc \in {"removeLead", "reply"} /\ \E outcome : Answer(v, outcome)
        /\ UNCHANGED <<account, referenced, excused>> /\ disturbed \subseteq disturbed'
    BY <1>8 DEF RemoveLead, Reply, At, database
  <2>2. signup[v] \in Signup /\ signup[v] # Idle
    BY <2>1, SignupKinds DEF Idle
  <2>3. PICK e \in Emails : e = signup[v].email
    BY <2>2 DEF Signup
  <2>4. v \in Working(e)
    BY <2>1, <2>3, SignupKinds
  <2>5. signup'[v] = Idle /\ \A w \in Visitors : w # v => signup'[w] = signup[w]
    BY <2>1, SignupMoves
  <2>6. \A f : Users(f)' = Users(f)
    BY <2>1 DEF Users, Live
  <2>7. \/ signup[v].pc = "removeLead" /\ (leads' = leads \ {e} \/ (leads' = leads /\ e \in disturbed'))
        \/ signup[v].pc = "reply" /\ leads' = leads
    BY <1>8, <2>3 DEF RemoveLead, Reply, At
  <2>8. e \notin disturbed' => LeadsAt(e)'
    <3> SUFFICES ASSUME e \notin disturbed' PROVE LeadsAt(e)'
      OBVIOUS
    <3>1. LeadsAt(e)
      BY <2>1 DEF LeadInv
    <3>2. \/ e \in leads' <=> Users(e)' # {}
          \/ Users(e)' # {} /\ Users(e)' \subseteq excused' \union referenced'
      <4>1. CASE signup[v].pc = "removeLead" /\ leads' = leads \ {e}
        <5>1. Users(e) \subseteq excused \union referenced
          BY <2>4, <3>1, <4>1 DEF LeadsAt
        <5>2. QED
          BY <2>1, <2>6, <4>1, <5>1
      <4>2. CASE signup[v].pc = "reply" /\ leads' = leads
        <5>1. Users(e) = {signup[v].id} /\ e \in leads
          BY <2>4, <3>1, <4>2 DEF LeadsAt
        <5>2. QED
          BY <2>6, <4>2, <5>1
      <4>3. QED
        BY <2>7, <4>1, <4>2
    <3>3. QED
      BY <2>4, <2>5, <3>1, <3>2, WorkEnds
  <2>9. ~Owning(v)'
    BY <2>5 DEF Owning, Idle
  <2>10. \A f : f # e => (f \in leads' <=> f \in leads)
    BY <2>7
  <2>11. QED
    BY <2>1, <2>3, <2>5, <2>6, <2>8, <2>9, <2>10, SignupWorks
<1>9. ASSUME NEW e \in Emails, NEW kind \in {"login", "forgot"}, Approach(e, kind) PROVE LeadInv'
  <2>1. UNCHANGED <<account, signup, leads, excused, disturbed, referenced>>
    BY <1>9 DEF Approach, database, history
  <2>2. QED
    BY <2>1, OwnersStep DEF Live
<1>10. ASSUME NEW e \in Emails, InsertToken(e) PROVE LeadInv'
  <2>1. UNCHANGED <<account, signup, leads, excused, disturbed>> /\ referenced \subseteq referenced'
    BY <1>10 DEF InsertToken, history
  <2>2. QED
    BY <2>1, OwnersStep DEF Live
<1>11. ASSUME NEW i \in Ids, ResetPassword(i) PROVE LeadInv'
  <2>1. /\ i \in Live /\ account' = [account EXCEPT ![i].password = "chosen"]
        /\ UNCHANGED <<signup, leads, excused, disturbed, referenced>>
    BY <1>11 DEF ResetPassword, requests, history
  <2>2. account[i] \in Account
    BY <2>1 DEF Live, GrantInv, Typed, Absent
  <2>3. Live' = Live /\ \A j \in Ids : account'[j].email = account[j].email
    BY <2>1, <2>2 DEF Live, GrantInv, Typed, Account
  <2>4. QED
    BY <2>1, <2>3, OwnersStep
<1>12. CASE Crash
  <2> DEFINE cut == {v \in Visitors : signup[v] # Idle}
  <2>1. /\ UNCHANGED <<account, leads, referenced>> /\ signup' = [v \in Visitors |-> Idle]
        /\ disturbed' = disturbed \union {signup[v].email : v \in cut} /\ excused \subseteq excused'
    BY <1>12 DEF Crash, database
  <2>2. ASSUME NEW f \in Emails \ disturbed' PROVE LeadsAt(f)'
    <3>1. LeadsAt(f)
      BY <2>1, <2>2 DEF LeadInv
    <3>2. Working(f) = {}
      BY <2>1, <2>2 DEF Working, Idle
    <3>3. Working(f)' = {} /\ Users(f)' = Users(f)
      BY <2>1 DEF Working, Idle, Users, Live
    <3>4. QED
      BY <2>1, <3>1, <3>2, <3>3, Untouched
  <2>3. \A v \in Visitors : ~Owning(v)'
    BY <2>1 DEF Owning, Idle
  <2>4. QED
    BY <2>2, <2>3 DEF LeadInv
<1>13. CASE UNCHANGED vars
  <2>1. UNCHANGED <<account, signup, leads, excused, disturbed, referenced>>
    BY <1>13 DEF vars, database, requests, history
  <2>2. QED
    BY <2>1, OwnersStep DEF Live
<1>14. QED
  BY <1>1, <1>2, <1>3, <1>5, <1>6, <1>7, <1>8, <1>9, <1>10, <1>11, <1>12, <1>13 DEF Next

\* The leads in Redis are the addresses with a user, for any number of visitors, addresses and
\* signups: but for addresses whose signups overlapped or met a failed call, and users that a
\* failed call or a token kept (saveLead and removeLead of subscribe).
THEOREM LeadsMatch == Spec => []LeadsMatchUsers
<1>1. GrantInv /\ LeadInv => LeadsMatchUsers
  <2> SUFFICES ASSUME GrantInv, LeadInv, NEW e \in Emails, Working(e) = {}, e \notin disturbed
               PROVE  \/ (e \in leads) = (UserOf(e) # NoUser)
                      \/ UserOf(e) # NoUser /\ UserOf(e) \in excused \union referenced
    BY DEF LeadsMatchUsers
  <2>1. \/ e \in leads <=> Users(e) # {}
        \/ Users(e) # {} /\ Users(e) \subseteq excused \union referenced
    BY DEF LeadInv, LeadsAt
  <2>2. QED
    BY <2>1, UsersFound
<1>2. QED
  BY GrantInit, GrantInductive, OrphanInit, OrphanInductive, LeadInit, LeadInductive, <1>1, PTL DEF Spec
=============================================================================
