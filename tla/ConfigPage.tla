------------------------------ MODULE ConfigPage ------------------------------
(***************************************************************************)
(* The configuration page in the browser of one administrator, and the     *)
(* requests of MotorConfig that it sends.  Everybody else's requests are   *)
(* the ones of MotorConfig as they are.                                    *)
(*                                                                         *)
(* The page shows what it has fetched and fetches it all again after each  *)
(* of its own changes; nothing tells it of a change somebody else makes.   *)
(* Four queries make a fetch: the database is read for each when the query *)
(* is served, and the page takes the four answers together.  Fetches may   *)
(* be answered in any order and may fail.                                  *)
(*                                                                         *)
(* Creating, renaming and deleting motors fetch in the same way and change *)
(* nothing that is shown here.                                             *)
(***************************************************************************)
EXTENDS MotorConfig, Sequences

VARIABLES
  shown,    \* what the page has last been given; before that, nothing
  loads,    \* the fetches under way, in the order in which they began
  form,     \* the modal that is open
  defaults, \* what the form of the sensor standards contains
  call,     \* for a request of this page: what sent it and what came of it
  behind    \* history: the page may show less than the database has

page    == <<shown, loads, form, defaults, call, behind>>
allVars == <<vars, page>>

Database == [motors |-> row, standards |-> standard, alerts |-> global, overrides |-> override]

Queries == {"motors", "standards", "alerts", "overrides"}

\* What has come of a fetch so far: the answers to some of its queries.
NoAnswers == [q \in {} |-> 0]

\* late: what it brings may be out of date by the time it is the last to be shown.
NewLoad == [got |-> NoAnswers, late |-> FALSE]
Late(l) == [got |-> l.got, late |-> TRUE]

\* The modals, with the motor and the values they hold, and the request they wait for.
OfThresholds == {"thresholds", "rule", "newRule"}
OfOverride   == {"override", "newOverride"}
NoForm       == [kind |-> "none"]

NoSlot == "none"
NoCall == [by |-> "none", reply |-> "none", alerts |-> NoAnswers]

InitPage ==
  /\ Init
  /\ shown = NoAnswers /\ loads = <<NewLoad>> /\ form = NoForm /\ defaults = NoAnswers
  /\ call = [s \in Slots |-> NoCall] /\ behind = FALSE

-----------------------------------------------------------------------------
(* fetchAll.                                                                 *)

\* The loads without the k-th, which has come before those that began earlier.
Without(k) ==
  [i \in 1..(Len(loads) - 1) |->
     IF i < k THEN Late(loads[i]) ELSE loads[i + 1]]

AnswerQuery(k, q) ==
  /\ q \notin DOMAIN loads[k].got
  /\ loads' = [loads EXCEPT ![k] =
       [got |-> [x \in DOMAIN @.got \union {q} |-> IF x = q THEN Database[q] ELSE @.got[x]],
        late |-> @.late]]
  /\ UNCHANGED <<vars, shown, form, defaults, call, behind>>

Loaded == shown # NoAnswers

\* The form of the standards is filled when its tab is mounted. A tab that has not been counts as
\* mounted when there was something to show, which OpenSensorsTab can make up for.
ShowLoad(k) ==
  /\ DOMAIN loads[k].got = Queries
  /\ shown' = loads[k].got /\ behind' = loads[k].late
  /\ loads' = Without(k)
  /\ defaults' = IF Loaded THEN defaults ELSE loads[k].got["standards"]
  /\ UNCHANGED <<vars, form, call>>

\* Promise.all rejects with the first query that fails; what is shown stays.
LoadFails(k) ==
  /\ behind' = TRUE
  /\ loads' = Without(k)
  /\ UNCHANGED <<vars, shown, form, defaults, call>>

\* Something has changed that no fetch of this page will follow.
Disturb ==
  /\ behind' = TRUE
  /\ loads' = [k \in DOMAIN loads |-> Late(loads[k])]

-----------------------------------------------------------------------------
(* The administrator.                                                        *)

\* What is opened only to look at changes nothing: nothing is, once the bound is used up.
MaySend == requests < MaxRequests

Opened(kind, m, values) ==
  /\ form = NoForm /\ MaySend
  /\ form' = [kind |-> kind, motor |-> m, values |-> values, slot |-> NoSlot]
  /\ UNCHANGED <<vars, shown, loads, defaults, call, behind>>

\* A chip in the list of motors, ...
OpenThresholds(m) == Opened("thresholds", m, shown["motors"][m])

\* ... a rule: the thresholds of a sensor are not what the standard gives, ...
Rules == {m \in Motors : shown["motors"][m] # Effective(m, shown["standards"])}

OpenRule(m) == m \in Rules /\ Opened("rule", m, shown["motors"][m])

\* ... or a new rule. The motor is chosen in the modal, whose values stay the first motor's.
OpenNewRule(m) == Opened("newRule", m, shown["motors"][AMotor])

OpenOverride(m) == shown["overrides"][m] # NoOverride /\ Opened("override", m, shown["overrides"][m])

\* The motors that have no override yet, as far as the page knows.
Available == {m \in Motors : shown["overrides"][m] = NoOverride}

OpenNewOverride(m) == m \in Available /\ Opened("newOverride", m, Default)

Cancel ==
  /\ form # NoForm
  /\ form' = NoForm
  /\ UNCHANGED <<vars, shown, loads, defaults, call, behind>>

\* SensorsTab takes the standards when it is mounted, and again only when it is mounted again.
OpenSensorsTab ==
  /\ form = NoForm /\ MaySend
  /\ defaults' = shown["standards"]
  /\ UNCHANGED <<vars, shown, loads, form, call, behind>>

\* A new override takes along the global configuration that the page shows when it is sent.
Sends(s, by) ==
  /\ call[s] = NoCall
  /\ call' = [call EXCEPT ![s] = [by |-> by, reply |-> "awaited",
       alerts |-> IF by = "newOverride" THEN shown["alerts"] ELSE NoAnswers]]
  /\ UNCHANGED <<shown, loads, behind>>

\* A modal sends all its fields, some of which may have been typed into, ...
Submits(s, values) ==
  /\ form.slot = NoSlot
  /\ Sends(s, form.kind)
  /\ form' = [form EXCEPT !.values = values, !.slot = s]
  /\ UNCHANGED defaults

\* ... after the defaults may have been restored.
SubmitThresholds(s, typed) ==
  /\ form.kind \in OfThresholds
  /\ \E values \in {form.values, Effective(form.motor, shown["standards"])} :
       /\ UpdateThresholds(s, form.motor, Merged(values, typed))
       /\ Submits(s, Merged(values, typed))

SubmitOverride(s, typed) ==
  /\ form.kind \in OfOverride
  /\ UpsertAlertOverride(s, form.motor, Merged(form.values, typed))
  /\ Submits(s, Merged(form.values, typed))

\* A button of the page itself, which a modal would cover.
Clicks(s, by) == Loaded /\ form = NoForm /\ Sends(s, by) /\ UNCHANGED form

\* The button is disabled while a request is under way, and enabled when the tab is mounted again.
SaveStandard(s, typed) ==
  /\ UpdateSensorStandard(s, Merged(defaults, typed))
  /\ defaults' = Merged(defaults, typed)
  /\ Clicks(s, "standard")

\* The form of the global configuration is what the page was last given, and what was typed since.
SaveGlobal(s, typed) ==
  /\ UpdateAlertConfig(s, Merged(shown["alerts"], typed))
  /\ Clicks(s, "global")
  /\ UNCHANGED defaults

DeleteRule(s, m) ==
  /\ m \in Rules
  /\ ResetThresholds(s, m)
  /\ Clicks(s, "deleteRule")
  /\ UNCHANGED defaults

DeleteShownOverride(s, m) ==
  /\ shown["overrides"][m] # NoOverride
  /\ DeleteAlertOverride(s, m)
  /\ Clicks(s, "deleteOverride")
  /\ UNCHANGED defaults

Typing(dtos) == dtos \union {NoOverride}

PageSends(s) ==
  \/ Loaded /\ \/ \E typed \in Typing(ThresholdDtos) : SubmitThresholds(s, typed) \/ SaveStandard(s, typed)
               \/ \E typed \in Typing(ParamDtos) : SubmitOverride(s, typed) \/ SaveGlobal(s, typed)
               \/ \E m \in Motors : DeleteRule(s, m) \/ DeleteShownOverride(s, m)

Looks ==
  Loaded /\ \/ \E m \in Motors : \/ OpenThresholds(m) \/ OpenRule(m) \/ OpenNewRule(m)
                                 \/ OpenOverride(m) \/ OpenNewOverride(m)
            \/ Cancel \/ OpenSensorsTab

-----------------------------------------------------------------------------
(* Requests, the page's own and others'.                                     *)

\* The steps after which a request has succeeded.
LastSteps == {"applyRow", "writeStandard", "applyGlobal", "applyParams"}

Replies(s, reply) ==
  IF call[s] # NoCall /\ request'[s] = Idle
    THEN call' = [call EXCEPT ![s].reply = reply]
    ELSE UNCHANGED call

Replied(s) == Replies(s, IF request[s].pc \in LastSteps THEN "ok" ELSE "failed")

\* A change that is not the page's own goes unnoticed.
ServedToPage(s) ==
  /\ Served(s)
  /\ Replied(s)
  /\ IF call[s] = NoCall /\ Database' # Database THEN Disturb ELSE UNCHANGED <<loads, behind>>
  /\ UNCHANGED <<shown, form, defaults>>

\* The page still has to learn of what its own request has written.
Owed(s) ==
  /\ call[s] # NoCall /\ call[s].reply # "failed"
  /\ \/ call[s].reply = "ok"
     \/ call[s].by = "afterOverride"
     \/ request[s].pc \in {"applyRow", "readOverrides", "applyGlobal", "revertToGlobal", "applyParams"}

\* What the page's own request has written before it failed goes unnoticed as well.
QueryFailsUnderPage(s) ==
  /\ QueryFails(s)
  /\ Replies(s, "failed")
  /\ IF Owed(s) THEN Disturb ELSE UNCHANGED <<loads, behind>>
  /\ UNCHANGED <<shown, form, defaults>>

SentByOthers(s) == call[s] = NoCall /\ Sent(s) /\ UNCHANGED page

\* The reply to a request that has succeeded does not reach the page.
ReplyIsLost(s) ==
  /\ call[s].reply = "ok"
  /\ call' = [call EXCEPT ![s].reply = "failed"]
  /\ Disturb
  /\ UNCHANGED <<vars, shown, form, defaults>>

HandleError(s) ==
  /\ call[s].reply = "failed"
  /\ call' = [call EXCEPT ![s] = NoCall]
  /\ form' = IF form # NoForm /\ form.slot = s THEN [form EXCEPT !.slot = NoSlot] ELSE form
  /\ UNCHANGED <<vars, shown, loads, defaults, behind>>

\* onSaved closes the modal of its kind.
Closed(kind) == form' = IF form.kind = kind THEN NoForm ELSE form

HandleSaved_NoFetch(s) ==
  /\ call[s].reply = "ok" /\ call[s].by # "newOverride"
  /\ call' = [call EXCEPT ![s] = NoCall]
  /\ Closed(call[s].by)
  /\ UNCHANGED <<vars, shown, loads, defaults, behind>>

HandleSaved(s) ==
  /\ call[s].reply = "ok" /\ call[s].by # "newOverride"
  /\ call' = [call EXCEPT ![s] = NoCall]
  /\ Closed(call[s].by)
  /\ loads' = Append(loads, NewLoad)
  /\ UNCHANGED <<vars, shown, defaults, behind>>

\* Instead of fetching, AlertsTab saves the global form, as it was when the override was sent, and
\* that fetches when it is done.
HandleOverrideCreated(s, typed) ==
  /\ call[s].reply = "ok" /\ call[s].by = "newOverride"
  /\ UpdateAlertConfig(s, Merged(call[s].alerts, typed))
  /\ call' = [call EXCEPT ![s] = [by |-> "afterOverride", reply |-> "awaited", alerts |-> NoAnswers]]
  /\ Closed("newOverride")
  /\ UNCHANGED <<shown, loads, defaults, behind>>

\* The requests of the page fail with the process that served them.
BootsUnderPage ==
  /\ Boot
  /\ call' = [s \in Slots |->
       IF call[s].reply = "awaited" THEN [call[s] EXCEPT !.reply = "failed"] ELSE call[s]]
  /\ IF \E s \in Slots : call[s].reply = "awaited" /\ Owed(s)
       THEN Disturb ELSE UNCHANGED <<loads, behind>>
  /\ UNCHANGED <<shown, form, defaults>>

Fetches == \E k \in DOMAIN loads : ShowLoad(k) \/ LoadFails(k) \/ \E q \in Queries : AnswerQuery(k, q)

Handles(s) ==
  \/ ReplyIsLost(s) \/ HandleError(s) \/ HandleSaved(s)
  \/ \E typed \in Typing(ParamDtos) : HandleOverrideCreated(s, typed)

NextPage ==
  \/ Fetches \/ Looks \/ BootsUnderPage
  \/ \E s \in Slots : PageSends(s) \/ SentByOthers(s) \/ ServedToPage(s) \/ QueryFailsUnderPage(s)
                  \/ Handles(s)

SpecPage == InitPage /\ [][NextPage]_allVars

-----------------------------------------------------------------------------

\* When nothing is under way the page shows what the database has, unless somebody else has written
\* or something failed since it last asked, or fetches came in another order than they were made in.
PageFollows ==
  loads = <<>> /\ (\A s \in Slots : call[s] = NoCall) /\ ~behind => shown = Database
=============================================================================
