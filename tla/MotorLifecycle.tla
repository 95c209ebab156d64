--------------------------- MODULE MotorLifecycle ---------------------------
(***************************************************************************)
(* What the evaluation of a motor promises, without handlers, locks or     *)
(* timers: the status as the rest of the backend sees it, the restarts     *)
(* already published in the current episode, and the end of every alarm.   *)
(***************************************************************************)
EXTENDS Naturals

CONSTANT MaxAutoRestarts  \* motorParams.maxAutoRestarts, a natural number

VARIABLES status, used

vars == <<status, used>>

Init == status = "healthy" /\ used = 0

Alarm == status = "healthy" /\ status' = "alarm" /\ UNCHANGED used

Clear == status = "alarm" /\ status' = "healthy" /\ UNCHANGED used

Trip ==
  /\ status \in {"healthy", "alarm"} /\ used < MaxAutoRestarts
  /\ status' = "shutting_down" /\ used' = used + 1

Disable ==
  /\ status \in {"healthy", "alarm"} /\ used = MaxAutoRestarts
  /\ status' = "disabled" /\ UNCHANGED used

Recover == status = "shutting_down" /\ status' = "healthy" /\ used' = 0

Next == Alarm \/ Clear \/ Trip \/ Disable \/ Recover

EndAlarm == status = "alarm" /\ (Clear \/ Trip \/ Disable)

Safety == Init /\ [][Next]_vars

Spec == Safety /\ WF_vars(EndAlarm)
=============================================================================
