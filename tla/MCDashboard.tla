---------------------------- MODULE MCDashboard ----------------------------
(* Instances of Dashboard for TLC. *)
EXTENDS Dashboard, TLC

CONSTANTS t1, t2, u1, u2

Budget(alerts, transitions, fetches, drops) ==
  ("alerts" :> alerts) @@ ("transitions" :> transitions) @@ ("fetches" :> fetches) @@ ("drops" :> drops)

\* Alerts among themselves and with a recovery, and snapshots with transitions.
MCBudgets == {Budget(2, 0, 0, 1), Budget(1, 1, 1, 1), Budget(0, 2, 2, 1)}

Symmetry == Permutations({t1, t2}) \union Permutations({u1, u2})
=============================================================================
