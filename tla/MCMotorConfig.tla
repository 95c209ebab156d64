--------------------------- MODULE MCMotorConfig ---------------------------
(* Instances of MotorConfig and ConfigPage for TLC. *)
EXTENDS ConfigPage, TLC

CONSTANTS m1, m2, s1, s2

Table(h, w, c) == ("healthyMax" :> h) @@ ("warningMax" :> w) @@ ("criticalMax" :> c)

\* m1's standard is used as it is; with m2's rated current rounding makes two thresholds equal.
MCScaled   == {m2}
MCRated    == m1 :> 100 @@ m2 :> 25
MCStandard == Table(1, 3, 5)
MCDefault  == [p \in Params |-> 0]

MCThresholdDtos == {"healthyMax" :> 2, "criticalMax" :> 3}

MCParamDtos == {"alarmConsecutiveReadings" :> 1, [p \in Params |-> 2]}

SlotSymmetry == Permutations({s1, s2})
=============================================================================
