------------------------ MODULE MCTelemetryConsumer ------------------------
(* Instances of TelemetryConsumer for TLC. *)
EXTENDS TelemetryConsumer, TLC

\* The slots are interchangeable.
SlotSymmetry == Permutations(Tasks)
=============================================================================
