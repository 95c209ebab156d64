------------------------- MODULE MCMotorEvaluation -------------------------
(* Instances of MotorEvaluation for TLC. *)
EXTENDS MotorEvaluation, TLC

\* Handlers are interchangeable, and so are the sensors of a motor.
Symmetry == Permutations(Tasks) \union Permutations(Sensors)
=============================================================================
