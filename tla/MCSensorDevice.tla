----------------------------- MODULE MCSensorDevice -----------------------------
(* Instances of SensorDevice for TLC. *)
EXTENDS SensorDevice, TLC

CONSTANTS t1, v1, v2, c1
=============================================================================
