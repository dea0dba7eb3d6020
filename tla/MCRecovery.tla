----------------------------- MODULE MCRecovery -----------------------------
(* Model checking of Recovery: five days of two points, one of them          *)
(* operational, and one model; an outage may be longer than the boot's cap,  *)
(* and the retention bites within the five days.                             *)
EXTENDS Recovery
CONSTANTS p1, p2, m1
MCPoints == {p1, p2}
MCOpPoints == {p1}
MCModels == {m1}
=============================================================================
