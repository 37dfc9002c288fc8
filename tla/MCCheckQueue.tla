--------------------------- MODULE MCCheckQueue ---------------------------
(* Instances of CheckQueue for TLC.                                        *)
EXTENDS CheckQueue

CONSTANTS c1, c2, c3, c4, w1, w2
=============================================================================
