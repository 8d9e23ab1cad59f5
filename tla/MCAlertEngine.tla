--------------------------- MODULE MCAlertEngine ---------------------------
(* Small instances of AlertEngine for TLC. *)
EXTENDS AlertEngine

CONSTANTS k1, k2, l1, l2

OwnOne == [k \in Keys |-> l1]
OwnTwo == [k \in Keys |-> IF k = k1 THEN l1 ELSE l2]
=============================================================================
