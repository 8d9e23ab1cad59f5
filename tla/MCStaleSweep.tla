---------------------------- MODULE MCStaleSweep ----------------------------
(* Small instances of StaleSweep for TLC. *)
EXTENDS StaleSweep

CONSTANTS fast, slowest

FastAndSlow == [c \in Collectors |-> IF c = fast THEN Min(Intervals) ELSE Max(Intervals)]
Slowest     == [c \in Collectors |-> Max(Intervals)]
Upwards     == {p \in Intervals \X Intervals : p[1] < p[2]}
Downwards   == {p \in Intervals \X Intervals : p[1] > p[2]}
EitherWay   == Upwards \cup Downwards
=============================================================================
