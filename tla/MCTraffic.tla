----------------------------- MODULE MCTraffic -----------------------------
(* A small instance of Traffic for TLC: the network cycle runs every two     *)
(* ticks, one failed reading halves the next rates, two make a gap.  Set     *)
(* back by two ticks, the clock gives a sample the time of the one before; a *)
(* failed reading more and the next span is positive and too short.          *)
EXTENDS Traffic, TLC

MCJumps == {-2}
=============================================================================
