----------------------------- MODULE MCDatabase -----------------------------
(* A small instance of Database for TLC: one of the time series, which the   *)
(* first release creates.                                                    *)
EXTENDS Database, TLC
MCSeries == {"events"}
=============================================================================
