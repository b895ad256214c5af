-------------------------- MODULE MCConnectionPool --------------------------
(* Four threads contend for two connections, so two can sleep at once while *)
(* two connections come back, and a late caller can overtake a woken one.   *)
EXTENDS ConnectionPool

CONSTANTS t1, t2, t3, t4, c1, c2
=============================================================================
