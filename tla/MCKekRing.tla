----------------------------- MODULE MCKekRing -----------------------------
(* Three KEKs and two request threads: a put and a rotation can overlap at *)
(* every step, and a crash can fall between any two.                       *)
EXTENDS KekRing

CONSTANTS t1, t2, k1, k2, k3
=============================================================================
