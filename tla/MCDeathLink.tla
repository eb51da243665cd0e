---------------------------- MODULE MCDeathLink -----------------------------
(* Instances of DeathLink for TLC.                                           *)
EXTENDS DeathLink

CONSTANTS romA, romB, t1, t2, t3

=============================================================================
