----------------------------- MODULE MCSnesGame -----------------------------
(* Instances of SnesGame for TLC: one or two randomised ROMs, with and        *)
(* without death link, and one location in the first of the memory blocks.    *)
EXTENDS SnesGame, TLC

CONSTANTS romA, romB, l1, b1, b2

MCOneLocation  == l1 :> b1

=============================================================================
