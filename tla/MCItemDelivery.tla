--------------------------- MODULE MCItemDelivery ---------------------------
(* Instances of ItemDelivery for TLC.                                        *)
EXTENDS ItemDelivery, TLC

CONSTANTS romA, romB

MCSymmetry == Permutations({romA, romB})

=============================================================================
