--------------------------- MODULE MCAddressCache ---------------------------
(* Instances of AddressCache for TLC: any set of locations among some bytes   *)
(* near those of the client, and at the end of the bank.                      *)
EXTENDS AddressCache

MCAddresses == (Wram + 8796)..(Wram + 8804) \cup (Wram + Bank - 3)..(Wram + Bank - 1)

ASSUME MCFixedInPlace == FixedInPlace

=============================================================================
