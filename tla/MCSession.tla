------------------------------ MODULE MCSession ------------------------------
(* Instances of Session for TLC: a room with a password and two slots, one of *)
(* them with death link, and a room without a password and one slot.          *)
EXTENDS Session, TLC

CONSTANTS romA, romB, romC, roomX, roomY

MCRoomOf == romA :> roomX @@ romB :> roomX @@ romC :> roomY

=============================================================================
