----------------------------- MODULE MCUsb2Snes -----------------------------
(* Instances of Usb2Snes for TLC: two blocks, the longer one read after the  *)
(* shorter one by its callback, and writes from the longer one's callback.   *)
EXTENDS Usb2Snes

CONSTANTS head, body

MCLength  == head :> 1 @@ body :> 2
MCChained == head :> {body} @@ body :> {}

=============================================================================
