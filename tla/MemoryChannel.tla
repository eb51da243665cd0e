---------------------------- MODULE MemoryChannel ----------------------------
(***************************************************************************)
(* What the class USB2SNES promises to its only client, the class Game: a   *)
(* link to the memory of a SNES that is up or down, and that answers the    *)
(* reads it was asked for one after the other, each with exactly the bytes  *)
(* asked for.  A batch of reads is only asked for when nothing is pending   *)
(* (idle()); the callback of an answered read may ask for one more read,    *)
(* which is answered after everything already asked for.  When the link     *)
(* goes down every pending read is forgotten: its callback is never run.    *)
(*                                                                         *)
(* Usb2Snes implements this module; SnesGame is written against it.         *)
(***************************************************************************)
EXTENDS Naturals, Sequences

CONSTANTS
    Addrs,      \* the memory blocks the client reads
    Length,     \* Length[a]: how many bytes block a has
    NoReply     \* value of reply before the first answer

VARIABLES
    up,         \* the link to the console is up
    asked,      \* the reads not answered yet, oldest first
    reply       \* the read answered last and the bytes its callback was given

channelVars == <<up, asked, reply>>

\* The bytes of block a, in order.
BytesOf(a) == [i \in 1..Length[a] |-> <<a, i>>]

-----------------------------------------------------------------------------

Init ==
    /\ up = FALSE
    /\ asked = <<>>
    /\ reply = NoReply

Connect ==
    /\ ~up
    /\ up' = TRUE
    /\ asked' = <<>>
    /\ UNCHANGED reply

Disconnect ==
    /\ up
    /\ up' = FALSE
    /\ asked' = <<>>
    /\ UNCHANGED reply

Ask ==
    /\ up
    /\ asked = <<>>
    /\ asked' \in Seq(Addrs)
    /\ UNCHANGED <<up, reply>>

Answer ==
    /\ up
    /\ asked # <<>>
    /\ reply' = [addr |-> Head(asked), bytes |-> BytesOf(Head(asked))]
    /\ \/ asked' = Tail(asked)
       \/ \E a \in Addrs : asked' = Append(Tail(asked), a)
    /\ UNCHANGED up

Next == Connect \/ Disconnect \/ Ask \/ Answer

Spec == Init /\ [][Next]_channelVars

=============================================================================
