----------------------------- MODULE GamePhases -----------------------------
(***************************************************************************)
(* What the class Game promises to those who act on its state (the item     *)
(* half of SoE::poll() and the Archipelago handlers): the phases it goes     *)
(* through, and which ROM it believes is running.  How it finds out, by      *)
(* batches of reads whose callbacks run one by one, is left to SnesGame,     *)
(* which implements this module.  ItemDelivery is written against it.       *)
(*                                                                         *)
(* The promise holds on a console that takes longer to load a save than the  *)
(* client takes to notice that the last one was left: a save is loaded only  *)
(* while the client does not think that one is being played.                *)
(***************************************************************************)
EXTENDS Naturals

CONSTANTS
    Roms,           \* the randomised ROMs: one per seed and slot
    Vanilla, Other, \* cartridges: the game without a seed; another game
    NoRom           \* empty seed and slot

VARIABLES
    gstate,         \* _state
    rom,            \* _seed and _slot
    cart,           \* console: the cartridge
    playing         \* console: a save is being played

phaseVars == <<gstate, rom, cart, playing>>

Playing(s) == s \in {"JOINED", "FINISHED"}

-----------------------------------------------------------------------------

Init ==
    /\ gstate = "STOPPED"
    /\ rom = NoRom
    /\ cart \in Roms \cup {Vanilla, Other}
    /\ playing = FALSE

\* The game was found.
Start ==
    /\ gstate = "STOPPED"
    /\ cart # Vanilla
    /\ gstate' = "RUNNING"
    /\ rom' = cart
    /\ UNCHANGED <<cart, playing>>

\* The game was seen to have changed; the ROM may be remembered.
Stop ==
    /\ cart # rom
    /\ gstate' = "STOPPED"
    /\ rom' \in {rom, NoRom}
    /\ UNCHANGED <<cart, playing>>

\* The link was lost, or the room rejects the ROM.
Reset ==
    /\ gstate' = "STOPPED"
    /\ rom' = NoRom
    /\ UNCHANGED <<cart, playing>>

\* A save was loaded.
Join ==
    /\ gstate = "RUNNING"
    /\ playing
    /\ cart = rom
    /\ gstate' = "JOINED"
    /\ UNCHANGED <<rom, cart, playing>>

\* The player was seen to leave the save.
Leave ==
    /\ Playing(gstate)
    /\ ~playing
    /\ gstate' = "RUNNING"
    /\ UNCHANGED <<rom, cart, playing>>

\* The game was won, and Archipelago was told.
Finish ==
    /\ gstate = "JOINED"
    /\ playing
    /\ gstate' = "FINISHED"
    /\ UNCHANGED <<rom, cart, playing>>

\* Archipelago has to be told again.
Reopen ==
    /\ gstate = "FINISHED"
    /\ gstate' = "JOINED"
    /\ UNCHANGED <<rom, cart, playing>>

Load ==
    /\ ~playing
    /\ ~Playing(gstate)
    /\ cart # Other
    /\ playing' = TRUE
    /\ UNCHANGED <<gstate, rom, cart>>

Quit ==
    /\ playing
    /\ playing' = FALSE
    /\ UNCHANGED <<gstate, rom, cart>>

SwapCart ==
    /\ cart' \in (Roms \cup {Vanilla, Other}) \ {cart}
    /\ playing' = FALSE
    /\ UNCHANGED <<gstate, rom>>

Next ==
    \/ Start \/ Stop \/ Reset
    \/ Join \/ Leave \/ Finish \/ Reopen
    \/ Load \/ Quit \/ SwapCart

Spec == Init /\ [][Next]_phaseVars

=============================================================================
