------------------------------- MODULE Session -------------------------------
(***************************************************************************)
(* The session with the Archipelago room (src/src/main.cpp): connecting and  *)
(* reconnecting, the slot that is asked for, the password prompt, the tag    *)
(* that asks for the deaths of others, and what becomes of them when the     *)
(* game or the link to the console changes.                                  *)
(*                                                                         *)
(* Room and game may be connected in any order: each event of one looks at   *)
(* the state of the other.  The answer of the room to a connect comes later, *)
(* and is not matched with what was asked.  While the client waits for a     *)
(* password, whatever the user types is taken for it.                        *)
(*                                                                         *)
(* The phases of the game are those of GamePhases, with the handlers of      *)
(* create_game().  What the room sends besides, and chat, is left out: see    *)
(* ItemDelivery and DeathLink.  The client of the room is a library; what it  *)
(* does by itself is to connect the socket again and again.                  *)
(***************************************************************************)
EXTENDS Integers, Sequences

CONSTANTS
    Roms, Vanilla, Other, NoRom,    \* as in GamePhases
    DeathlinkRoms,  \* ROMs whose flags ask for death link
    Rooms, NoRoom,  \* the rooms a user may connect to: one per seed
    RoomOf,         \* the room of each ROM
    Locked,         \* rooms with a password
    Browser,        \* whether this is the browser build, on a secure page
    MaxErrors,      \* the errors after which that build gives up
    MaxAsked,       \* bound: messages the room has not handled
    PromptRoom      \* assumption: a connect is answered before another game is found

ASSUME RomAssumption ==
    /\ {Vanilla, Other, NoRom} \cap Roms = {}
    /\ Vanilla # Other /\ Vanilla # NoRom /\ Other # NoRom
    /\ DeathlinkRoms \subseteq Roms

ASSUME RoomAssumption ==
    /\ NoRoom \notin Rooms
    /\ RoomOf \in [Roms -> Rooms]
    /\ Locked \subseteq Rooms
    /\ Browser \in BOOLEAN
    /\ PromptRoom \in BOOLEAN
    /\ MaxErrors \in Nat \ {0} /\ MaxAsked \in Nat

VARIABLES
    gstate, rom,    \* _state, and _seed and _slot, of Game
    cart, playing,  \* console: the cartridge; a save is being played
    want, deathlink,\* _wantDeathlink, _deathlink
    apState,        \* no client, its socket not connected, connected, room info received,
                    \* slot connected
    server,         \* the room the user connected to
    slot,           \* the slot last asked for
    awaiting,       \* awaiting_password
    errors,         \* connect_error_count
    asked,          \* messages the room has not handled, oldest first
    served,         \* room: the slot it connected and whether it has the tag
    refused         \* history: the last connect was refused

phaseVars  == <<gstate, rom, cart, playing>>
flagVars   == <<want, deathlink>>
socketVars == <<apState, server, errors>>
askVars    == <<slot, asked, refused>>
vars == <<phaseVars, flagVars, socketVars, askVars, awaiting, served>>

Phases == INSTANCE GamePhases

-----------------------------------------------------------------------------

Connect(r, right, tag) == [kind |-> "connect", slot |-> r, right |-> right, tag |-> tag]
Update(tag) == [kind |-> "update", tag |-> tag]

Requests ==
    [kind : {"connect"}, slot : Roms \cup {NoRom, Other}, right : BOOLEAN, tag : BOOLEAN]
        \cup [kind : {"update"}, tag : BOOLEAN]

NotServed == [slot |-> NoRom, tag |-> FALSE]

\* The game belongs to the room: its seed is that of the room.
Belongs(r, room) == r \in Roms /\ RoomOf[r] = room

Init ==
    /\ Phases!Init
    /\ want = FALSE
    /\ deathlink = FALSE
    /\ apState = "NONE"
    /\ server = NoRoom
    /\ slot = NoRom
    /\ awaiting = FALSE
    /\ errors = 0
    /\ asked = <<>>
    /\ served = NotServed
    /\ refused = FALSE

-----------------------------------------------------------------------------
(* Steps shared by the handlers.                                            *)

\* Variant: the prompt stays.
AbortNothing == UNCHANGED awaiting

\* abort_password()
AbortPassword == awaiting' = FALSE

\* What is on its way is lost with the socket, and the room forgets the slot.
Silence ==
    /\ asked' = <<>>
    /\ served' = NotServed
    /\ refused' = FALSE

\* connect_slot()
ConnectSlot(right) ==
    /\ Len(asked) < MaxAsked
    /\ asked' = Append(asked, Connect(rom', right, want'))
    /\ slot' = rom'
    /\ refused' = FALSE

\* Ask for the slot of the game, or for the password first.
AskForSlot ==
    IF server \in Locked
    THEN /\ awaiting' = TRUE
         /\ refused' = FALSE
         /\ UNCHANGED <<slot, asked>>
    ELSE /\ ConnectSlot(TRUE)
         /\ UNCHANGED awaiting

\* Game::clear_cache(): a won game has to be reported again.
ClearCache ==
    IF gstate = "FINISHED" THEN Phases!Reopen ELSE UNCHANGED phaseVars

\* The handler of game_stopped runs unless the game was stopped already.
StoppedHandler ==
    IF gstate = "STOPPED" THEN UNCHANGED awaiting ELSE AbortPassword

-----------------------------------------------------------------------------
(* The commands.                                                            *)

\* connect_ap(): a new client.
ConnectCommand ==
    /\ ~awaiting
    /\ server' \in Rooms
    /\ apState' = "OFF"
    /\ errors' = 0
    /\ slot' = NoRom
    /\ Silence
    /\ ClearCache
    /\ UNCHANGED <<flagVars, awaiting>>

\* Variant: the user has to connect to the same room again.
DisconnectKeepsServer ==
    /\ apState' = "NONE"
    /\ slot' = NoRom
    /\ Silence
    /\ UNCHANGED server

\* disconnect_ap()
DisconnectAp ==
    /\ apState' = "NONE"
    /\ server' = NoRoom
    /\ slot' = NoRom
    /\ Silence

DisconnectCommand ==
    /\ ~awaiting
    /\ apState # "NONE"
    /\ DisconnectAp
    /\ UNCHANGED <<phaseVars, flagVars, awaiting, errors>>

SyncCommand ==
    /\ ~awaiting
    /\ ClearCache
    /\ UNCHANGED <<flagVars, socketVars, askVars, awaiting, served>>

\* password_entered(): whatever the user types, right or wrong.
PasswordEntered ==
    /\ awaiting
    /\ awaiting' = FALSE
    /\ UNCHANGED <<phaseVars, flagVars, socketVars, served>>
    /\ IF apState \in {"NONE", "OFF"}
       THEN UNCHANGED askVars
       ELSE \E right \in BOOLEAN : ConnectSlot(right)

-----------------------------------------------------------------------------
(* The socket of the room, and the room.                                    *)

SocketConnected ==
    /\ apState = "OFF"
    /\ apState' = "SOCKET"
    /\ ClearCache
    /\ AbortPassword
    /\ UNCHANGED <<flagVars, server, errors, askVars, served>>

\* The socket is lost; the client connects again by itself.
SocketDisconnected ==
    /\ apState \in {"SOCKET", "ROOM", "SLOT"}
    /\ apState' = "OFF"
    /\ Silence
    /\ AbortPassword
    /\ UNCHANGED <<phaseVars, flagVars, server, slot, errors>>

\* An error of the socket, open or not.  The browser build gives up after some errors,
\* counted since the user connected; the password it may be asking for, it asks on.
SocketError ==
    /\ apState # "NONE"
    /\ errors' = IF errors < MaxErrors THEN errors + 1 ELSE errors
    /\ IF Browser /\ errors' = MaxErrors
       THEN DisconnectAp
       ELSE UNCHANGED <<apState, server, askVars, served>>
    /\ UNCHANGED <<phaseVars, flagVars, awaiting>>

\* The room tells its seed.  The seed of the game may be that of one that was left.
RoomInfo ==
    /\ apState = "SOCKET"
    /\ apState' = "ROOM"
    /\ \/ /\ rom = NoRom
          /\ UNCHANGED <<phaseVars, askVars, awaiting>>
       \/ /\ rom # NoRom /\ ~Belongs(rom, server)
          /\ Phases!Reset
          /\ StoppedHandler
          /\ UNCHANGED askVars
       \/ /\ Belongs(rom, server)
          /\ UNCHANGED <<phaseVars, flagVars>>
          /\ AskForSlot
    /\ UNCHANGED <<flagVars, server, errors, served>>

\* Variant: the tag of the game is not remembered.
ConnectedForgetsTag == UNCHANGED deathlink

\* What the handler of slot_connected keeps.
Connected == deathlink' = want

\* The room handles a connect of one of its slots, with the right password.
SlotConnected ==
    /\ asked # <<>>
    /\ Head(asked).kind = "connect"
    /\ Belongs(Head(asked).slot, server)
    /\ Head(asked).right
    /\ asked' = Tail(asked)
    /\ served' = [slot |-> Head(asked).slot, tag |-> Head(asked).tag]
    /\ apState' = "SLOT"
    /\ Connected
    /\ UNCHANGED <<phaseVars, want, server, slot, errors, refused, awaiting>>

\* It refuses any other: nothing is asked again.
SlotRefused ==
    /\ asked # <<>>
    /\ Head(asked).kind = "connect"
    /\ ~(Belongs(Head(asked).slot, server) /\ Head(asked).right)
    /\ asked' = Tail(asked)
    /\ refused' = TRUE
    /\ UNCHANGED <<phaseVars, flagVars, socketVars, slot, awaiting, served>>

\* The room handles ConnectUpdate.
TagUpdated ==
    /\ asked # <<>>
    /\ Head(asked).kind = "update"
    /\ asked' = Tail(asked)
    /\ served' = [served EXCEPT !.tag = Head(asked).tag]
    /\ UNCHANGED <<phaseVars, flagVars, socketVars, slot, refused, awaiting>>

-----------------------------------------------------------------------------
(* The game.                                                                *)

\* The handler of game_started while there is no room info: it will ask.
StartedAlone ==
    /\ Phases!Start
    /\ UNCHANGED <<deathlink, apState, askVars, awaiting, served>>

\* The same with a slot connected: another game ends the connection,
\* and is looked for again; the same one may want the tag now.
StartedInSlot ==
    \/ /\ cart # slot
       /\ Phases!Reset
       /\ apState' = "OFF"
       /\ slot' = NoRom
       /\ Silence
       /\ AbortPassword
       /\ UNCHANGED deathlink
    \/ /\ cart = slot
       /\ Phases!Start
       /\ IF deathlink # want'
          THEN /\ deathlink' = want'
               /\ Len(asked) < MaxAsked
               /\ asked' = Append(asked, Update(TRUE))
          ELSE UNCHANGED <<deathlink, asked>>
       /\ UNCHANGED <<apState, slot, refused, awaiting, served>>

\* The same with a room that is waiting for the game.
StartedInRoom ==
    /\ IF Belongs(cart, server)
       THEN /\ Phases!Start
            /\ AskForSlot
       ELSE /\ Phases!Reset
            /\ AbortPassword
            /\ UNCHANGED askVars
    /\ UNCHANGED <<deathlink, apState, served>>

Answering == \E i \in DOMAIN asked : asked[i].kind = "connect"

GameStarted ==
    /\ gstate = "STOPPED"
    /\ cart # Vanilla
    /\ PromptRoom => ~Answering
    /\ want' = (cart \in DeathlinkRoms)
    /\ \/ apState = "SLOT" /\ StartedInSlot
       \/ apState = "ROOM" /\ StartedInRoom
       \/ apState \in {"NONE", "OFF", "SOCKET"} /\ StartedAlone
    /\ UNCHANGED <<server, errors>>

\* The game was seen to have changed: only while it is RUNNING, and no save was looked
\* for, does it forget its ROM.
GameStopped ==
    /\ gstate # "STOPPED"
    /\ \/ Phases!Stop /\ UNCHANGED rom
       \/ Phases!Reset /\ gstate = "RUNNING"
    /\ want' = FALSE
    /\ AbortPassword
    /\ UNCHANGED <<deathlink, socketVars, askVars, served>>

\* The phases that change without a handler that matters here.
GameMoves ==
    /\ Phases!Join \/ Phases!Leave \/ Phases!Finish
    /\ UNCHANGED <<flagVars, socketVars, askVars, awaiting, served>>

\* The console is gone, or the service that leads to it; only then the prompt is ended
\* in any case.
LinkLost ==
    /\ Phases!Reset
    /\ StoppedHandler \/ AbortPassword
    /\ UNCHANGED <<flagVars, socketVars, askVars, served>>

\* The player and the console.
ConsoleMoves ==
    /\ Phases!Load \/ Phases!Quit \/ Phases!SwapCart
    /\ UNCHANGED <<flagVars, socketVars, askVars, awaiting, served>>

-----------------------------------------------------------------------------

RoomHandles == SlotConnected \/ SlotRefused \/ TagUpdated

Next ==
    \/ ConnectCommand \/ DisconnectCommand \/ SyncCommand \/ PasswordEntered
    \/ SocketConnected \/ SocketDisconnected \/ SocketError
    \/ RoomInfo \/ SlotConnected \/ SlotRefused \/ TagUpdated
    \/ GameStarted \/ GameStopped \/ GameMoves \/ LinkLost \/ ConsoleMoves

Spec == Init /\ [][Next]_vars

\* The room handles what it is sent, and a user who is asked for a password types one.
FairSpec == Spec /\ WF_vars(RoomHandles) /\ WF_vars(PasswordEntered)

-----------------------------------------------------------------------------
(* Properties.                                                              *)

\* The values of the variables of main.cpp, of the messages and of the room.
TypeOK ==
    /\ gstate \in {"STOPPED", "RUNNING", "JOINED", "FINISHED"}
    /\ rom \in Roms \cup {NoRom, Other}
    /\ cart \in Roms \cup {Vanilla, Other}
    /\ playing \in BOOLEAN
    /\ want \in BOOLEAN /\ deathlink \in BOOLEAN
    /\ apState \in {"NONE", "OFF", "SOCKET", "ROOM", "SLOT"}
    /\ server \in Rooms \cup {NoRoom}
    /\ server = NoRoom <=> apState = "NONE"
    /\ slot \in Roms \cup {NoRom, Other}
    /\ awaiting \in BOOLEAN
    /\ errors \in 0..MaxErrors
    /\ asked \in Seq(Requests)
    /\ served \in [slot : Roms \cup {NoRom}, tag : BOOLEAN]
    /\ refused \in BOOLEAN

\* The browser build gave up, and has no client.
GaveUp == Browser /\ errors = MaxErrors /\ apState = "NONE"

\* A line of the user is taken for a password only while a room that has one waits for
\* it: every way to lose the room, or to find that the game is not one of it, ends the
\* prompt, and no connect is open while there is one.  The exception is a client that
\* gave up while it asked: the line, a /connect perhaps, is lost to a prompt of no room.
PromptIsDue ==
    awaiting =>
        /\ asked = <<>>
        /\ \/ GaveUp
           \/ /\ apState = "ROOM"
              /\ server \in Locked
              /\ gstate # "STOPPED" => Belongs(rom, server)

\* While a game is followed and a slot is connected, it is the slot of that game, and the
\* room sends it the deaths of others exactly if the game wants them: the constant tag of
\* ConnectUpdate does no harm.
RoomKnowsGame ==
    apState = "SLOT" /\ gstate # "STOPPED" /\ asked = <<>>
        => served = [slot |-> rom, tag |-> rom \in DeathlinkRoms]

\* Room and game may be connected in any order: once a game of the room runs, and both
\* stay, its slot is connected in the end, or the password was wrong.
Steady == apState \in {"ROOM", "SLOT"} /\ gstate # "STOPPED" /\ Belongs(rom, server)

ConnectsInAnyOrder ==
    <>[]Steady => <>[](apState = "SLOT" \/ (server \in Locked /\ refused))

=============================================================================
