---------------------------- MODULE ItemDelivery ----------------------------
(***************************************************************************)
(* How items travel from the Archipelago room into the game: the items       *)
(* handler and the clear_cache() calls of main.cpp, send_item(),             *)
(* force_send(), force_resend(), clear_cache() and the item half of          *)
(* SoE::poll() (src/src/games/soe/soe.hpp).                                  *)
(*                                                                         *)
(* The room numbers the items of a slot.  The client keeps what it was sent, *)
(* reads from the console which number the game expects next and whether it  *)
(* can receive, and writes the item and then a start byte.  Reads and writes *)
(* travel in order on a link that may be lost between any two of them; the   *)
(* player may load another save, or exchange the cartridge, at any moment;   *)
(* the room connection may be lost, made again, or asked for everything.     *)
(*                                                                         *)
(* The phases of the game are those of GamePhases, which SnesGame            *)
(* implements.  A ROM is the slot it belongs to, and an item is its slot and *)
(* its number.  Reading the state is merged with the callback that gets the  *)
(* answer, and the two seconds between two reads are left out.              *)
(***************************************************************************)
EXTENDS Integers, Sequences, FiniteSets

CONSTANTS
    Roms, Vanilla, Other, NoRom,    \* as in GamePhases
    NoItem,                         \* an item buffer that is empty: id 0
    MaxItems,                       \* bound: items the room has for a slot
    MaxInbox,                       \* bound: messages of the room on their way
    MaxAsked,                       \* bound: connects the room has not answered
    PromptRoom,                     \* assumption: a connect is answered before another game
                                    \* is found
    SaveStates                      \* whether the player can restore the whole memory

ASSUME ItemAssumption ==
    /\ {Vanilla, Other, NoRom} \cap Roms = {}
    /\ NoItem \notin Roms \X Nat
    /\ MaxItems \in Nat
    /\ MaxInbox \in Nat
    /\ MaxAsked \in Nat
    /\ PromptRoom \in BOOLEAN
    /\ SaveStates \in BOOLEAN

VARIABLES
    gstate, rom,        \* _state, and _seed and _slot, of Game
    cart, playing,      \* console: the cartridge; a save is being played
    received,           \* _receivedItems
    ignoreSendLock,     \* _ignoreSendLock
    ignoreSendIndex,    \* _ignoreSendIndex
    wire,               \* reads and writes on their way to the console, oldest first
    apState,            \* state of the APClient: no room, room info received, slot connected
    ap,                 \* its slot: the last one asked for, or NoRom
    asked,              \* slots the room was asked to connect, not answered yet
    served,             \* room: the slot it sends items of, or NoRom
    inbox,              \* messages of the room on their way, oldest first
    syncAsked,          \* a Sync is not answered yet (several are answered as one)
    count,              \* room: number of items of each slot
    mem,                \* console: what the item script uses in the memory of the save
    saves               \* console: one save of each ROM

phaseVars   == <<gstate, rom, cart, playing>>
clientVars  == <<received, ignoreSendLock, ignoreSendIndex>>
sessionVars == <<apState, ap, asked, served, inbox, syncAsked>>
roomVars    == <<sessionVars, count>>
consoleVars == <<mem, saves>>
vars == <<phaseVars, clientVars, wire, roomVars, consoleVars>>

Phases == INSTANCE GamePhases

-----------------------------------------------------------------------------

Items == Roms \X Nat

\* The memory of the script at $7e2575: the number of the item expected next, the buffer
\* written by the client, and whether the script was told to take it.  given is a
\* history: the items taken since the number was 0.
Memories ==
    [expected : Nat, given : Seq(Items), index : Nat, item : Items \cup {NoItem},
     start : BOOLEAN]

\* Loading a save clears the buffer.
Unbuffered(m) == [m EXCEPT !.index = 0, !.item = NoItem, !.start = FALSE]

NewGame ==
    [expected |-> 0, given |-> <<>>, index |-> 0, item |-> NoItem, start |-> FALSE]

\* The messages to the console.
ReadState      == [kind |-> "state"]
WriteIndex(n)  == [kind |-> "index", index |-> n]
WriteItem(n, i) == [kind |-> "item", index |-> n, item |-> i]
WriteStart     == [kind |-> "start"]

Messages ==
    {ReadState, WriteStart}
        \cup [kind : {"index"}, index : Nat]
        \cup [kind : {"item"}, index : Nat, item : Items]

\* A message of the room: the items of a slot from one number up to another, which also
\* tell that the slot is connected, or do not.
Numbered(r, from, to, connected) ==
    [slot |-> r, from |-> from, to |-> to, connected |-> connected]

Nothing == [n \in {} |-> NoItem]

-----------------------------------------------------------------------------

Init ==
    /\ Phases!Init
    /\ received = Nothing
    /\ ignoreSendLock = FALSE
    /\ ignoreSendIndex = FALSE
    /\ wire = <<>>
    /\ apState = "OFF"
    /\ ap = NoRom
    /\ asked = <<>>
    /\ served = NoRom
    /\ inbox = <<>>
    /\ syncAsked = FALSE
    /\ count = [r \in Roms |-> 0]
    /\ mem = NewGame
    /\ saves = [r \in Roms |-> NewGame]

-----------------------------------------------------------------------------
(* The room.                                                                *)

\* Variant: the items stay.
ForgetNothing == UNCHANGED received

\* SoE::clear_cache(), its items
ForgetItems == received' = Nothing

\* Game::clear_cache(): a won game has to be reported again.
ClearCache ==
    /\ ForgetItems
    /\ IF gstate = "FINISHED" THEN Phases!Reopen ELSE UNCHANGED phaseVars

\* The connection to the room is gone.
NoRoom ==
    /\ apState' = "OFF"
    /\ ap' = NoRom
    /\ asked' = <<>>
    /\ served' = NoRom
    /\ inbox' = <<>>
    /\ syncAsked' = FALSE

\* connect_slot()
AskSlot(r) ==
    /\ ap' = r
    /\ asked' = Append(asked, r)

\* The socket is connected and the room info received.  The room has the slots of Roms:
\* it is asked for that of the ROM, or there is no game yet.
RoomInfo ==
    /\ apState = "OFF"
    /\ apState' = "ROOM"
    /\ rom # Other
    /\ IF rom \in Roms THEN AskSlot(rom) ELSE UNCHANGED <<ap, asked>>
    /\ ClearCache
    /\ UNCHANGED <<ignoreSendLock, ignoreSendIndex, wire, served, inbox, syncAsked, count,
                   consoleVars>>

\* The same with a ROM of another seed: the game is reset.
RoomRejects ==
    /\ apState = "OFF"
    /\ apState' = "ROOM"
    /\ rom = Other
    /\ Phases!Reset
    /\ ForgetItems
    /\ UNCHANGED <<ignoreSendLock, ignoreSendIndex, wire, ap, asked, served, inbox, syncAsked,
                   count, consoleVars>>

\* The connection is lost, or ended by the user.
ApLost ==
    /\ apState # "OFF"
    /\ NoRoom
    /\ UNCHANGED <<phaseVars, clientVars, wire, count, consoleVars>>

\* connect_ap(): the user connects to the room.
ConnectCommand ==
    /\ NoRoom
    /\ ClearCache
    /\ UNCHANGED <<ignoreSendLock, ignoreSendIndex, wire, count, consoleVars>>

\* The room is asked for all items, if a slot is connected.
Sync == syncAsked' = (syncAsked \/ apState = "SLOT")

\* The /sync command.
SyncCommand ==
    /\ ClearCache
    /\ Sync
    /\ UNCHANGED <<ignoreSendLock, ignoreSendIndex, wire, apState, ap, asked, served, inbox,
                   count, consoleVars>>

\* The room connects the slot and sends all its items.
RoomConnects ==
    /\ asked # <<>>
    /\ Len(inbox) < MaxInbox
    /\ asked' = Tail(asked)
    /\ served' = Head(asked)
    /\ inbox' = Append(inbox, Numbered(Head(asked), 0, count[Head(asked)], TRUE))
    /\ UNCHANGED <<phaseVars, clientVars, wire, apState, ap, syncAsked, count, consoleVars>>

\* The room has a new item for a slot.
NewItem ==
    \E r \in Roms :
        /\ count[r] < MaxItems
        /\ count' = [count EXCEPT ![r] = @ + 1]
        /\ IF served = r
           THEN /\ Len(inbox) < MaxInbox
                /\ inbox' = Append(inbox, Numbered(r, count[r], count[r] + 1, FALSE))
           ELSE UNCHANGED inbox
        /\ UNCHANGED <<phaseVars, clientVars, wire, apState, ap, asked, served, syncAsked,
                       consoleVars>>

SyncReply ==
    /\ syncAsked
    /\ Len(inbox) < MaxInbox
    /\ syncAsked' = FALSE
    /\ inbox' = Append(inbox, Numbered(served, 0, count[served], FALSE))
    /\ UNCHANGED <<phaseVars, clientVars, wire, apState, ap, asked, served, count, consoleVars>>

\* Variant: the items are put behind those already there, whatever their number.
KeptInOrder(msg) ==
    LET size == Cardinality(DOMAIN received)
    IN  [n \in DOMAIN received \cup size..(size + msg.to - msg.from - 1) |->
           IF n < size THEN received[n] ELSE <<msg.slot, n - size + msg.from>>]

\* send_item(): each item is kept under its number.
Kept(msg) ==
    [n \in DOMAIN received \cup msg.from..(msg.to - 1) |->
       IF n \in msg.from..(msg.to - 1) THEN <<msg.slot, n>> ELSE received[n]]

\* The slot_connected and items handlers
OnItems ==
    /\ inbox # <<>>
    /\ inbox' = Tail(inbox)
    /\ apState' = IF Head(inbox).connected THEN "SLOT" ELSE apState
    /\ received' = Kept(Head(inbox))
    /\ UNCHANGED <<phaseVars, ignoreSendLock, ignoreSendIndex, wire, ap, asked, served,
                   syncAsked, count, consoleVars>>

-----------------------------------------------------------------------------
(* The phases of the game, with the handlers of main.cpp.                   *)

\* Variant: the slot of the room is not compared.
StartedConnectedAnyway ==
    /\ Phases!Start
    /\ UNCHANGED sessionVars

\* The handler of game_started while a slot is connected: a game of another slot ends
\* the room connection, and is looked for again.
StartedConnected ==
    IF ap = cart
    THEN /\ Phases!Start
         /\ UNCHANGED sessionVars
    ELSE /\ Phases!Reset
         /\ NoRoom

\* The same while no slot is connected: the room is asked for the slot of the ROM,
\* whether it was asked for another one or not; a ROM of another seed is rejected.
StartedInRoom ==
    /\ IF cart \in Roms
       THEN /\ Phases!Start
            /\ Len(asked) < MaxAsked
            /\ AskSlot(cart)
       ELSE /\ Phases!Reset
            /\ UNCHANGED <<ap, asked>>
    /\ UNCHANGED <<apState, served, inbox, syncAsked>>

Answering == asked # <<>> \/ \E i \in DOMAIN inbox : inbox[i].connected

GameStarted ==
    /\ gstate = "STOPPED"
    /\ cart # Vanilla
    /\ PromptRoom => ~Answering
    /\ \/ /\ apState = "OFF"
          /\ Phases!Start
          /\ UNCHANGED sessionVars
       \/ /\ apState = "ROOM"
          /\ StartedInRoom
       \/ /\ apState = "SLOT"
          /\ StartedConnected
    /\ ForgetItems
    /\ UNCHANGED <<ignoreSendLock, ignoreSendIndex, wire, count, consoleVars>>

\* Variant: the room is not asked again.
JoinedSilently == UNCHANGED syncAsked

\* The handler of game_joined asks the room for all items.
AskForItems == Sync

GameJoined ==
    /\ Phases!Join
    /\ AskForItems
    /\ UNCHANGED <<clientVars, wire, apState, ap, asked, served, inbox, count, consoleVars>>

\* The phases that change without a handler that matters here.
GameMoves ==
    /\ Phases!Stop \/ Phases!Leave \/ Phases!Finish
    /\ UNCHANGED <<clientVars, wire, roomVars, consoleVars>>

\* reset() because the link was lost, with everything on its way.
LinkLost ==
    /\ Phases!Reset
    /\ wire' = <<>>
    /\ ForgetItems
    /\ UNCHANGED <<ignoreSendLock, ignoreSendIndex, roomVars, consoleVars>>

-----------------------------------------------------------------------------
(* The item half of SoE::poll().                                            *)

ForceSend ==
    /\ ~ignoreSendLock
    /\ ignoreSendLock' = TRUE
    /\ UNCHANGED <<phaseVars, received, ignoreSendIndex, wire, roomVars, consoleVars>>

ForceResend ==
    /\ ~ignoreSendIndex
    /\ ignoreSendIndex' = TRUE
    /\ UNCHANGED <<phaseVars, received, ignoreSendLock, wire, roomVars, consoleVars>>

Poll ==
    /\ gstate = "JOINED"
    /\ \A i \in DOMAIN wire : wire[i] # ReadState
    /\ wire' = Append(wire, ReadState)
    /\ UNCHANGED <<phaseVars, clientVars, roomVars, consoleVars>>

\* What is read: outside a save, anything.
Readings ==
    IF playing
    THEN {[expected |-> mem.expected, pending |-> mem.start, locked |-> mem.item # NoItem]}
    ELSE [expected : 0..MaxItems, pending : BOOLEAN, locked : BOOLEAN]

\* Variant: whether the item was received at all is not checked.
MaySendHoles(seen, n) ==
    /\ \E last \in DOMAIN received : n <= last
    /\ ~seen.pending
    /\ ignoreSendLock \/ ~seen.locked

\* Variant: an item is written over one that the game was told to take.
MaySendBusy(seen, n) ==
    /\ n \in DOMAIN received
    /\ ignoreSendLock \/ ~seen.locked

\* The item of that number was received, and the game can take one.
MaySend(seen, n) ==
    /\ n \in DOMAIN received
    /\ ~seen.pending
    /\ ignoreSendLock \/ ~seen.locked

ItemAt(n) == IF n \in DOMAIN received THEN received[n] ELSE NoItem

\* The callback of the read.
OnState ==
    /\ wire # <<>>
    /\ Head(wire) = ReadState
    /\ \E seen \in Readings :
         LET n == IF ignoreSendIndex THEN 0 ELSE seen.expected
         IN  IF gstate = "JOINED" /\ MaySend(seen, n)
             THEN /\ wire' = Tail(wire)
                               \o (IF ignoreSendIndex THEN <<WriteIndex(0)>> ELSE <<>>)
                               \o <<WriteItem(n, ItemAt(n)), WriteStart>>
                  /\ ignoreSendLock' = FALSE
                  /\ ignoreSendIndex' = FALSE
             ELSE /\ wire' = Tail(wire)
                  /\ UNCHANGED <<ignoreSendLock, ignoreSendIndex>>
    /\ UNCHANGED <<phaseVars, received, roomVars, consoleVars>>

-----------------------------------------------------------------------------
(* The console.  What is written while no save is played is lost.           *)

Written(m, w) ==
    CASE w.kind = "index" -> [m EXCEPT !.expected = w.index, !.given = <<>>]
      [] w.kind = "item"  -> [m EXCEPT !.index = w.index, !.item = w.item]
      [] w.kind = "start" -> [m EXCEPT !.start = TRUE]

WriteArrives ==
    /\ wire # <<>>
    /\ Head(wire) # ReadState
    /\ wire' = Tail(wire)
    /\ mem' = IF playing THEN Written(mem, Head(wire)) ELSE mem
    /\ UNCHANGED <<phaseVars, clientVars, roomVars, saves>>

\* The script: an item of the expected number is taken.
Take ==
    /\ playing
    /\ mem.start
    /\ mem.item # NoItem
    /\ mem.index = mem.expected
    /\ mem' = [mem EXCEPT !.expected = @ + 1, !.given = Append(@, mem.item),
                          !.item = NoItem, !.start = FALSE]
    /\ UNCHANGED <<phaseVars, clientVars, wire, roomVars, saves>>

\* The script: any other is not; the buffer may be cleared.
Discard ==
    /\ playing
    /\ mem.start
    /\ mem.item = NoItem \/ mem.index # mem.expected
    /\ \E i \in {mem.item, NoItem} : mem' = [mem EXCEPT !.item = i, !.start = FALSE]
    /\ UNCHANGED <<phaseVars, clientVars, wire, roomVars, saves>>

SaveGame ==
    /\ playing
    /\ cart \in Roms
    /\ saves' = [saves EXCEPT ![cart] = IF SaveStates THEN mem ELSE Unbuffered(mem)]
    /\ UNCHANGED <<phaseVars, clientVars, wire, roomVars, mem>>

\* What can be loaded: a new game, a save, the whole memory.
Loadable ==
    IF cart \in Roms
    THEN {NewGame, Unbuffered(saves[cart])} \cup (IF SaveStates THEN {saves[cart]} ELSE {})
    ELSE {NewGame}

\* A save is started or loaded after a boot, which takes longer than what is on its way.
Load ==
    /\ Phases!Load
    /\ wire = <<>>
    /\ mem' \in Loadable
    /\ UNCHANGED <<clientVars, wire, roomVars, saves>>

\* A save is loaded while one is played, with anything on its way.
Reload ==
    /\ playing
    /\ mem' \in Loadable
    /\ UNCHANGED <<phaseVars, clientVars, wire, roomVars, saves>>

Leaves ==
    /\ Phases!Quit \/ Phases!SwapCart
    /\ mem' = NewGame
    /\ UNCHANGED <<clientVars, wire, roomVars, saves>>

-----------------------------------------------------------------------------

Next ==
    \/ RoomInfo \/ RoomRejects \/ ApLost \/ ConnectCommand \/ SyncCommand
    \/ RoomConnects \/ NewItem \/ SyncReply \/ OnItems
    \/ GameStarted \/ GameJoined \/ GameMoves \/ LinkLost
    \/ ForceSend \/ ForceResend \/ Poll \/ OnState
    \/ WriteArrives \/ Take \/ Discard
    \/ SaveGame \/ Load \/ Reload \/ Leaves

Spec == Init /\ [][Next]_vars

\* The main loop polls for ever, links that stay up deliver, the room answers, and the
\* script runs.  Nothing is assumed of the user.
Fairness ==
    /\ WF_vars(Poll) /\ WF_vars(OnState) /\ WF_vars(WriteArrives)
    /\ WF_vars(OnItems) /\ WF_vars(SyncReply)
    /\ WF_vars(Take) /\ WF_vars(Discard)

FairSpec == Spec /\ Fairness

-----------------------------------------------------------------------------
(* Properties.                                                              *)

\* The values of the fields of SoE, of the two links, of the room and of the console.
TypeOK ==
    /\ DOMAIN received \subseteq 0..(MaxItems - 1)
    /\ \A n \in DOMAIN received : received[n] \in Items
    /\ ignoreSendLock \in BOOLEAN
    /\ ignoreSendIndex \in BOOLEAN
    /\ wire \in Seq(Messages)
    /\ apState \in {"OFF", "ROOM", "SLOT"}
    /\ {ap, served} \subseteq Roms \cup {NoRom}
    /\ asked \in Seq(Roms)
    /\ inbox \in Seq([slot : Roms, from : 0..MaxItems, to : 0..MaxItems,
                     connected : BOOLEAN])
    /\ syncAsked \in BOOLEAN
    /\ count \in [Roms -> 0..MaxItems]
    /\ mem \in Memories
    /\ saves \in [Roms -> Memories]

\* The items given to m are the first ones of slot r, each once and in order.
Prefix(r, m) == m.given = [n \in 1..m.expected |-> <<r, n - 1>>]

\* Each save of a ROM holds exactly the first items of its slot, each once and in the
\* order of the room: none is skipped, given twice, or given to another slot,
\* whatever is lost, loaded, forced or sent again.  What /force-resend gives again, by
\* setting the number back to 0, counts from there.
InventoryIsPrefix ==
    /\ playing /\ cart \in Roms => Prefix(cart, mem)
    /\ \A r \in Roms : Prefix(r, saves[r])

\* The items kept for a game that was found are those of its slot: they were not left by
\* another ROM, nor sent for another slot.
ReceivedIsForRom ==
    gstate # "STOPPED" => \A n \in DOMAIN received : received[n] = <<rom, n>>

\* Not even /force-send writes over an item that the game was told to take.
BufferFree ==
    wire # <<>> /\ Head(wire).kind = "item" /\ playing => ~mem.start

\* The buffer holds an item that the script was not told to take, or refused, and the
\* user did not ask to overwrite it.
Locked == mem.item # NoItem /\ ~mem.start /\ ~ignoreSendLock

\* While a slot stays connected and its game is played, everything the room has for it
\* arrives in the game, unless the buffer stays locked: a start byte lost with the link
\* leaves an item there that only /force-send gets out of the way.
AllDelivered ==
    \A r \in Roms :
        /\ <>[](apState = "SLOT" /\ ap = r /\ cart = r /\ playing /\ gstate = "JOINED")
        /\ <>[][~Reload /\ ~ForceResend /\ ~SyncCommand]_vars
        => <>[](mem.expected = count[r]) \/ <>[]Locked

=============================================================================
