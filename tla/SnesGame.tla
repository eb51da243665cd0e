------------------------------ MODULE SnesGame ------------------------------
(***************************************************************************)
(* The class Game (src/src/games/game.hpp) with the reads of Secret of      *)
(* Evermore (src/src/games/soe/soe.hpp): finding out which ROM is running,  *)
(* whether a save is being played, which locations were looted and whether  *)
(* the game was won, and reporting that to Archipelago exactly for the ROM   *)
(* it happened in.                                                          *)
(*                                                                         *)
(* The client of the room comes and goes: what the player did is reported    *)
(* only while there is one, and a client whose socket connects again has to   *)
(* be told everything again.                                                 *)
(*                                                                         *)
(* The game is polled only while the link is idle; a poll asks for a batch  *)
(* of reads whose callbacks run later, one by one, in the order of the       *)
(* reads.  Between two callbacks anything may happen: the player acts, the  *)
(* console is reset, the cartridge is exchanged, the link is lost, or the   *)
(* Archipelago side resets the game.  pending is the queue of callbacks     *)
(* still to run (the part asked of MemoryChannel); a value is sampled when  *)
(* its callback runs, which loses no behaviour because no client step        *)
(* depends on the console otherwise and the queue keeps the order.          *)
(*                                                                         *)
(* A seed and a slot are one identity here, the rom; a memory block is the  *)
(* set of flags set in it; the won flag is one more flag of the memory.     *)
(* Polling intervals are left out: a poll may ask whenever it is idle.      *)
(***************************************************************************)
EXTENDS Integers, Sequences, FiniteSets

CONSTANTS
    Roms,           \* the randomised ROMs: one per seed and slot
    Vanilla, Other, \* cartridges: the game without a seed; another game
    NoRom,          \* empty seed and slot
    DeathlinkRoms,  \* ROMs whose flags ask for death link
    Locations,      \* the location flags
    Won,            \* the flag set by the outro
    Blocks,         \* the memory blocks of _addressCache
    BlockOf,        \* the block of each location
    SlowReload,     \* assumption: a save is not loaded before the client has seen
                    \* that the last one was left
    GarbageJoins,   \* whether memory outside a save may look like a save being played
    QuietRoom,      \* whether a room never rejects the ROM while the client reads
                    \* whether a save was loaded
    OutroReached    \* bound: whether the player can win

ASSUME RomAssumption ==
    /\ {Vanilla, Other, NoRom} \cap Roms = {}
    /\ Vanilla # Other /\ Vanilla # NoRom /\ Other # NoRom
    /\ DeathlinkRoms \subseteq Roms

ASSUME FlagAssumption ==
    /\ Won \notin Locations
    /\ IsFiniteSet(Blocks)
    /\ BlockOf \in [Locations -> Blocks]

ASSUME TimingAssumption ==
    /\ SlowReload \in BOOLEAN
    /\ GarbageJoins \in BOOLEAN
    /\ QuietRoom \in BOOLEAN
    /\ OutroReached \in BOOLEAN

VARIABLES
    gstate,         \* _state
    rom,            \* _seed and _slot
    wantDeathlink,  \* _wantDeathlink
    readBuffer,     \* _readBuffer: the flags read, per block
    readBufferValid, finishedBuffer,
    cache,          \* _cache: the flags last applied
    pending,        \* callbacks of the reads asked for, oldest first
    status,         \* the colour of the game field in the user interface
    created,        \* game: the object exists
    connected,      \* link: the console can be read
    apState,        \* ap: no client, its socket not connected, connected, room info
                    \* received, slot connected
    rejected,       \* room: what does not belong to the room or slot connected to
    reported,       \* history: flags the client was told, with the ROM, since its socket
                    \* connected
    astray,         \* history: a save is followed that memory only passed for, or for a
                    \* ROM that is not known
    cart,           \* console: the cartridge
    playing,        \* console: a save is being played
    ram,            \* console: the flags set in the memory of that save
    earned,         \* history: flags the player ever set, with the ROM
    noticed         \* history: the client has seen that the last save was left, and all
                    \* that it read before

gameVars    == <<gstate, rom, wantDeathlink, cache, status, astray>>
bufferVars  == <<readBuffer, readBufferValid, finishedBuffer>>
linkVars    == <<created, connected>>
roomVars    == <<apState, rejected>>
consoleVars == <<cart, playing, ram, earned, noticed>>
vars == <<gameVars, bufferVars, pending, linkVars, roomVars, reported, consoleVars>>

-----------------------------------------------------------------------------

States == {"STOPPED", "RUNNING", "JOINED", "FINISHED"}

\* _state >= State::JOINED
Playing(s) == s \in {"JOINED", "FINISHED"}

Flags == Locations \cup {Won}
Carts == Roms \cup {Vanilla, Other}

FlagsOf(b) == {l \in Locations : BlockOf[l] = b}

\* The callbacks: three reads identify the ROM, for one of three uses.
Uses == {"start", "run", "verify"}
Callbacks ==
    [cb : {"header", "flags"}, use : Uses]
        \cup [cb : {"section"}, use : Uses, deathlink : BOOLEAN]
        \cup [cb : {"joined"}, use : {"run", "before", "after"}]
        \cup [cb : {"block"}, block : Blocks]
        \cup [cb : {"finished"}]

Header(use)      == [cb |-> "header", use |-> use]
FlagByte(use)    == [cb |-> "flags", use |-> use]
Section(use, dl) == [cb |-> "section", use |-> use, deathlink |-> dl]
Joined(use)      == [cb |-> "joined", use |-> use]

\* Variant: what is read is always taken for a seed.
SectionRaw(c) == c

\* What the seed and slot read from the cartridge are: those of the ROM, none
\* in an unmodified game, and bytes that are no seed in another game.
SectionOf(c) == IF c = Vanilla THEN NoRom ELSE c

\* The bytes read as the block b: garbage unless a save of a ROM is played.
Readings(b) ==
    IF playing /\ cart \in Roms THEN {ram \cap FlagsOf(b)} ELSE SUBSET FlagsOf(b)

\* The bits read as "a save is being played".
JoinedReadings == IF playing THEN {TRUE} ELSE {FALSE, GarbageJoins}

NoBuffer == [b \in {} |-> {}]

\* One order of the blocks, as the address cache lists them.
Order == CHOOSE s \in [1..Cardinality(Blocks) -> Blocks] :
            \A b \in Blocks : \E i \in DOMAIN s : s[i] = b

-----------------------------------------------------------------------------
(* Steps shared by the callbacks.                                           *)

\* Variant: the buffer stays valid.
InvalidateBuffer ==
    /\ readBuffer' = NoBuffer
    /\ finishedBuffer' = FALSE
    /\ UNCHANGED readBufferValid

\* invalidate_pending_read()
Invalidate ==
    /\ readBuffer' = NoBuffer
    /\ finishedBuffer' = FALSE
    /\ readBufferValid' = FALSE

\* Variant: the state is kept.
ResetKeepsState ==
    /\ cache' = {}
    /\ Invalidate
    /\ rom' = NoRom
    /\ UNCHANGED <<gstate, astray>>

\* reset(), without its handler
Reset ==
    /\ cache' = {}
    /\ Invalidate
    /\ rom' = NoRom
    /\ gstate' = "STOPPED"
    /\ astray' = FALSE

\* Variant: the handler is never called.
StatusUntouched(s) == status

\* _hOnGameStopped is called only when the game was not stopped already.
StatusAfterReset(s) == IF s = "STOPPED" THEN status ELSE "red"

\* Variant: what was reported before is remembered.
ForgetNothing == UNCHANGED <<cache, gstate>>

\* Game::clear_cache(): a won game has to be reported again, too.
Forget ==
    /\ cache' = {}
    /\ gstate' = IF gstate = "FINISHED" THEN "JOINED" ELSE gstate

\* A step of the client: the console stays as it is, and the player may load a save
\* once the client follows none and waits for no answer asked for before.
ConsoleStays ==
    /\ noticed' = (noticed \/ (pending' = <<>> /\ ~Playing(gstate')))
    /\ UNCHANGED <<cart, playing, ram, earned>>

\* A step that leaves the game alone.
GameStays == UNCHANGED <<gameVars, bufferVars>>

\* After a look at the save: whether it was deceived, now or before.
Follow(joined) ==
    astray' = (Playing(gstate') /\ (astray \/ (joined /\ ~playing) \/ rom \notin Roms))

-----------------------------------------------------------------------------
(* The link and the Archipelago side.                                       *)

Init ==
    /\ gstate = "STOPPED"
    /\ rom = NoRom
    /\ wantDeathlink = FALSE
    /\ readBuffer = NoBuffer
    /\ readBufferValid = FALSE
    /\ finishedBuffer = FALSE
    /\ cache = {}
    /\ pending = <<>>
    /\ status = "gray"
    /\ created = FALSE
    /\ connected = FALSE
    /\ apState = "NONE"
    /\ rejected = {}
    /\ reported = {}
    /\ astray = FALSE
    /\ cart \in Carts
    /\ playing = FALSE
    /\ ram = {}
    /\ earned = {}
    /\ noticed = TRUE

\* The handler of snes_connected creates the game the first time.
Connect ==
    /\ ~connected
    /\ connected' = TRUE
    /\ created' = TRUE
    /\ status' = IF created THEN status ELSE "red"
    /\ UNCHANGED <<gstate, rom, wantDeathlink, cache, astray, bufferVars, pending, roomVars,
                   reported>>
    /\ ConsoleStays

\* The link is lost: the callbacks never run, and the game is reset.
Disconnect ==
    /\ connected
    /\ connected' = FALSE
    /\ pending' = <<>>
    /\ Reset
    /\ status' = "gray"
    /\ UNCHANGED <<wantDeathlink, created, roomVars, reported>>
    /\ ConsoleStays

\* connect_ap(): a new client, which knows nothing.
ConnectAp ==
    /\ apState' = "OFF"
    /\ rejected' = {}
    /\ reported' = {}
    /\ Forget
    /\ UNCHANGED <<rom, wantDeathlink, status, astray, bufferVars, pending, linkVars>>
    /\ ConsoleStays

\* disconnect_ap(): by the user, or after too many errors.  The cache is left alone.
DisconnectAp ==
    /\ apState # "NONE"
    /\ apState' = "NONE"
    /\ rejected' = {}
    /\ reported' = {}
    /\ GameStays
    /\ UNCHANGED <<pending, linkVars>>
    /\ ConsoleStays

\* The socket connects, for the first time or again: what the server knows is not known.
SocketConnected ==
    /\ apState = "OFF"
    /\ apState' = "SOCKET"
    /\ reported' = {}
    /\ Forget
    /\ UNCHANGED <<rom, wantDeathlink, status, astray, bufferVars, pending, linkVars, rejected>>
    /\ ConsoleStays

\* The socket is lost; the client connects again by itself.
SocketLost ==
    /\ apState \in {"SOCKET", "ROOM", "SLOT"}
    /\ apState' = "OFF"
    /\ rejected' = {}
    /\ GameStays
    /\ UNCHANGED <<pending, linkVars, reported>>
    /\ ConsoleStays

\* The command /sync.
SyncCommand ==
    /\ Forget
    /\ UNCHANGED <<rom, wantDeathlink, status, astray, bufferVars, pending, linkVars, roomVars,
                   reported>>
    /\ ConsoleStays

\* The reads of a RUNNING game are not all answered.
JoiningInFlight == \E i \in DOMAIN pending :
    pending[i].cb \in {"header", "flags", "section", "joined"} /\ pending[i].use = "run"

\* What a room rejects: some of the ROMs, and bytes that are no seed.
Rejects == {{Other} \cup refused : refused \in SUBSET Roms}

\* The room tells its seed: a game of another seed is reset.
RoomInfo ==
    /\ apState = "SOCKET"
    /\ apState' = "ROOM"
    /\ rejected' \in Rejects
    /\ IF rom \in rejected'
       THEN /\ QuietRoom => ~JoiningInFlight
            /\ Reset
            /\ status' = StatusAfterReset(gstate)
       ELSE UNCHANGED <<gstate, rom, cache, status, astray, bufferVars>>
    /\ UNCHANGED <<wantDeathlink, pending, linkVars, reported>>
    /\ ConsoleStays

\* A slot of the room is connected; from now on no other game is welcome.
SlotConnected ==
    /\ apState = "ROOM"
    /\ apState' = "SLOT"
    /\ \E slot \in Roms \ rejected : rejected' = {Other} \cup (Roms \ {slot})
    /\ GameStays
    /\ UNCHANGED <<pending, linkVars, reported>>
    /\ ConsoleStays

-----------------------------------------------------------------------------
(* poll()                                                                   *)

BlockReads == [i \in DOMAIN Order |-> [cb |-> "block", block |-> Order[i]]]

\* The reads asked for in each state.  Chained reads are queued behind all of them.
Batch ==
    CASE gstate = "STOPPED" -> <<Header("start")>>
      [] gstate = "RUNNING" -> <<Header("run")>>
      [] Playing(gstate)    -> <<Joined("before")>> \o BlockReads
                                 \o <<[cb |-> "finished"], Header("verify"), Joined("after")>>

Poll ==
    /\ connected
    /\ pending = <<>>
    /\ pending' = Batch
    /\ GameStays
    /\ UNCHANGED <<linkVars, roomVars, reported>>
    /\ ConsoleStays

-----------------------------------------------------------------------------
(* The callbacks that learn the ROM.                                        *)

\* The game was found: the handler of game_started clears the cache, and resets
\* the game again if the connected room does not want it.  A slot that is connected is
\* given up for it.
Started(r) ==
    IF r \in rejected
    THEN /\ Reset
         /\ status' = "red"
         /\ IF apState = "SLOT"
            THEN apState' = "OFF" /\ rejected' = {}
            ELSE UNCHANGED roomVars
    ELSE /\ rom' = r
         /\ gstate' = "RUNNING"
         /\ cache' = {}
         /\ status' = "yellow"
         /\ UNCHANGED <<astray, bufferVars, roomVars>>

\* Variant: the cache of the last game is kept.
StartedKeepsCache(r, dl) ==
    IF r = NoRom
    THEN GameStays /\ UNCHANGED roomVars
    ELSE /\ wantDeathlink' = dl
         /\ rom' = r
         /\ gstate' = "RUNNING"
         /\ status' = "yellow"
         /\ UNCHANGED <<cache, astray, bufferVars, roomVars>>

\* The callback of read_seed_and_slot() while STOPPED.
StartIdentified(r, dl) ==
    IF r = NoRom
    THEN GameStays /\ UNCHANGED roomVars
    ELSE /\ wantDeathlink' = dl
         /\ IF r = rom /\ gstate # "STOPPED"
            THEN UNCHANGED <<gstate, rom, cache, status, astray, bufferVars, roomVars>>
            ELSE Started(r)

\* Variant: the flags seen first are kept.
RunKeepsFlags(r, dl) ==
    /\ Invalidate
    /\ IF r # rom
       THEN /\ gstate' = "STOPPED"
            /\ rom' = NoRom
            /\ wantDeathlink' = FALSE
            /\ status' = "red"
       ELSE UNCHANGED <<gstate, rom, wantDeathlink, status>>
    /\ UNCHANGED <<cache, astray, roomVars>>

\* The callback of read_seed_and_slot() while RUNNING; the "joined" read that
\* follows is queued by the caller.
RunIdentified(r, dl) ==
    /\ Invalidate
    /\ IF r # rom
       THEN /\ gstate' = "STOPPED"
            /\ rom' = NoRom
            /\ wantDeathlink' = FALSE
            /\ status' = "red"
       ELSE /\ wantDeathlink' = dl
            /\ UNCHANGED <<gstate, rom, status>>
    /\ UNCHANGED <<cache, astray, roomVars>>

\* The callback of read_seed_and_slot() while JOINED or FINISHED.
VerifyIdentified(r, dl) ==
    IF r # NoRom /\ r = rom
    THEN GameStays /\ UNCHANGED roomVars
    ELSE /\ Invalidate
         /\ IF gstate \in {"JOINED", "RUNNING"}
            THEN /\ gstate' = "STOPPED"
                 /\ wantDeathlink' = FALSE
                 /\ status' = "red"
                 /\ astray' = FALSE
            ELSE UNCHANGED <<gstate, wantDeathlink, status, astray>>
         /\ UNCHANGED <<rom, cache, roomVars>>

Identified(use, r, dl) ==
    CASE use = "start"  -> StartIdentified(r, dl)
      [] use = "run"    -> RunIdentified(r, dl)
      [] use = "verify" -> VerifyIdentified(r, dl)

\* Variant: whether a save is played is asked whatever the ROM is.
ReadsAlways(use, r) == IF use = "run" THEN <<Joined("run")>> ELSE <<>>

\* The reads queued by that callback.
ReadsAfter(use, r) ==
    IF use = "run" /\ r = rom THEN <<Joined("run")>> ELSE <<>>

\* The callback of the oldest read runs.
Answered(cb) == connected /\ pending # <<>> /\ Head(pending).cb = cb

OnHeader ==
    /\ Answered("header")
    /\ LET use == Head(pending).use
       IN  IF cart = Other
           THEN /\ Identified(use, NoRom, FALSE)
                /\ pending' = Tail(pending) \o ReadsAfter(use, NoRom)
           ELSE /\ pending' = Append(Tail(pending), FlagByte(use))
                /\ GameStays
                /\ UNCHANGED roomVars
    /\ UNCHANGED <<linkVars, reported>>
    /\ ConsoleStays

OnFlags ==
    /\ Answered("flags")
    /\ pending' = Append(Tail(pending), Section(Head(pending).use, cart \in DeathlinkRoms))
    /\ GameStays
    /\ UNCHANGED <<linkVars, roomVars, reported>>
    /\ ConsoleStays

OnSection ==
    /\ Answered("section")
    /\ LET use == Head(pending).use
           r   == SectionOf(cart)
       IN  /\ Identified(use, r, Head(pending).deathlink)
           /\ pending' = Tail(pending) \o ReadsAfter(use, r)
    /\ UNCHANGED <<linkVars, reported>>
    /\ ConsoleStays

-----------------------------------------------------------------------------
(* The callbacks that follow the play.                                      *)

\* The player was seen to leave the save.
Left ==
    /\ gstate' = "RUNNING"
    /\ status' = "yellow"

\* A save was loaded.
OnJoinedRun ==
    \E joined \in JoinedReadings :
        /\ Answered("joined")
        /\ Head(pending).use = "run"
        /\ pending' = Tail(pending)
        /\ Invalidate
        /\ IF joined /\ ~Playing(gstate)
           THEN /\ gstate' = "JOINED"
                /\ status' = "green"
           ELSE UNCHANGED <<gstate, status>>
        /\ Follow(joined)
        /\ UNCHANGED <<rom, wantDeathlink, cache, linkVars, roomVars, reported>>
        /\ ConsoleStays

\* The first check: only what is read after it may be applied.
OnJoinedBefore ==
    \E joined \in JoinedReadings :
        /\ Answered("joined")
        /\ Head(pending).use = "before"
        /\ pending' = Tail(pending)
        /\ readBuffer' = NoBuffer
        /\ finishedBuffer' = FALSE
        /\ readBufferValid' = (joined /\ Playing(gstate))
        /\ IF ~joined /\ Playing(gstate) THEN Left ELSE UNCHANGED <<gstate, status>>
        /\ Follow(joined)
        /\ UNCHANGED <<rom, wantDeathlink, cache, linkVars, roomVars, reported>>
        /\ ConsoleStays

OnBlock ==
    /\ Answered("block")
    /\ pending' = Tail(pending)
    /\ \E value \in Readings(Head(pending).block) :
         readBuffer' = [b \in DOMAIN readBuffer \cup {Head(pending).block} |->
                          IF b = Head(pending).block THEN value ELSE readBuffer[b]]
    /\ UNCHANGED <<gameVars, readBufferValid, finishedBuffer, linkVars, roomVars, reported>>
    /\ ConsoleStays

OnFinished ==
    /\ Answered("finished")
    /\ pending' = Tail(pending)
    /\ finishedBuffer' \in (IF playing /\ cart \in Roms THEN {Won \in ram} ELSE BOOLEAN)
    /\ UNCHANGED <<gameVars, readBuffer, readBufferValid, linkVars, roomVars, reported>>
    /\ ConsoleStays

\* Flags set in the buffer and not yet in the cache.
Fresh == UNION {readBuffer[b] \ cache : b \in DOMAIN readBuffer}

\* The cache takes over the blocks that were read.
Cached ==
    {l \in cache : BlockOf[l] \notin DOMAIN readBuffer}
        \cup UNION {readBuffer[b] : b \in DOMAIN readBuffer}

\* Report the locations, then the end of the game, to the client if there is one; what
\* nobody is told is remembered all the same.
Apply ==
    LET won  == finishedBuffer /\ gstate # "FINISHED"
        news == {<<rom, l>> : l \in Fresh} \cup (IF won THEN {<<rom, Won>>} ELSE {})
    IN  /\ reported' = IF apState = "NONE" THEN reported ELSE reported \cup news
        /\ cache' = Cached
        /\ IF won
           THEN gstate' = "FINISHED" /\ status' = "green"
           ELSE UNCHANGED <<gstate, status>>
        /\ Invalidate

\* Variant: what the player does while the blocks are read is not checked.
Unchecked(joined) ==
    IF Playing(gstate) /\ readBufferValid
    THEN Apply
    ELSE UNCHANGED <<gstate, cache, status, reported, bufferVars>>

\* The second check, and what it lets through.
Checked(joined) ==
    CASE Playing(gstate) /\ ~joined ->
            Left /\ Invalidate /\ UNCHANGED <<cache, reported>>
      [] Playing(gstate) /\ joined /\ readBufferValid ->
            Apply
      [] OTHER ->
            UNCHANGED <<gstate, cache, status, reported, bufferVars>>

OnJoinedAfter ==
    \E joined \in JoinedReadings :
        /\ Answered("joined")
        /\ Head(pending).use = "after"
        /\ pending' = Tail(pending)
        /\ Checked(joined)
        /\ Follow(joined)
        /\ UNCHANGED <<rom, wantDeathlink, linkVars, roomVars>>
        /\ ConsoleStays

-----------------------------------------------------------------------------
(* The player and the console.                                              *)

clientUnchanged == UNCHANGED <<gameVars, bufferVars, pending, linkVars, roomVars, reported>>

\* A save is started or loaded: some state the player had reached before.  Memory that
\* passes for a save does not keep the player from loading one.
LoadSave ==
    /\ SlowReload /\ ~playing => noticed \/ astray
    /\ cart # Other
    /\ playing' = TRUE
    /\ ram' \in SUBSET {f \in Flags : <<cart, f>> \in earned}
    /\ clientUnchanged
    /\ UNCHANGED <<cart, earned, noticed>>

\* The client does not know yet that the save was left.
Unnoticed == noticed' = (pending = <<>> /\ ~Playing(gstate))

LeaveSave ==
    /\ playing
    /\ playing' = FALSE
    /\ ram' = {}
    /\ Unnoticed
    /\ clientUnchanged
    /\ UNCHANGED <<cart, earned>>

\* The player loots a location, or reaches the outro.
Earn ==
    /\ playing
    /\ cart \in Roms
    /\ \E f \in Flags \ ram :
         /\ f = Won => OutroReached
         /\ ram' = ram \cup {f}
         /\ earned' = earned \cup {<<cart, f>>}
    /\ clientUnchanged
    /\ UNCHANGED <<cart, playing, noticed>>

\* Another cartridge is started while the link stays up.
SwapCart ==
    /\ cart' \in Carts \ {cart}
    /\ playing' = FALSE
    /\ ram' = {}
    /\ Unnoticed
    /\ clientUnchanged
    /\ UNCHANGED earned

-----------------------------------------------------------------------------

Callback ==
    \/ OnHeader \/ OnFlags \/ OnSection
    \/ OnJoinedRun \/ OnJoinedBefore \/ OnBlock \/ OnFinished \/ OnJoinedAfter

Next ==
    \/ Connect \/ Disconnect
    \/ ConnectAp \/ DisconnectAp \/ SyncCommand
    \/ SocketConnected \/ SocketLost \/ RoomInfo \/ SlotConnected
    \/ Poll
    \/ OnHeader \/ OnFlags \/ OnSection
    \/ OnJoinedRun \/ OnJoinedBefore \/ OnBlock \/ OnFinished \/ OnJoinedAfter
    \/ LoadSave \/ LeaveSave \/ Earn \/ SwapCart

Spec == Init /\ [][Next]_vars

\* The main loop polls for ever, and a link that stays up answers every read.
FairSpec == Spec /\ WF_vars(Poll) /\ WF_vars(Callback)

-----------------------------------------------------------------------------
(* Properties.                                                              *)

\* The values of the fields of Game, of its queue of callbacks and of the console.
TypeOK ==
    /\ gstate \in States
    /\ rom \in Roms \cup {NoRom, Other}
    /\ wantDeathlink \in BOOLEAN
    /\ \E B \in SUBSET Blocks : readBuffer \in [B -> SUBSET Locations]
    /\ readBufferValid \in BOOLEAN
    /\ finishedBuffer \in BOOLEAN
    /\ cache \subseteq Locations
    /\ pending \in Seq(Callbacks)
    /\ status \in {"gray", "red", "yellow", "green"}
    /\ created \in BOOLEAN
    /\ connected \in BOOLEAN
    /\ apState \in {"NONE", "OFF", "SOCKET", "ROOM", "SLOT"}
    /\ rejected \subseteq Roms \cup {Other}
    /\ reported \subseteq (Roms \cup {NoRom, Other}) \X Flags
    /\ astray \in BOOLEAN
    /\ cart \in Carts
    /\ playing \in BOOLEAN
    /\ ram \subseteq Flags
    /\ earned \subseteq Roms \X Flags
    /\ noticed \in BOOLEAN

\* Archipelago is told only what the player really did, and for the ROM it was done in,
\* whatever is loaded, left, swapped and reset between the callbacks of a batch.  Memory
\* that passes for a save being played is reported only as long as every look of the
\* client is deceived: when it was seen that no save is played, nothing of it is left.
ReportedIsEarned == [][astray' \/ reported' \ reported \subseteq earned]_vars

\* What the cache or a won game suppresses was told to the client, since its socket
\* connected, for the ROM being played: neither another ROM, nor an earlier connection,
\* nor a time without a client hides loot from the room.
CachedIsReported ==
    Playing(gstate) /\ apState # "NONE" =>
        /\ {<<rom, l>> : l \in cache} \subseteq reported
        /\ gstate = "FINISHED" => <<rom, Won>> \in reported

\* What poll() says its callbacks double-check: a callback that runs after the game
\* was reset does not take up a save for a ROM that is not known.
JoinedKnowsRom == Playing(gstate) => rom # NoRom

\* While a save is followed the game wants death link exactly if its ROM does, though
\* the flags and the seed are read at different moments, on a console that loads saves
\* slowly.
DeathlinkOfRom == Playing(gstate) /\ ~astray => (wantDeathlink <=> rom \in DeathlinkRoms)

\* What the second check lets through is one complete snapshot taken after the first.
SnapshotComplete ==
    readBufferValid /\ Answered("joined") /\ Head(pending).use = "after"
        => DOMAIN readBuffer = Blocks

\* Green means that a save is followed, yellow that the game was found, red that none is;
\* without a link it is gray, and stays gray when the link comes back until the game is
\* found again.
StatusMatchesGame ==
    /\ status = "gray" => gstate = "STOPPED"
    /\ ~connected => status = "gray"
    /\ status = "red" => gstate = "STOPPED"
    /\ status = "yellow" <=> gstate = "RUNNING"
    /\ status = "green" <=> Playing(gstate)

\* Game keeps the promises of GamePhases to the item half of SoE and to Archipelago: it
\* joins only a save of the ROM it knows, and leaves the ROM only for a reason.  That
\* memory passes for a save (GarbageJoins), or a room interrupts a game that is joining
\* (QuietRoom), is outside of what GamePhases promises.
Phases == INSTANCE GamePhases

ImplementsPhases == Phases!Spec

\* A game that follows a cartridge notices that it was exchanged.
RomChangeNoticed == Playing(gstate) /\ cart # rom ~> ~Playing(gstate) \/ cart = rom

\* What the player loots in a ROM, and that it was won, is told to the client of a room
\* that the ROM belongs to, if the player goes on playing: also what was looted before the
\* room was connected, or while another client was.  No flag stays set and untold.
LootIsReported ==
    \A f \in Flags :
        <>[](connected /\ playing /\ apState \in {"ROOM", "SLOT"} /\ cart \in Roms \ rejected)
            => []<>(f \in ram => <<cart, f>> \in reported)

=============================================================================
