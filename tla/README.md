# ap-soeclient in TLA+

ap-soeclient connects a game of *Secret of Evermore*, running on a console or an
emulator, with an Archipelago room. It polls the memory of the console through a
usb2snes service, tells the room what the player looted, and writes the items
that the room sends into the memory of a script of the game.

This directory holds TLA+ models of that program, translated from its source,
the TLC configurations that check them, and proofs checked by TLAPS.

    tlc -config Usb2Snes.cfg MCUsb2Snes        # any run of the table below
    tlapm Usb2SnesProofs.tla                   # the proofs

## The system

Everything runs in one thread. `step()` (`src/main.cpp`) calls `snes->poll()`,
`ap->poll()`, `game->poll()` and handles one command, for ever; the handlers of
the web sockets run inside the two `poll()`s. There is no data race. What makes
the program hard is that almost every operation is split: a read is asked for
in one step and its callback runs in a later one, and in between the player, the
console, the link and the room do what they like.

| Component | Source | State | Operations | Talks to |
|---|---|---|---|---|
| USB2SNES | `usb2snes.hpp` | `_state`, `_ws`, `_txQueue`, `_rxBuffer`, `_uri`, three clocks | `poll`, `idle`, `read_memory`, `write_memory`; `onopen`, `onclose`, `onmessage` | service (web socket); Game by read callbacks; main by handlers |
| Game | `games/game.hpp` | `_state`, `_seed`, `_slot`, `_readBuffer`, `_cache`, flags | `poll` with seven callbacks, `reset`, `clear_cache` | USB2SNES; main by handlers |
| SoE, reads | `games/soe/soe.hpp` | – | `read_seed_and_slot` (up to three chained reads), `read_joined`, `read_finished` | USB2SNES |
| SoE, items | `games/soe/soe.hpp` | `_receivedItems`, `_lastItemIndex`, two overrides | `poll`, `send_item`, `force_send`, `force_resend`, `clear_cache` | USB2SNES; main |
| SoE, death link | `games/soe/soe.hpp` | `_dead`, `_deathQueued`, `_deathSent`, a clock | `poll`, `send_death` | USB2SNES; main |
| AP session | `main.cpp` | `ap`, `awaiting_password`, `ap_connect_sent`, `deathtime`, … | twelve handlers of the room, eight of the game, six commands | room; Game |
| Address cache, `mapaddr` | `game.hpp`, `usb2snes.hpp` | `_addressCache` | `makeAddressCache`, `mapaddr` | – |
| Outside | – | – | usb2snes service, console, item script, player, Archipelago server | – |

What is hard in each, and what makes it correct:

- **USB2SNES.** Answers have no identifier and are matched with requests by
  position. Writes are not answered. The link may go at any moment, in the
  middle of an answer. Correct: every callback gets the bytes of its own
  request, no request outlives its connection, the client always becomes idle
  again and always finds the service again.
- **Game.** A poll asks for a batch of reads; the seven callbacks run one by one,
  and a reset, a cleared cache, a swapped cartridge or a left save may come
  between any two; the client of the room comes and goes, and without one a
  report is dropped. Correct: what is reported was earned, and in that ROM; what
  was earned is reported to whichever client there is in the end; the phase and
  the colour follow the console.
- **Items.** The room, the client and the script each have an opinion about
  which item is next; messages of the room, reads and writes are in flight; the
  player loads older saves; an item and its start byte are two writes. Correct:
  each save holds the first items of its slot, in order, once each, and
  eventually all of them.
- **AP session.** Commands, answers to earlier requests, a password prompt that
  swallows every line, and a game that changes its identity at any moment.
  Correct: the slot connected is that of the game, with its tag; a line is taken
  for a password only while a room waits for one (or, in the browser, after the
  client gave up while it asked); room and game find each other in any order.
- **Death link.** A death sent to the room comes back as an echo; a death
  received kills the player, which must not be sent again. Correct: each death is
  told once, kills once, and neither the echo nor the killed player starts
  another round.
- **Address cache.** Locations are merged into few reads by a loop that goes
  backwards and counts in unsigned numbers; only the first address of a read is
  mapped. Correct: the reads cover the locations, and nothing is read from a
  place that is not its own.

## The modules

| Module | Models | Rests on |
|---|---|---|
| `MemoryChannel` | what USB2SNES promises: reads are answered once, in order, with the right block, or not at all when the link goes | – |
| `Usb2Snes` | USB2SNES, with service and console as environment | implements `MemoryChannel` |
| `Usb2SnesProofs` | the invariants of `Usb2Snes` about its state and its queue, proved | `Usb2Snes` |
| `Usb2SnesChannelProofs` | that answers meet their requests, and the refinement of `MemoryChannel`, proved | `Usb2SnesProofs` |
| `GamePhases` | what Game promises: its phases, and which ROM it believes in | – |
| `SnesGame` | Game and the reads of SoE, with console and player as environment | implements `GamePhases` |
| `SnesGameProofs` | the invariants of `SnesGame` and its refinement of `GamePhases`, proved | `SnesGame` |
| `ItemDelivery` | the item half of SoE with the session it depends on, room and script as environment | `GamePhases`, as an instance |
| `ItemDeliveryProofs` | the invariants of `ItemDelivery`, proved | `ItemDelivery` |
| `DeathLink` | the death half of SoE with its clocks, the handlers of `main.cpp` for deaths and bounces, player, script and room as environment | `GamePhases`, as an instance |
| `DeathLinkProofs` | the invariants of `DeathLink`, proved | `DeathLink` |
| `Session` | `main.cpp`: connecting, the slot asked for, the password prompt, refusals, the errors counted, the tag | `GamePhases`, as an instance |
| `SessionProofs` | the invariants of `Session`, proved | `Session` |
| `AddressCache` | `makeAddressCache()`, the reads of a batch, `mapaddr()` | – |
| `AddressCacheProofs` | the invariants of `AddressCache`, proved | `AddressCache` |
| `MC…` | constants for TLC | |

The abstract specifications are the seams. `SnesGame` does not contain the web
socket: its queue `pending` is the queue `asked` of `MemoryChannel`, which the
run of `Usb2Snes` shows to be what the link offers and `Usb2SnesChannelProofs`
proves for every instance (`ChannelImplemented`). `ItemDelivery`, `DeathLink`
and `Session` do not contain the reads by which Game follows the console: they
take the steps of `GamePhases`, which `SnesGameProofs` shows to be all that Game
does (`PhasesImplemented`) as long as memory does not pass for a save and no room
interrupts a game that joins. What couples the three with each other they repeat:
each has as much of the session as its own questions need.

### From the code to the model

*Usb2Snes.* Variables carry the names of the fields (`txQueue` is `_txQueue`).
Each branch of `poll()` and each socket handler is an action. `owed`, `given`,
`listening` and `device` are the service; `reply` is a history of the last
answer given to a callback. `ReadBatch` stands for the polls of the game, and
`CallbackSends` for what read callbacks do: read more, or write. A clock is the
time since the moment the code remembers, up to the point where nothing
compares it any more; `Unset` is the uninitialised `_lastSnesConnect`. An answer
comes in any number of chunks, but no chunk spans two answers.

*SnesGame.* `pending` holds the callbacks still to run, with the place in the
batch each belongs to. A seed with a slot is one identity (`rom`). A memory block
is the set of flags set in it. The value of a read is taken when its callback
runs: callbacks run in the order of the reads and nothing else in the client
depends on the console, so every order of readings and client steps remains.
The intervals between polls are left out (a poll may come whenever the link is
idle). `apState` is the client of the room as in `Session`, without the requests
for a slot: a report made without a client is dropped, as `main.cpp` does, but
the flags stay in the cache. Four variables are histories: `earned`, what the
player did; `reported`, what the client was told since its socket connected
(`SocketConnected` forgets it, as it clears the cache: a room may have lost it);
`astray`, that the save followed is none, since memory only passed for one, or is
followed without a known ROM; `noticed`, that the client has seen the last save
left and nothing read before is on its way.

*ItemDelivery.* `wire` is what is on its way to the console, in order; a lost link
loses it. The memory of the script is a record: the number expected, the buffer
(`index`, `item`, `start`), and the history `given`. An item is its slot and its
number. The test `expectedIndex <= _lastItemIndex` of the code is implied by the
lookup that follows it, so the model has the lookup only. Of the session it has
what moves items: room info, connect and its answer, Sync and its answer, new
items, loss. The seeds differ exactly for the ROM `Other`.

*DeathLink.* `dead`, `deathQueued` and `deathSent` are the fields of that name;
`sinceLink` and `sinceLook` are the ages of `_lastDeathlinkDeath` and `_lastSent`,
up to the point where nothing compares them any more. The order of `pending` is
that of the code: the reads of death link stand between the two looks of Game.
The player (`boy`) goes from alive to doomed, when the effect strikes, to dead;
`cause` says what of, and becomes `told` when the client saw the death and told
it, or `untold` when it saw it without a slot: then nobody hears of it, and the
death counts as seen. `blamed` and `queuedFor` are histories of what the client
told the room of and why it is about to kill; a death read from memory outside a
save is blamed on `garbage`. An effect whose batch the client left is
`stray`: it still kills, but nobody times it. `_lastSent` and the item half share
a clock in the code; here it is used by the looks at the player only.

*Session.* `apState` is the state of the APClient (and `NONE` if there is no
client). A connect is a message with the slot, whether the password is right,
and the tag; ConnectUpdate is another. `served` is what the room knows. Seed and
slot of a ROM belong to one room (`RoomOf`). The flags of a game that is found
are those of its ROM: a swap between the reads of the flags and of the section is
the business of `SnesGame`. A tab or a line of the user that is no command is
left out.

*AddressCache.* One action is one turn of the merging loop, from the highest
address down; afterwards each answer fills the buffer with the places it was
read from, so that a property can compare them with `MapAddr` of each address
alone. `prev >= 3` stands for what the unsigned subtraction of the code does with
a lower address.

Operators marked *Variant* are plausible mistakes in the operator that follows
them; no specification uses them. They document which property notices which
mistake.

## The runs

| Run | Question | Instance |
|---|---|---|
| `usb2snes` | Do request and answer stay matched, does the link implement `MemoryChannel`, does the client find the service on either URI and become idle again? | two blocks of 1 and 2 bytes, one read in the callback of the other, two writes, two URIs |
| `snesgame_safety` | Is only what was earned reported, and from a whole snapshot; was what the cache suppresses told to the present client; do phase and colour agree? | one ROM, a vanilla and another cartridge, two blocks, one location, the outro; memory that passes for a save, rooms that reject the ROM at any moment |
| `snesgame_live` | The same between two ROMs; does Game implement `GamePhases`; is a swapped cartridge noticed, and loot reported? | two ROMs, one location, the outro; memory never passes for a save, no room interrupts a game that joins |
| `items_safety` | Does each save hold the first items of its slot? | two ROMs of one room, two items each |
| `items_live` | Do all items arrive, even if whole memories are restored, unless the buffer stays locked? | one ROM, two items |
| `deathlink` | Is a death told once and carried out once; does a received one, or an echo, never start another? | one ROM with death link, a look each unit of time, a window of three, two times, two deaths under way |
| `session` | Does the room know the slot of the game and its wish for deaths; is a prompt open only while it is due; do room and game find each other? | three ROMs, a room with a password and two of them, a room without and one, three errors |
| `address_cache` | Do the merged reads cover the locations, from their own places, and could they be fewer? | every set of twelve addresses, three of them at the end of the bank |
| `snesgame_late_verify`, `snesgame_room_reset`, `snesgame_finished_swap`, `items_slot_swap` | disagreements between the code and its comments, see below | one assumption dropped each |

**Bounds.** Two ROMs are enough to confuse one with another; the third of a
confusion adds nothing, since every field holds one identity (`Session` has a
third because it has two rooms). Locations are independent of each other in the
code, so one suffices; its block is one of two, because a buffer can be half
filled. The two runs of `SnesGame` share the work: with one ROM, everything that
a deceived client or an interrupted join can do; with two, what one ROM may do to
another. Together in one instance they would be too many for TLC, and the
theorems have them together. Two items with two messages in flight give holes, duplicates and
reordering of a Sync with a new item. A batch of two reads with a chained read
and two writes gives every arrangement of answered and unanswered messages at the
head of the queue. `BaseInterval`, `MaxInterval`, `SnesRetry`, `PollInterval`,
`Window` and `Dying` count ticks and are just large enough that the interval
doubles, meets its cap, a retry may come before or after an answer, and a death
falls inside and outside of the window. Two times, with one death of the player
and one of another under way, are what the one variable `deathtime` can confuse.
Nine neighbouring addresses give reads that are merged, merged again and just not
merged, around the addresses of the client's own reads. `MaxBatch`, `MaxWrites`,
`MaxItems`, `MaxInbox`, `MaxAsked` and `OutroReached` bound the exploration, not
the program; `MaxErrors` is the constant of the browser build.

**Assumptions of the passing runs.** They are constants, so that they can be
dropped:

- `SlowReload` (both runs of `SnesGame`): loading a save (after a boot, through the title screen) takes
  longer than the client needs to notice that the last one was left.
- `QuietRoom` (`snesgame_live` only, for `GamePhases`): the room does not reject
  the ROM exactly while the client reads whether a save was loaded.
- `GarbageJoins = FALSE` (`snesgame_live` only): memory outside a save does not
  pass for a save. With random bytes, the test of `read_joined` lets one reading
  in eight pass (`soe.hpp:71`), `read_seed_and_slot` cannot help because it reads
  the cartridge, and the note in `Game::poll()` (`game.hpp:86-87`) admits that
  checks may be triggered by it. `snesgame_safety` has it TRUE: garbage that is
  taken for a save is reported while every look is deceived (`astray`), and the
  properties say what holds all the same.
- `PromptRoom`: a connect is answered before another game is found
  (`ItemDelivery` and `Session`; without it `PromptIsDue` and `RoomKnowsGame` fail
  as `ReceivedIsForRom` does, while `ConnectsInAnyOrder` still holds).
- `PromptEcho`: the echo of a death comes before the player's next death. One
  variable remembers the last message, so without it `EchoNeverKills` fails.
- `ClockAssumption` of `DeathLink`: the client looks at the player at some
  interval above zero, the effect kills within `Dying`, and a look, its answer and
  the death fit into the window of five seconds.
- `AddressAssumption`: all flags of locations lie in the first bank of the work
  memory, as in the generated table.

**Fairness.** The main loop runs for ever: weak fairness of each of its steps. A
link that stays up answers: weak fairness of the answers (`OnJson`, `OnBytes`,
`Callback`, `OnState`, `WriteArrives`), of the room (`OnItems`, `SyncReply`) and
of the item script (`Take`, `Discard`). `OnOpen` is strongly fair: a service that
listens whenever it is tried accepts one of the attempts, while each attempt may
be abandoned by its timeout. `ForceSend` is a command of the user and has no
fairness: an item whose start byte was lost stays in the buffer until it is
given, and `AllDelivered` says that this lock is the only way for items not to
arrive. In `DeathLink` the polls, their callbacks, the echoes, the
clock and the script that kills are weakly fair; in `Session` the room handles
what it is sent, and a user who is asked for a password types one, right or
wrong. Opening sockets needs no fairness there: the premise of
`ConnectsInAnyOrder` is that room and game stay. Nothing is assumed of the player, of losses, or of swaps,
beyond what a property states as its premise. No fairness bounds the time that
the service takes for DeviceList and Info other than that it answers: the code
has no timeout there, and a silent service blocks it.

## What the code does differently from what it says

- `snesgame_late_verify`: a batch applies the flags it read *before* the ROM is
  verified, since only the first read of the verification is queued ahead of the
  last joined read. Without `SlowReload`, loot of one ROM is reported for
  another.
- `snesgame_room_reset`: without `QuietRoom`, a reset between the two reads of a
  RUNNING game is undone by the second, and the game is joined without a seed.
- `snesgame_finished_swap`: without `SlowReload`, a FINISHED game never notices
  another cartridge.
- `items_slot_swap`: without `PromptRoom`, the answer to the connect of one ROM
  fills the items of the next. The handlers compare slots only when a game is
  found, and only with a slot already connected.

## What is proved

For all constants that satisfy the assumptions, checked by TLAPS:

- `Usb2SnesProofs`: `TypeOK`, `LinkConsistent`, `AnswerFitsState`,
  `BusyIsAwaited`, `StatusMatchesState`, `RetryClockSet`, for every number of
  URIs, blocks, batches and writes. The inductive invariant is their conjunction
  with `RetryClockSet` strengthened to `SnesClockSet` (the clock is set in
  *every* state with an open socket; in SNES_LIST and SNES_CONNECTING it is not
  read but must not be forgotten). The work is in the queue: it is cut in one
  step by the loops of `onmessage()`, and `DrainFacts` says what is left.
  `BusyIsAwaited` and `AnswerFitsState` need each other: a handshake request
  must be the last of the queue for the drained queue to be the expected one.

- `Usb2SnesChannelProofs`: `RepliesMeetRequests`, `NoReconnectStorm` and
  `ImplementsChannel`, the refinement of `MemoryChannel`, for queues, chunks,
  batches, chained reads and writes of any number. `RepliesMeetRequests` is
  inductive together with the invariant above. Its proof needs three algebras. What
  is chosen from a queue (`Those`) is a homomorphism (`ThoseJoined`) that draining
  does not change (`ThoseDrained`), so the messages the queue expects move with
  those the service owes: `Aligned` says that the two agree on what is answered
  next, `AnsweredThose` what is left when it was. The chunks of an answer join
  (`BytesJoined`), so the buffer is always a prefix of the block. `Answering` puts
  both together: a message with bytes either extends the prefix and nothing else,
  or runs the callback of the read at the head of both queues with the whole block
  and leaves an empty buffer. For the refinement the reads pending are the
  requests owed while a console is attached and none otherwise (`PendingIs`,
  which needs `AnswerFitsState`); every step is then a step of the channel or
  none, among them the first one after Info, which must find nothing owed
  (`NothingOwedWhenAttached`).

- `ItemDeliveryProofs`: `InventoryIsPrefix`, `ReceivedIsForRom` and `TypeOK`, for every number of ROMs, items and messages, with or without
  restored memories, assuming `PromptRoom`; and `BufferFree`, assuming further
  that no memory is restored. `InventoryIsPrefix` says what was given to a save;
  to preserve it, the buffer of each memory must hold an item of that slot under
  its number (`MemoryIsForCart`), which needs the same of everything on the wire
  while a save is played (`WireIsForCart`), which needs it of the items the
  client keeps and of the ROM it believes in (`ReceivedIsForRom`,
  `BelievedRom`), which needs the session to be about one slot from the question
  to the last answer (`SessionIsForSlot`, `SessionFitsState`). This chain is the
  inductive invariant. `PromptRoom` is used in one place: when a game is found
  while a connect is open. `BufferFree` rests on the order of the wire (`Order`):
  a read is always last, and nothing but a read follows a start byte, so the
  answer to a read finds the wire empty.

- `SnesGameProofs`: with no assumption on console, player and room, `TypeOK`,
  `StatusMatchesGame`, `CachedIsReported` and `SnapshotComplete`; with
  `SlowReload` alone, `ReportedIsEarned` and `DeathlinkOfRom`, so also when memory
  passes for a save and rooms reject the ROM at any moment; with `SlowReload`,
  `QuietRoom` and without `GarbageJoins`, `ImplementsPhases`, the refinement of
  `GamePhases`. There are three inductive invariants, each on top of the last.
  `Inv` speaks of the client alone: which callbacks may be in the queue together
  (`Orderly`), what a valid buffer has seen, and that the cache and what the
  present client was told agree. `SlowInv` relates client and console while a save
  is followed that the client was not deceived into: the save is one of the ROM
  that Game believes in, and what a batch has read was earned in it. A save that is
  left makes this true trivially, and `SlowReload` lets the next one be loaded only
  when nothing of the old one is believed any more. `CalmInv` says that with the
  two other assumptions nothing is ever followed astray. They are separate because
  each must not depend on what the next one assumes.

- `AddressCacheProofs`: `ReadInPlace` and `ReadsAreDue`, for every set of
  locations in the bank. The invariant of the merging loop says that the visited
  addresses with a length are the reads wanted so far (`Tight`), that the others
  are inside of them (`Covered`), and that `prev` is the first of them
  (`AtPrev`): the last is what the loop of the code relies on without saying so.

- `SessionProofs`: `TypeOK`, `PromptIsDue` and `RoomKnowsGame`, for every set of
  ROMs and rooms, assuming `PromptRoom`. The invariant says that the open
  question of a room is the last one asked and, while a game runs, about that
  game (`RoomAsked`); that its answer hence makes the slot that of the game; and
  that death link is remembered only for a slot whose ROM wants it
  (`SlotServed`), which is why the constant tag of ConnectUpdate does no harm.

- `DeathLinkProofs`: `TypeOK`, `ReceivedNotToldBack`, `ToldOnce` and
  `KillsWhatWasReceived`, for every interval, window and time of dying that
  `ClockAssumption` admits; and `EchoNeverKills`, assuming `PromptEcho`. What is
  hard is that the client does not know whose death it sees: it compares a clock,
  restarted whenever it sees its own effect not yet cleared, with the window. The
  invariant `OnTime` bounds that clock along the life of an effect: behind the last
  look while the effect is waiting, behind the time of dying once it struck,
  behind `Dying` and the next look when the player lies dead. The bounds hold
  while the client looks, so `Attached` says that a client that follows an effect
  takes part in death link, and `Apart` that it may have left the game, in which case
  nothing is told. `EchoesKnown` (the message on its way is the one remembered,
  and the only one) carries `EchoNeverKills`, and is the part that fails without
  `PromptEcho`.

All are theorems of the specifications without fairness. The constants carry
only the assumptions named in the modules, which TLC evaluates in every run.

Every invariant, action property and refinement that a passing run checks is a
theorem. The theorems are about the actions and about every constant, so the
bounds of the runs (`MaxBatch`, `MaxWrites`, `MaxItems`, `MaxInbox`, …) are
parameters in them.

Queues have any length, and the induction theorems of the library take the
formula to be proved as a parameter, which none of the provers can instantiate.
The proofs use least elements instead: `MinOfNats` and `LastPosition` say that a
set of positions that has the first and, with each, the next, has the last. For
the same reason `Those` is a recursive function of the position and not
`SelectSeq`, whose definition in the library is a recursive function of the
sequence.

Only model-checked: the liveness properties (`Reconnects`, `IdleAgain`,
`RomChangeNoticed`, `LootIsReported`, `AllDelivered`, `OwnDeathTold`,
`DeathCarriedOut`, `ConnectsInAnyOrder`), since fairness speaks of `ENABLED`,
which the prover does not know.

## What is not modelled

- Chat, printed messages, the URI given on the command line, an empty service
  URI, exceptions of `send()`, the destructors: the objects live as long as the
  program. That `disconnect_ap()` destroys the client inside its own error
  callback (`main.cpp:214`) is a question of lifetimes in a library outside the
  tree.
- The data package: `ap_sync_queued` (`main.cpp:257`) and what apclientpp keeps.
  Location checks are handed to apclientpp, which queues them; whether they
  survive a lost socket is decided there.
- The lookup of an item id in the generated table (`soe.hpp:139`), and the tables
  themselves.
- Items for a won game: in FINISHED nothing is sent (`soe.hpp:112`). The model
  does the same; no property demands more, since the game is over.
- The page, the development server, the build, and the vendored libraries.
  apclientpp and wswrap are submodules outside the tree and appear as
  environment. asio, json, websocketpp and valijson are third-party code and make
  up nearly all lines of the tree: of the program's own C++ sources the models
  cover almost every function with state, and the rest is terminal input,
  printing and tables.

## Deviations that have no run

Met while modelling, in the models where they have state, and kept out of the
list of runs because no line of the repository promises otherwise or because they
are reachable only under an assumption dropped above:

- A death received while the game is RUNNING, in the batch that joins the save,
  is kept and kills on loading, although "don't participate in deathlink while
  not in-game" (`soe.hpp:198`).
- `connect_error_count` is reset by `/connect` only: in the browser the third
  error ends the session after days of being connected.
- `disconnect_ap()` does not end the password prompt, so that third error, which
  the handler counts on an open socket as well (`main.cpp:204-221`), may leave a
  prompt without a room: the next line, `/connect` too, is taken for a password
  and answered with "Connection lost!". `PromptIsDue` names it (`GaveUp`).
- A death that the client sees while no slot is connected is told to nobody
  (`main.cpp:384`), also later: `_dead` is set. `OwnDeathTold` asks for a slot that
  stays.
- Memory outside a save that reads as a death is told to the room, since the
  callback of the HP read does not ask whether the game is still played
  (`soe.hpp:166`), and loot read from garbage is reported when every look was
  deceived (`game.hpp:86-87`).
- If the player dies again before the echo of the last death is back, the echo
  kills: `deathtime` (`main.cpp:385`) remembers one message. `EchoNeverKills`
  assumes `PromptEcho`.
- A game that was left keeps seed and slot while STOPPED (`game.hpp:183`), and
  `room_info` asks for them (`main.cpp:224`): a slot may be connected, or its
  password asked, for a game that is gone. `PromptIsDue` and `RoomKnowsGame` allow
  for it.
- A RUNNING game refreshes the flags of its ROM without telling the room
  (`game.hpp:128`).
- `mapaddr()` gives `$7fxxxx` and `$7exxxx` one place. Nothing reads `$7f`.

## Plan

1. *Done:* all modules of the table above, their runs, and the proofs named.
2. `SnesGame` over `MemoryChannel` as an instance, so that the seam is checked by
   composition and not only by its shape.
3. Consequences across modules: what `SnesGame` and `ItemDelivery` take from the
   two abstract specifications, proved from those alone.
4. The password of a room in `ItemDelivery`, which now has rooms without one.
