------------------------------ MODULE DeathLink ------------------------------
(***************************************************************************)
(* Death link: a death of the player is told to the room, and a death in     *)
(* the room kills the player.  The second half of SoE::poll(), send_death()  *)
(* (src/src/games/soe/soe.hpp), and the handlers of main.cpp for deaths,     *)
(* bounces, slots and started games.                                        *)
(*                                                                         *)
(* Nothing tells the client why the player died: it must not take the death  *)
(* it caused itself for one to tell the room, nor the room's echo of its own *)
(* message for one to die of.  Against the first it keeps a clock, against    *)
(* the second the time of the last message.                                 *)
(*                                                                         *)
(* The phases of the game are those of GamePhases, taken by the callbacks of  *)
(* Game ("game" in pending); the reads of the item half are left out.  A      *)
(* read, and a write in its callback, reach the console in one step.         *)
(***************************************************************************)
EXTENDS Integers, Sequences

CONSTANTS
    Roms, Vanilla, Other, NoRom,    \* as in GamePhases
    DeathlinkRoms,  \* ROMs whose flags ask for death link
    PollInterval,   \* time between two looks at the player
    Window,         \* time after a received death in which deaths are not told
    Dying,          \* assumption: the effect kills within that time
    PromptEcho,     \* assumption: the echo of a death comes before the next death
    Times,          \* bound: the different times of messages to the room
    NoTime,         \* deathtime when no echo is expected
    Foreign,        \* the time of a message of another player
    MaxInbox        \* bound: deaths on their way from the room

ASSUME RomAssumption ==
    /\ {Vanilla, Other, NoRom} \cap Roms = {}
    /\ DeathlinkRoms \subseteq Roms

ASSUME ClockAssumption ==
    /\ {PollInterval, Window, Dying, MaxInbox} \subseteq Nat
    /\ PollInterval > 0
    /\ PollInterval + 1 + Dying <= Window

ASSUME TimeAssumption ==
    /\ PromptEcho \in BOOLEAN
    /\ NoTime # Foreign
    /\ {NoTime, Foreign} \cap Times = {}

VARIABLES
    gstate, rom,        \* _state, and _seed and _slot, of Game
    cart, playing,      \* console: the cartridge; a save is being played
    want, deathlink,    \* _wantDeathlink, _deathlink
    dead,               \* _dead
    deathQueued,        \* _deathQueued
    deathSent,          \* _deathSent
    sinceLink,          \* now() - _lastDeathlinkDeath, up to Window + 1
    sinceLook,          \* now() - _lastSent, up to PollInterval
    polled,             \* the client polled in this unit of time
    pending,            \* reads whose callbacks have yet to run, oldest first
    ap,                 \* the slot connected, or NoRom
    deathtime,          \* deathtime
    inbox,              \* deaths on their way from the room: the time of each
    blamed,             \* history: what the player had died of when the room was told,
                        \* until the next poll
    queuedFor,          \* history: what made the client queue a death
    boy, cause,         \* console: the player, and what the player dies of
    dyingFor,           \* console: time since the effect struck, up to Dying
    effect              \* console: who scheduled the effect that kills, if anyone

phaseVars   == <<gstate, rom, cart, playing>>
flagVars    == <<want, deathlink>>
linkVars    == <<dead, deathQueued, deathSent, queuedFor>>
clockVars   == <<sinceLink, sinceLook, polled>>
sessionVars == <<ap, deathtime, inbox, blamed>>
playerVars  == <<boy, cause, dyingFor>>
vars == <<phaseVars, flagVars, linkVars, clockVars, pending, sessionVars, playerVars, effect>>

Phases == INSTANCE GamePhases

-----------------------------------------------------------------------------

\* The clock of the machine is far beyond the 0 that the clocks of the code start with.
Init ==
    /\ Phases!Init
    /\ want = FALSE
    /\ deathlink = FALSE
    /\ dead = TRUE
    /\ deathQueued = FALSE
    /\ deathSent = FALSE
    /\ queuedFor = "nothing"
    /\ sinceLink = Window + 1
    /\ sinceLook = PollInterval
    /\ polled = FALSE
    /\ pending = <<>>
    /\ ap = NoRom
    /\ deathtime = NoTime
    /\ inbox = <<>>
    /\ blamed = "nothing"
    /\ boy = "alive"
    /\ cause = "nothing"
    /\ dyingFor = 0
    /\ effect = "none"

\* A new life.
Alive ==
    /\ boy' = "alive"
    /\ cause' = "nothing"
    /\ dyingFor' = 0

-----------------------------------------------------------------------------
(* SoE::poll()                                                              *)

\* An effect, and a death, that the client does not follow any more.
Astray(who) == IF who = "link" THEN "stray" ELSE who

\* The branch for a game that is not JOINED.
NoPart ==
    /\ dead' = TRUE
    /\ deathQueued' = FALSE
    /\ deathSent' = FALSE
    /\ queuedFor' = "nothing"
    /\ effect' = Astray(effect)
    /\ cause' = Astray(cause)

\* Variant: nothing is looked at before a death is received.
LooksWhenQueued ==
    IF deathlink /\ sinceLook = PollInterval /\ deathQueued THEN <<"hp", "effect">> ELSE <<>>

\* The reads of death link, asked for once in PollInterval.
Looks ==
    IF deathlink /\ sinceLook = PollInterval
    THEN IF deathQueued THEN <<"hp", "effect">> ELSE <<"hp">>
    ELSE <<>>

\* Game asks first, and once more in a callback, behind the reads of death link.
Poll ==
    /\ pending = <<>>
    /\ IF gstate = "JOINED"
       THEN /\ pending' = <<"game">> \o Looks \o <<"game">>
            /\ sinceLook' = sinceLook % PollInterval
            /\ UNCHANGED <<linkVars, effect, cause>>
       ELSE /\ pending' = <<"game">>
            /\ NoPart
            /\ UNCHANGED sinceLook
    /\ polled' = TRUE
    /\ blamed' = "nothing"
    /\ UNCHANGED <<phaseVars, flagVars, sinceLink, ap, deathtime, inbox, boy, dyingFor>>

Answers(read) ==
    /\ pending # <<>>
    /\ Head(pending) = read
    /\ pending' = Tail(pending)

\* Variant: the clock is not asked.
TellsAlways == TRUE

\* A death soon after a received one is not told.
Tells == sinceLink > Window

\* The death handler.  The room sends the message to everybody, the sender included.
\* Without a slot there may be no client of the room; if there is, it sends nothing.
Tell ==
    \/ /\ ap = NoRom
       /\ UNCHANGED <<deathtime, inbox>>
    \/ /\ deathtime' \in Times \ {deathtime}
       /\ \A i \in DOMAIN inbox : inbox[i] # deathtime'
       /\ IF ap = NoRom
          THEN UNCHANGED inbox
          ELSE /\ PromptEcho => \A i \in DOMAIN inbox : inbox[i] = Foreign
               /\ Len(inbox) < MaxInbox
               /\ inbox' = Append(inbox, deathtime')

\* What becomes of a death that the client saw: without a slot nobody hears of it.
Told == IF ap = NoRom THEN "untold" ELSE "told"

\* What is read as HP.  Memory outside a save may hold anything, zeroes after a reset.
HpReadings ==
    IF playing THEN {IF boy = "dead" THEN "dead" ELSE "alive"}
               ELSE {"alive", "dead", "zeroes"}

\* Variant: a death is not remembered.
DeadForgotten(hp) == hp # "alive" /\ dead

\* _dead, after the read.  Zeroes tell nothing.
Dead(hp) == hp = "dead" \/ (hp = "zeroes" /\ dead)

\* The callback of the HP read; whether the game is still played is not asked.
OnHp ==
    /\ Answers("hp")
    /\ \E hp \in HpReadings :
         /\ dead' = Dead(hp)
         /\ IF hp = "dead" /\ ~dead /\ Tells
            THEN /\ Tell
                 /\ blamed' = IF ap = NoRom THEN blamed ELSE IF playing THEN cause ELSE "garbage"
                 /\ cause' = IF playing THEN Told ELSE cause
            ELSE UNCHANGED <<deathtime, inbox, blamed, cause>>
    /\ UNCHANGED <<phaseVars, flagVars, deathQueued, deathSent, queuedFor, clockVars, ap,
                   boy, dyingFor, effect>>

\* Variant: the death stays queued.
EffectDoneOnce == deathSent' = FALSE /\ UNCHANGED <<deathQueued, queuedFor>>

\* Variant: the next death finds one sent.
EffectDoneKeepsSent == deathQueued' = FALSE /\ UNCHANGED deathSent /\ queuedFor' = "nothing"

\* The effect that was sent is not scheduled any more.
EffectDone ==
    /\ deathSent' = FALSE
    /\ deathQueued' = FALSE
    /\ queuedFor' = "nothing"

\* Variant: only the start of the effect is timed.
WaitUntimed == UNCHANGED sinceLink

\* The effect that was sent is still to come.
WaitForEffect == sinceLink' = 0

\* The callback of the read of the effect.  It may be the memory of another cartridge
\* unless a save is played.
OnEffect ==
    /\ Answers("effect")
    /\ \E scheduled \in IF playing THEN {effect # "none"} ELSE BOOLEAN :
         \/ /\ ~scheduled
            /\ deathSent
            /\ EffectDone
            /\ sinceLink' = 0
            /\ effect' = Astray(effect)
         \/ /\ ~scheduled
            /\ ~deathSent
            /\ deathSent' = TRUE
            /\ queuedFor' = "nothing"
            /\ effect' = IF cart \in Roms THEN "link" ELSE effect
            /\ sinceLink' = 0
            /\ UNCHANGED deathQueued
         \/ /\ scheduled
            /\ IF deathSent THEN WaitForEffect ELSE UNCHANGED sinceLink
            /\ UNCHANGED <<deathQueued, deathSent, queuedFor, effect>>
    /\ UNCHANGED <<phaseVars, flagVars, dead, sinceLook, polled, sessionVars, playerVars>>

-----------------------------------------------------------------------------
(* The phases of the game, with the handlers of main.cpp.                   *)

\* The handler of game_started: a game of another slot ends the session.
GameStarted ==
    /\ IF ap \in {NoRom, cart}
       THEN /\ Phases!Start
            /\ deathlink' = IF ap = cart THEN cart \in DeathlinkRoms ELSE deathlink
            /\ UNCHANGED <<ap, inbox>>
       ELSE /\ gstate = "STOPPED"
            /\ cart # Vanilla
            /\ Phases!Reset
            /\ ap' = NoRom
            /\ inbox' = <<>>
            /\ UNCHANGED deathlink
    /\ want' = (cart \in DeathlinkRoms)

\* A callback of Game.
OnGame ==
    /\ Answers("game")
    /\ \/ GameStarted
       \/ /\ Phases!Stop
          /\ want' = FALSE
          /\ UNCHANGED <<deathlink, ap, inbox>>
       \/ /\ Phases!Join \/ Phases!Leave \/ Phases!Finish \/ UNCHANGED phaseVars
          /\ UNCHANGED <<flagVars, ap, inbox>>
    /\ UNCHANGED <<linkVars, clockVars, deathtime, blamed, playerVars, effect>>

\* The link is lost: the callbacks never run.
LinkLost ==
    /\ Phases!Reset
    /\ pending' = <<>>
    /\ UNCHANGED <<flagVars, linkVars, clockVars, sessionVars, playerVars, effect>>

\* The cache is cleared: a won game is reported, and played, again.
Reopened ==
    /\ Phases!Reopen
    /\ UNCHANGED <<flagVars, linkVars, clockVars, pending, sessionVars, playerVars, effect>>

-----------------------------------------------------------------------------
(* The room.                                                                *)

\* A slot that was asked for is connected, whatever game runs by now.
SlotConnected ==
    /\ ap = NoRom
    /\ ap' \in Roms
    /\ deathlink' = want
    /\ UNCHANGED <<phaseVars, want, linkVars, clockVars, pending, deathtime, inbox, blamed,
                   playerVars, effect>>

SlotLost ==
    /\ ap # NoRom
    /\ ap' = NoRom
    /\ inbox' = <<>>
    /\ UNCHANGED <<phaseVars, flagVars, linkVars, clockVars, pending, deathtime, blamed,
                   playerVars, effect>>

\* Another player dies.
ForeignDeath ==
    /\ ap # NoRom
    /\ Len(inbox) + 1 < MaxInbox
    /\ inbox' = Append(inbox, Foreign)
    /\ UNCHANGED <<phaseVars, flagVars, linkVars, clockVars, pending, ap, deathtime, blamed,
                   playerVars, effect>>

\* send_death()
SendDeath ==
    IF deathlink
    THEN /\ deathQueued' = TRUE
         /\ queuedFor' = IF Head(inbox) = Foreign THEN "death" ELSE "echo"
    ELSE UNCHANGED <<deathQueued, queuedFor>>

\* Variant: the time is not remembered.
IsEchoNever == FALSE

\* The message is the echo of the last death told.
IsEcho == Head(inbox) = deathtime

\* The bounced handler
OnBounced ==
    /\ inbox # <<>>
    /\ inbox' = Tail(inbox)
    /\ IF want /\ IsEcho
       THEN deathtime' = NoTime
       ELSE UNCHANGED deathtime
    /\ IF want /\ ~IsEcho
       THEN SendDeath
       ELSE UNCHANGED <<deathQueued, queuedFor>>
    /\ UNCHANGED <<phaseVars, flagVars, dead, deathSent, clockVars, pending, ap, blamed,
                   playerVars, effect>>

-----------------------------------------------------------------------------
(* The player and the console.                                              *)

clientUnchanged ==
    UNCHANGED <<flagVars, linkVars, clockVars, pending, sessionVars>>

\* A save is loaded; the game may take back what was scheduled.
Load ==
    /\ Phases!Load
    /\ Alive
    /\ effect' \in {effect, "none"}
    /\ clientUnchanged

Leaves ==
    /\ \/ Phases!Quit /\ UNCHANGED effect
       \/ Phases!SwapCart /\ effect' \in {"none", "stray"}
    /\ Alive
    /\ clientUnchanged

Dies ==
    /\ playing
    /\ boy = "alive"
    /\ boy' = "dead"
    /\ cause' = "own"
    /\ UNCHANGED <<phaseVars, dyingFor, effect>>
    /\ clientUnchanged

\* The player is revived, or a save is loaded while one is played.
Revives ==
    /\ playing
    /\ boy # "alive"
    /\ Alive
    /\ UNCHANGED <<phaseVars, effect>>
    /\ clientUnchanged

\* The game runs the scheduled effect.
Strikes ==
    /\ playing
    /\ effect # "none"
    /\ effect' = "none"
    /\ IF boy = "alive"
       THEN boy' = "doomed" /\ cause' = effect /\ dyingFor' = 0
       ELSE UNCHANGED playerVars
    /\ UNCHANGED phaseVars
    /\ clientUnchanged

Falls ==
    /\ playing
    /\ boy = "doomed"
    /\ boy' = "dead"
    /\ UNCHANGED <<phaseVars, cause, dyingFor, effect>>
    /\ clientUnchanged

AtMost(n, max) == IF n > max THEN max ELSE n

\* Time passes.  The client polls in every unit of it, a look is answered within one, and
\* the effect kills within Dying.
Tick ==
    /\ polled
    /\ \A i \in DOMAIN pending : pending[i] = "game"
    /\ boy = "doomed" => dyingFor < Dying
    /\ sinceLink' = AtMost(sinceLink + 1, Window + 1)
    /\ sinceLook' = AtMost(sinceLook + 1, PollInterval)
    /\ polled' = FALSE
    /\ dyingFor' = IF boy = "doomed" THEN dyingFor + 1 ELSE dyingFor
    /\ UNCHANGED <<phaseVars, flagVars, linkVars, pending, sessionVars, boy, cause, effect>>

-----------------------------------------------------------------------------

Next ==
    \/ Poll \/ OnHp \/ OnEffect
    \/ OnGame \/ LinkLost \/ Reopened
    \/ SlotConnected \/ SlotLost \/ ForeignDeath \/ OnBounced
    \/ Load \/ Leaves \/ Dies \/ Revives \/ Strikes \/ Falls
    \/ Tick

Spec == Init /\ [][Next]_vars

\* The main loop polls for ever, reads are answered, time passes, and the game runs what is
\* scheduled, and ends it.
FairSpec ==
    /\ Spec
    /\ WF_vars(Poll) /\ WF_vars(OnHp) /\ WF_vars(OnEffect) /\ WF_vars(OnGame)
    /\ WF_vars(OnBounced) /\ WF_vars(Tick) /\ WF_vars(Strikes) /\ WF_vars(Falls)

-----------------------------------------------------------------------------
(* Properties.                                                              *)

\* The values of the fields of SoE, of the clocks, of the room and of the console.
TypeOK ==
    /\ {want, deathlink, dead, deathQueued, deathSent} \subseteq BOOLEAN
    /\ deathSent => deathQueued
    /\ sinceLink \in 0..(Window + 1)
    /\ sinceLook \in 0..PollInterval
    /\ polled \in BOOLEAN
    /\ pending \in Seq({"game", "hp", "effect"})
    /\ ap \in Roms \cup {NoRom}
    /\ deathtime \in Times \cup {NoTime}
    /\ inbox \in Seq(Times \cup {Foreign})
    /\ Len(inbox) <= MaxInbox
    /\ blamed \in {"nothing", "own", "link", "stray", "told", "untold", "garbage"}
    /\ queuedFor \in {"nothing", "death", "echo"}
    /\ boy \in {"alive", "doomed", "dead"}
    /\ cause \in {"nothing", "own", "link", "stray", "told", "untold"}
    /\ dyingFor \in 0..Dying
    /\ effect \in {"none", "link", "stray"}

\* A death that the client caused is not told to the room, or every client would kill
\* every other for ever: the window outlasts the effect and the looks at the player.
\* This is so as long as the client stays in the game until the effect is over.
ReceivedNotToldBack == blamed # "link"

\* One death of the player is told once, however often it is looked at, and whatever is read
\* while a save is left or loaded.  Garbage outside a save that reads as a death may be told
\* all the same (blamed is "garbage"): the property is about the deaths that happened.
ToldOnce == blamed # "told"

\* The client never dies of its own message: the echo of a death is recognised, if it comes
\* before the next death.
EchoNeverKills == queuedFor # "echo"

\* Whenever the client is about to kill, a death has come in since it killed last: one
\* death received does not kill twice.
KillsWhatWasReceived ==
    pending # <<>> /\ Head(pending) = "effect" /\ deathQueued /\ ~deathSent
        => queuedFor # "nothing"

\* A death of the player's own is told to the room of a slot that stays connected, unless
\* it comes too soon after a received one, or ends before the client looks.
OwnDeathTold ==
    /\ boy = "dead" /\ cause = "own"
    /\ gstate = "JOINED" /\ deathlink /\ ~dead /\ ap # NoRom
    ~> \/ cause \in {"told", "nothing"}
       \/ gstate # "JOINED" \/ ~deathlink \/ ap = NoRom \/ sinceLink <= Window

\* A queued death is carried out while the link is up and the save is played, and the client
\* is ready for the next one.
DeathCarriedOut ==
    deathQueued /\ gstate = "JOINED" /\ deathlink /\ playing
        ~> ~deathQueued \/ gstate # "JOINED" \/ ~deathlink \/ ~playing

=============================================================================
