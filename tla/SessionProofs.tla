---------------------------- MODULE SessionProofs ----------------------------
(***************************************************************************)
(* The session is about the game that runs, for every set of ROMs and rooms,  *)
(* with passwords, refusals, lost sockets and lost links, provided that a     *)
(* connect is answered before another game is found (PromptRoom).            *)
(*                                                                         *)
(* The open question of the room is the heart of the invariant: while one is  *)
(* open, it is the last one asked, and if a game runs it is about that game    *)
(* (RoomAsked).  So its answer makes the slot of the room that of the game    *)
(* (SlotServed).  That ConnectUpdate always asks for the tag is harmless,     *)
(* because death link is only ever remembered for a slot whose ROM wants it.  *)
(***************************************************************************)
EXTENDS Session, SequenceTheorems, TLAPS

\* A game that runs is known, and what it wants too; one that was left wants nothing.
GameKnown ==
    /\ gstate # "STOPPED" => rom # NoRom /\ (want <=> rom \in DeathlinkRoms)
    /\ gstate = "STOPPED" /\ rom # NoRom => ~want

\* Nothing is on its way to a room that is not there.
NothingAsked == apState \notin {"ROOM", "SLOT"} => asked = <<>>

\* The question open in a room is the last one asked, and that of the game.
Question(right, tag) ==
    /\ asked = <<Connect(slot, right, tag)>>
    /\ want => tag
    /\ Belongs(slot, server) /\ tag => slot \in DeathlinkRoms
    /\ gstate # "STOPPED" => rom = slot /\ tag = want

RoomAsked ==
    apState = "ROOM" =>
        asked = <<>> \/ \E right \in BOOLEAN, tag \in BOOLEAN : Question(right, tag)

\* The slot connected is that of the game, and is sent deaths if the game wants them, or
\* will be.
SlotServed ==
    apState = "SLOT" =>
        /\ asked \in Seq({Update(TRUE)})
        /\ asked # <<>> => deathlink /\ slot \in DeathlinkRoms
        /\ slot \in Roms /\ served.slot = slot
        /\ served.tag => slot \in DeathlinkRoms
        /\ deathlink => served.tag \/ asked # <<>>
        /\ gstate # "STOPPED" => rom = slot /\ deathlink = want

Inv == TypeOK /\ GameKnown /\ NothingAsked /\ RoomAsked /\ SlotServed /\ PromptIsDue

-----------------------------------------------------------------------------

\* The phases change, but the game still runs, or still does not, and is the same.
Unmoved ==
    /\ rom' = rom
    /\ gstate' = "STOPPED" <=> gstate = "STOPPED"
    /\ gstate' \in {"STOPPED", "RUNNING", "JOINED", "FINISHED"}
    /\ cart' \in Roms \cup {Vanilla, Other}
    /\ playing' \in BOOLEAN

LEMMA PhasesUnmoved ==
    ASSUME TypeOK,
           \/ Phases!Join \/ Phases!Leave \/ Phases!Finish \/ Phases!Reopen
           \/ Phases!Load \/ Phases!Quit \/ Phases!SwapCart
           \/ ClearCache
           \/ UNCHANGED phaseVars
    PROVE  Unmoved
<1>. USE DEF TypeOK, Unmoved
<1>1. CASE Phases!Join  BY <1>1 DEF Phases!Join
<1>2. CASE Phases!Leave  BY <1>2 DEF Phases!Leave, Phases!Playing
<1>3. CASE Phases!Finish  BY <1>3 DEF Phases!Finish
<1>4. CASE Phases!Reopen  BY <1>4 DEF Phases!Reopen
<1>5. CASE Phases!Load  BY <1>5 DEF Phases!Load
<1>6. CASE Phases!Quit  BY <1>6 DEF Phases!Quit
<1>7. CASE Phases!SwapCart  BY <1>7 DEF Phases!SwapCart
<1>8. CASE UNCHANGED phaseVars  BY <1>8 DEF phaseVars
<1>9. CASE ClearCache  BY <1>9, <1>4, <1>8 DEF ClearCache
<1>. QED  BY <1>1, <1>2, <1>3, <1>4, <1>5, <1>6, <1>7, <1>8, <1>9

LEMMA AskedType ==
    /\ <<>> \in Seq(Requests)
    /\ \A c \in Requests : <<c>> \in Seq(Requests) /\ Append(<<>>, c) = <<c>>
    /\ \A c \in Requests : Head(<<c>>) = c /\ Tail(<<c>>) = <<>> /\ <<c>> # <<>>
BY SMT

LEMMA ConstantFacts == NoRoom \notin Rooms /\ MaxErrors \in Nat /\ 0 \in 0..MaxErrors
BY RoomAssumption

LEMMA NotServedType == NotServed \in [slot : Roms \cup {NoRom}, tag : BOOLEAN]
BY DEF NotServed

LEMMA ConnectType ==
    ASSUME NEW r \in Roms \cup {NoRom, Other}, NEW right \in BOOLEAN, NEW tag \in BOOLEAN
    PROVE  /\ Connect(r, right, tag) \in Requests
           /\ Connect(r, right, tag).kind = "connect"
           /\ Connect(r, right, tag).slot = r
           /\ Connect(r, right, tag).right = right
           /\ Connect(r, right, tag).tag = tag
BY DEF Connect, Requests

LEMMA UpdateType ==
    /\ Update(TRUE) \in Requests
    /\ Update(TRUE).kind = "update"
    /\ Update(TRUE).tag = TRUE
BY DEF Update, Requests

-----------------------------------------------------------------------------

LEMMA InitInv == Init => Inv
<1>. SUFFICES ASSUME Init PROVE Inv
  OBVIOUS
<1>1. TypeOK
  BY ConstantFacts, NotServedType, AskedType DEF Init, TypeOK, Phases!Init
<1>2. GameKnown  BY DEF Init, GameKnown, Phases!Init
<1>. QED
  BY <1>1, <1>2 DEF Init, Inv, NothingAsked, RoomAsked, SlotServed, PromptIsDue

\* What does not touch the session keeps it.
LEMMA UnmovedInv ==
    ASSUME Inv, Unmoved,
           UNCHANGED <<flagVars, apState, server, slot, asked, served, awaiting>>,
           errors' \in 0..MaxErrors, errors' = errors \/ apState # "NONE", refused' \in BOOLEAN
    PROVE  Inv'
<1>a. /\ UNCHANGED <<want, deathlink, apState, server, slot, asked, served, awaiting>>
      /\ rom' = rom /\ (gstate' = "STOPPED" <=> gstate = "STOPPED")
  BY DEF flagVars, Unmoved
<1>1. TypeOK'  BY <1>a DEF Inv, TypeOK, Unmoved
<1>2. GameKnown'  BY <1>a DEF Inv, GameKnown
<1>3. NothingAsked'  BY <1>a DEF Inv, NothingAsked
<1>4. RoomAsked'  BY <1>a DEF Inv, RoomAsked, Question, Belongs
<1>5. SlotServed'  BY <1>a DEF Inv, SlotServed
<1>6. PromptIsDue'  BY <1>a DEF Inv, PromptIsDue, GaveUp, Belongs
<1>. QED  BY <1>1, <1>2, <1>3, <1>4, <1>5, <1>6 DEF Inv

\* Nor does what leaves the room, or has not reached it: the prompt ends, or the client
\* gave up.
LEMMA SilentInv ==
    ASSUME Inv, TypeOK', GameKnown',
           apState' \in {"NONE", "OFF", "SOCKET"}, asked' = <<>>, awaiting' => GaveUp'
    PROVE  Inv'
BY DEF Inv, NothingAsked, RoomAsked, SlotServed, PromptIsDue

-----------------------------------------------------------------------------
(* The commands.                                                            *)

LEMMA ConnectCommandInv == Inv /\ ConnectCommand => Inv'
<1>. SUFFICES ASSUME Inv, ConnectCommand PROVE Inv'
  OBVIOUS
<1>a. /\ apState' = "OFF" /\ server' \in Rooms /\ errors' = 0 /\ slot' = NoRom /\ asked' = <<>>
      /\ served' = NotServed /\ refused' = FALSE /\ awaiting' = FALSE
      /\ UNCHANGED <<want, deathlink>>
  BY DEF ConnectCommand, Silence, flagVars, Inv, TypeOK
<1>b. Unmoved  BY PhasesUnmoved DEF ConnectCommand, Inv
<1>1. TypeOK'  BY <1>a, <1>b, ConstantFacts, NotServedType, AskedType DEF Inv, TypeOK, Unmoved
<1>2. GameKnown'  BY <1>a, <1>b DEF Inv, GameKnown, Unmoved
<1>. QED  BY <1>1, <1>2, <1>a, SilentInv

LEMMA DisconnectCommandInv == Inv /\ DisconnectCommand => Inv'
<1>. SUFFICES ASSUME Inv, DisconnectCommand PROVE Inv'
  OBVIOUS
<1>a. /\ apState' = "NONE" /\ server' = NoRoom /\ slot' = NoRom /\ asked' = <<>>
      /\ served' = NotServed /\ refused' = FALSE /\ awaiting' = FALSE
      /\ UNCHANGED <<want, deathlink, errors, gstate, rom, cart, playing>>
  BY DEF DisconnectCommand, DisconnectAp, Silence, flagVars, phaseVars, Inv, TypeOK
<1>1. TypeOK'  BY <1>a, NotServedType, AskedType DEF Inv, TypeOK
<1>2. GameKnown'  BY <1>a DEF Inv, GameKnown
<1>. QED  BY <1>1, <1>2, <1>a, SilentInv

LEMMA SyncCommandInv == Inv /\ SyncCommand => Inv'
<1>. SUFFICES ASSUME Inv, SyncCommand PROVE Inv'
  OBVIOUS
<1>1. Unmoved  BY PhasesUnmoved DEF SyncCommand, Inv
<1>. QED
  BY <1>1, UnmovedInv DEF SyncCommand, Inv, TypeOK, socketVars, askVars, flagVars

\* A connect of the game that is known makes the question of the room.
LEMMA AskedQuestion ==
    ASSUME TypeOK', GameKnown', NEW right \in BOOLEAN,
           asked' = <<Connect(rom', right, want')>>, slot' = rom'
    PROVE  RoomAsked'
<1>1. PICK tag \in BOOLEAN : tag = want'  BY DEF TypeOK
<1>2. asked' = <<Connect(slot', right, tag)>>  BY <1>1
<1>3. Belongs(slot', server') /\ tag => slot' \in DeathlinkRoms
  BY <1>1, RomAssumption DEF Belongs, GameKnown
<1>4. /\ want' => tag
      /\ gstate' # "STOPPED" => rom' = slot' /\ tag = want'
  BY <1>1
<1>5. Question(right, tag)'  BY <1>2, <1>3, <1>4 DEF Question
<1>. QED  BY <1>5 DEF RoomAsked

LEMMA PasswordEnteredInv == Inv /\ PasswordEntered => Inv'
<1>. SUFFICES ASSUME Inv, PasswordEntered PROVE Inv'
  OBVIOUS
<1>c. /\ awaiting' = FALSE /\ apState \in {"ROOM", "NONE"} /\ asked = <<>>
       /\ UNCHANGED <<gstate, rom, cart, playing, want, deathlink, apState, server, errors, served>>
  BY DEF PasswordEntered, Inv, PromptIsDue, GaveUp, phaseVars, flagVars, socketVars
<1>0. CASE apState = "NONE"
  <2>a. UNCHANGED <<slot, asked, refused>>  BY <1>0 DEF PasswordEntered, askVars
  <2>1. TypeOK'  BY <1>0, <1>c, <2>a DEF Inv, TypeOK
  <2>2. GameKnown'  BY <1>c DEF Inv, GameKnown
  <2>. QED  BY <1>0, <1>c, <2>a, <2>1, <2>2, SilentInv
<1>. SUFFICES ASSUME apState = "ROOM" PROVE Inv'
  BY <1>0, <1>c
<1>a. /\ awaiting' = FALSE /\ apState = "ROOM" /\ asked = <<>>
      /\ UNCHANGED <<gstate, rom, cart, playing, want, deathlink, apState, server, errors, served>>
  BY <1>c
<1>1. PICK right \in BOOLEAN : ConnectSlot(right)
  BY <1>a DEF PasswordEntered
<1>b. asked' = <<Connect(rom', right, want')>> /\ slot' = rom' /\ refused' = FALSE
  BY <1>1, <1>a, ConnectType, AskedType DEF ConnectSlot, Inv, TypeOK
<1>2. asked' \in Seq(Requests)
  <2>1. Connect(rom', right, want') \in Requests  BY <1>a, ConnectType DEF Inv, TypeOK
  <2>. QED  BY <2>1, <1>b, AskedType
<1>3. TypeOK'  BY <1>a, <1>b, <1>2 DEF Inv, TypeOK
<1>4. GameKnown'  BY <1>a DEF Inv, GameKnown
<1>6. RoomAsked'  BY <1>3, <1>4, <1>b, AskedQuestion
<1>. QED
  BY <1>3, <1>4, <1>6, <1>a DEF Inv, NothingAsked, SlotServed, PromptIsDue

-----------------------------------------------------------------------------
(* The socket and the room.                                                 *)

LEMMA SocketInv == Inv /\ (SocketConnected \/ SocketDisconnected \/ SocketError) => Inv'
<1>. SUFFICES ASSUME Inv, SocketConnected \/ SocketDisconnected \/ SocketError PROVE Inv'
  OBVIOUS
<1>1. CASE SocketConnected
  <2>a. /\ apState' = "SOCKET" /\ awaiting' = FALSE /\ asked' = <<>> /\ apState = "OFF"
        /\ UNCHANGED <<want, deathlink, server, errors, slot, refused, served, asked>>
    BY <1>1 DEF SocketConnected, AbortPassword, flagVars, askVars, Inv, NothingAsked
  <2>b. Unmoved  BY <1>1, PhasesUnmoved DEF SocketConnected, Inv
  <2>1. TypeOK'  BY <2>a, <2>b DEF Inv, TypeOK, Unmoved
  <2>2. GameKnown'  BY <2>a, <2>b DEF Inv, GameKnown, Unmoved
  <2>. QED  BY <2>1, <2>2, <2>a, SilentInv
<1>2. CASE SocketDisconnected
  <2>a. /\ apState' = "OFF" /\ awaiting' = FALSE /\ asked' = <<>> /\ apState # "NONE"
        /\ served' = NotServed /\ refused' = FALSE
        /\ UNCHANGED <<want, deathlink, server, errors, slot, gstate, rom, cart, playing>>
    BY <1>2 DEF SocketDisconnected, AbortPassword, Silence, flagVars, phaseVars
  <2>1. TypeOK'  BY <2>a, NotServedType, AskedType DEF Inv, TypeOK
  <2>2. GameKnown'  BY <2>a DEF Inv, GameKnown
  <2>. QED  BY <2>1, <2>2, <2>a, SilentInv
<1>3. CASE SocketError
  <2>a. apState # "NONE" /\ UNCHANGED <<want, deathlink, gstate, rom, cart, playing, awaiting>>
    BY <1>3 DEF SocketError, flagVars, phaseVars
  <2>b. errors' \in 0..MaxErrors
    BY <1>3, RoomAssumption DEF SocketError, Inv, TypeOK
  \* It gives up, with the prompt open or not.
  <2>1. CASE Browser /\ errors' = MaxErrors /\ DisconnectAp
    <3>a. /\ apState' = "NONE" /\ server' = NoRoom /\ slot' = NoRom /\ asked' = <<>>
          /\ served' = NotServed /\ refused' = FALSE
      BY <2>1 DEF DisconnectAp, Silence
    <3>1. GaveUp'  BY <2>1, <3>a DEF GaveUp
    <3>2. TypeOK'  BY <2>a, <2>b, <3>a, NotServedType, AskedType DEF Inv, TypeOK
    <3>3. GameKnown'  BY <2>a DEF Inv, GameKnown
    <3>. QED  BY <3>a, <3>1, <3>2, <3>3, SilentInv
  <2>2. CASE UNCHANGED <<apState, server, askVars, served>>
    <3>1. Unmoved  BY <2>a DEF Unmoved, Inv, TypeOK
    <3>. QED  BY <2>a, <2>b, <2>2, <3>1, UnmovedInv DEF askVars, flagVars, Inv, TypeOK
  <2>. QED  BY <1>3, <2>1, <2>2 DEF SocketError
<1>. QED  BY <1>1, <1>2, <1>3

LEMMA ResetFacts ==
    ASSUME Phases!Reset
    PROVE  gstate' = "STOPPED" /\ rom' = NoRom /\ cart' = cart /\ playing' = playing
BY DEF Phases!Reset

\* A room asks for the slot of the game, or for the password.
LEMMA AskInv ==
    ASSUME TypeOK,
           gstate' \in {"STOPPED", "RUNNING", "JOINED", "FINISHED"},
           rom' \in Roms \cup {NoRom, Other}, cart' \in Roms \cup {Vanilla, Other},
           playing' \in BOOLEAN, want' \in BOOLEAN,
           UNCHANGED <<deathlink, server, errors, served>>,
           GameKnown', apState' = "ROOM", apState \in {"SOCKET", "ROOM"},
           asked = <<>>, awaiting => server \in Locked, AskForSlot, Belongs(rom', server)
    PROVE  Inv'
<1>1. CASE server \in Locked
  <2>a. awaiting' = TRUE /\ refused' = FALSE /\ slot' = slot /\ asked' = <<>>
    BY <1>1 DEF AskForSlot
  <2>1. TypeOK'  BY <2>a DEF TypeOK
  <2>2. PromptIsDue'  BY <2>a, <1>1 DEF PromptIsDue, Belongs
  <2>. QED  BY <2>1, <2>2, <2>a DEF Inv, NothingAsked, RoomAsked, SlotServed
<1>2. CASE server \notin Locked
  <2>a. /\ awaiting' = awaiting /\ asked' = <<Connect(rom', TRUE, want')>> /\ slot' = rom'
        /\ refused' = FALSE
    BY <1>2, ConnectType, AskedType DEF AskForSlot, ConnectSlot
  <2>1. asked' \in Seq(Requests)
    <3>1. Connect(rom', TRUE, want') \in Requests  BY ConnectType
    <3>. QED  BY <3>1, <2>a, AskedType
  <2>b. awaiting' = FALSE /\ slot' = rom' /\ refused' = FALSE
    BY <1>2, <2>a DEF TypeOK
  <2>2. TypeOK'  BY <2>b, <2>1 DEF TypeOK
  <2>4. RoomAsked'  BY <2>2, <2>a, AskedQuestion
  <2>. QED  BY <2>2, <2>4, <2>b DEF Inv, NothingAsked, SlotServed, PromptIsDue
<1>. QED  BY <1>1, <1>2

LEMMA RoomInfoInv == Inv /\ RoomInfo => Inv'
<1>. SUFFICES ASSUME Inv, RoomInfo PROVE Inv'
  OBVIOUS
<1>a. /\ apState = "SOCKET" /\ apState' = "ROOM" /\ asked = <<>> /\ awaiting = FALSE
      /\ UNCHANGED <<want, deathlink, server, errors, served>>
  BY DEF RoomInfo, flagVars, Inv, TypeOK, NothingAsked, PromptIsDue, GaveUp
<1>1. CASE rom = NoRom /\ UNCHANGED <<phaseVars, askVars, awaiting>>
  <2>a. UNCHANGED <<gstate, rom, cart, playing, slot, asked, refused, awaiting>>
    BY <1>1 DEF phaseVars, askVars
  <2>1. TypeOK'  BY <1>a, <2>a DEF Inv, TypeOK
  <2>2. GameKnown'  BY <1>a, <2>a DEF Inv, GameKnown
  <2>. QED
    BY <1>a, <2>a, <2>1, <2>2 DEF Inv, NothingAsked, RoomAsked, SlotServed, PromptIsDue
<1>2. CASE rom # NoRom /\ ~Belongs(rom, server) /\ Phases!Reset /\ StoppedHandler /\ UNCHANGED askVars
  <2>a. /\ gstate' = "STOPPED" /\ rom' = NoRom /\ awaiting' = FALSE
        /\ UNCHANGED <<cart, playing, slot, asked, refused>>
    BY <1>a, <1>2, ResetFacts DEF askVars, StoppedHandler, AbortPassword
  <2>1. TypeOK'  BY <1>a, <2>a DEF Inv, TypeOK
  <2>2. GameKnown'  BY <2>a DEF GameKnown
  <2>. QED
    BY <1>a, <2>a, <2>1, <2>2 DEF Inv, NothingAsked, RoomAsked, SlotServed, PromptIsDue
<1>3. CASE Belongs(rom, server) /\ UNCHANGED <<phaseVars, flagVars>> /\ AskForSlot
  <2>a. UNCHANGED <<gstate, rom, cart, playing>>  BY <1>3 DEF phaseVars
  <2>1. GameKnown'  BY <1>a, <2>a DEF Inv, GameKnown
  <2>2. /\ gstate' \in {"STOPPED", "RUNNING", "JOINED", "FINISHED"}
        /\ rom' \in Roms \cup {NoRom, Other} /\ cart' \in Roms \cup {Vanilla, Other}
        /\ playing' \in BOOLEAN /\ want' \in BOOLEAN /\ Belongs(rom', server)
        /\ awaiting => server \in Locked
    BY <1>a, <1>3, <2>a DEF Inv, TypeOK
  <2>. QED  BY <1>a, <1>3, <2>1, <2>2, AskInv DEF Inv
<1>. QED  BY <1>1, <1>2, <1>3 DEF RoomInfo

\* In a room, the head of what is asked is the question.
LEMMA QuestionHead ==
    ASSUME Inv, asked # <<>>, Head(asked).kind = "connect"
    PROVE  /\ apState = "ROOM"
           /\ \E right \in BOOLEAN, tag \in BOOLEAN :
                /\ Question(right, tag)
                /\ Tail(asked) = <<>>
                /\ Head(asked).slot = slot /\ Head(asked).right = right
                /\ Head(asked).tag = tag
<1>1. apState # "SLOT"
  <2>. SUFFICES ASSUME apState = "SLOT" PROVE FALSE
    OBVIOUS
  <2>1. asked \in Seq({Update(TRUE)})  BY DEF Inv, SlotServed
  <2>2. Head(asked) \in {Update(TRUE)}  BY <2>1, HeadTailProperties, Zenon
  <2>3. Head(asked) = Update(TRUE)  BY <2>2
  <2>. QED  BY <2>3, UpdateType
<1>2. apState = "ROOM"  BY <1>1 DEF Inv, NothingAsked
<1>3. PICK right \in BOOLEAN, tag \in BOOLEAN : Question(right, tag)
  BY <1>2 DEF Inv, RoomAsked
<1>4. asked = <<Connect(slot, right, tag)>>  BY <1>3 DEF Question
<1>5. slot \in Roms \cup {NoRom, Other}  BY DEF Inv, TypeOK
<1>6. Head(asked) = Connect(slot, right, tag) /\ Tail(asked) = <<>>
  BY <1>4, <1>5, ConnectType, AskedType
<1>7. Head(asked).slot = slot /\ Head(asked).right = right /\ Head(asked).tag = tag
  BY <1>5, <1>6, ConnectType
<1>. QED  BY <1>2, <1>3, <1>6, <1>7

LEMMA SlotConnectedInv == Inv /\ SlotConnected => Inv'
<1>. SUFFICES ASSUME Inv, SlotConnected PROVE Inv'
  OBVIOUS
<1>1. PICK right \in BOOLEAN, tag \in BOOLEAN :
        /\ Question(right, tag) /\ Tail(asked) = <<>>
        /\ Head(asked).slot = slot /\ Head(asked).tag = tag
  BY QuestionHead DEF SlotConnected
<1>a. /\ asked' = <<>> /\ apState' = "SLOT" /\ apState = "ROOM" /\ deathlink' = want
      /\ served' = [slot |-> slot, tag |-> tag]
      /\ Belongs(slot, server)
      /\ UNCHANGED <<gstate, rom, cart, playing, want, server, slot, errors, refused, awaiting>>
  BY <1>1, QuestionHead DEF SlotConnected, Connected, phaseVars
<1>b. awaiting' = FALSE
  BY <1>a DEF SlotConnected, Inv, PromptIsDue, TypeOK
<1>c. slot \in Roms /\ served'.slot = slot /\ served'.tag = tag
  BY <1>a DEF Belongs
<1>2. TypeOK'
  <2>1. served' \in [slot : Roms \cup {NoRom}, tag : BOOLEAN]  BY <1>a, <1>c
  <2>. QED  BY <2>1, <1>a, <1>b, AskedType DEF Inv, TypeOK
<1>3. GameKnown'  BY <1>a DEF Inv, GameKnown
<1>4. SlotServed'
  <2>1. asked' \in Seq({Update(TRUE)})  BY <1>a
  <2>2. tag => slot \in DeathlinkRoms  BY <1>1, <1>a DEF Question
  <2>3. want => tag  BY <1>1 DEF Question
  <2>4. gstate # "STOPPED" => rom = slot  BY <1>1 DEF Question
  <2>. QED  BY <1>a, <1>c, <2>1, <2>2, <2>3, <2>4 DEF SlotServed
<1>. QED  BY <1>2, <1>3, <1>4, <1>a, <1>b DEF Inv, NothingAsked, RoomAsked, PromptIsDue

LEMMA SlotRefusedInv == Inv /\ SlotRefused => Inv'
<1>. SUFFICES ASSUME Inv, SlotRefused PROVE Inv'
  OBVIOUS
<1>1. apState = "ROOM" /\ Tail(asked) = <<>>
  BY QuestionHead DEF SlotRefused
<1>a. /\ asked' = <<>> /\ refused' = TRUE /\ apState' = "ROOM" /\ awaiting = FALSE
      /\ UNCHANGED <<gstate, rom, cart, playing, want, deathlink, server, slot, errors, served, awaiting>>
  BY <1>1 DEF SlotRefused, phaseVars, flagVars, socketVars, Inv, PromptIsDue, TypeOK
<1>2. TypeOK'  BY <1>a, <1>1, AskedType DEF Inv, TypeOK
<1>3. GameKnown'  BY <1>a DEF Inv, GameKnown
<1>. QED
  BY <1>2, <1>3, <1>a DEF Inv, NothingAsked, RoomAsked, SlotServed, PromptIsDue

LEMMA TagUpdatedInv == Inv /\ TagUpdated => Inv'
<1>. SUFFICES ASSUME Inv, TagUpdated PROVE Inv'
  OBVIOUS
<1>1. apState = "SLOT"
  <2>1. apState # "ROOM"
    <3>. SUFFICES ASSUME apState = "ROOM" PROVE FALSE
      OBVIOUS
    <3>1. PICK right \in BOOLEAN, tag \in BOOLEAN : asked = <<Connect(slot, right, tag)>>
      BY DEF Inv, RoomAsked, Question, TagUpdated
    <3>2. slot \in Roms \cup {NoRom, Other}  BY DEF Inv, TypeOK
    <3>3. Head(asked).kind = "connect"  BY <3>1, <3>2, ConnectType, AskedType
    <3>. QED  BY <3>3 DEF TagUpdated
  <2>. QED  BY <2>1 DEF TagUpdated, Inv, NothingAsked
<1>2. asked \in Seq({Update(TRUE)}) /\ asked # <<>> /\ deathlink /\ slot \in DeathlinkRoms
  BY <1>1 DEF Inv, SlotServed, TagUpdated
<1>3. Head(asked) = Update(TRUE) /\ Tail(asked) \in Seq({Update(TRUE)})
  <2>1. Head(asked) \in {Update(TRUE)} /\ Tail(asked) \in Seq({Update(TRUE)})
    BY <1>2, HeadTailProperties, Zenon
  <2>. QED  BY <2>1
<1>4. Tail(asked) \in Seq(Requests)  BY <1>2 DEF Inv, TypeOK
<1>a. /\ asked' = Tail(asked) /\ served' = [served EXCEPT !.tag = TRUE]
      /\ UNCHANGED <<gstate, rom, cart, playing, want, deathlink, apState, server, errors, slot,
                    refused, awaiting>>
  BY <1>3, UpdateType DEF TagUpdated, phaseVars, flagVars, socketVars
<1>b. served' \in [slot : Roms \cup {NoRom}, tag : BOOLEAN] /\ served'.slot = served.slot /\ served'.tag
  BY <1>a DEF Inv, TypeOK
<1>5. TypeOK'  BY <1>a, <1>b, <1>4 DEF Inv, TypeOK
<1>6. GameKnown'  BY <1>a DEF Inv, GameKnown
<1>7. SlotServed'  BY <1>a, <1>b, <1>1, <1>2, <1>3 DEF Inv, SlotServed
<1>. QED
  BY <1>5, <1>6, <1>7, <1>a, <1>1 DEF Inv, NothingAsked, RoomAsked, PromptIsDue, GaveUp

-----------------------------------------------------------------------------
(* The game.                                                                *)

\* A game that is found is known.
LEMMA StartFacts ==
    ASSUME TypeOK, Phases!Start, want' = (cart \in DeathlinkRoms)
    PROVE  /\ gstate' = "RUNNING" /\ rom' = cart /\ rom' \in Roms \cup {Other}
           /\ UNCHANGED <<cart, playing>> /\ want' \in BOOLEAN
           /\ GameKnown'
<1>1. /\ gstate' = "RUNNING" /\ rom' = cart /\ cart # Vanilla /\ UNCHANGED <<cart, playing>>
  BY DEF Phases!Start
<1>2. cart \in Roms \cup {Other}  BY <1>1 DEF TypeOK
<1>3. cart # NoRom  BY <1>2, RomAssumption
<1>4. want' \in BOOLEAN  OBVIOUS
<1>5. GameKnown'  BY <1>1, <1>3 DEF GameKnown
<1>. QED  BY <1>1, <1>2, <1>4, <1>5

LEMMA GameStartedInv == PromptRoom /\ Inv /\ GameStarted => Inv'
<1>. SUFFICES ASSUME PromptRoom, Inv, GameStarted PROVE Inv'
  OBVIOUS
<1>a. /\ gstate = "STOPPED" /\ cart # Vanilla /\ ~Answering
      /\ want' = (cart \in DeathlinkRoms) /\ UNCHANGED <<server, errors>>
  BY DEF GameStarted
<1>b. TypeOK  BY DEF Inv
<1>1. CASE apState = "SLOT" /\ StartedInSlot
  <2>a. awaiting = FALSE  BY <1>1, <1>b DEF Inv, PromptIsDue, GaveUp, TypeOK
  <2>1. CASE cart # slot /\ Phases!Reset /\ apState' = "OFF" /\ slot' = NoRom /\ Silence
             /\ AbortPassword /\ UNCHANGED deathlink
    <3>a. /\ gstate' = "STOPPED" /\ rom' = NoRom /\ asked' = <<>> /\ served' = NotServed
          /\ refused' = FALSE /\ awaiting' = FALSE /\ apState' = "OFF" /\ slot' = NoRom
          /\ UNCHANGED <<cart, playing, deathlink, server, errors>> /\ want' \in BOOLEAN
      BY <1>a, <2>1, ResetFacts DEF Silence, AbortPassword
    <3>1. TypeOK'  BY <3>a, <1>b, <1>1, NotServedType, AskedType DEF TypeOK
    <3>2. GameKnown'  BY <3>a DEF GameKnown
    <3>. QED  BY <3>1, <3>2, <3>a, SilentInv
  <2>2. CASE /\ cart = slot /\ Phases!Start /\ UNCHANGED <<apState, slot, refused, awaiting, served>>
             /\ IF deathlink # want'
                THEN /\ deathlink' = want' /\ Len(asked) < MaxAsked
                     /\ asked' = Append(asked, Update(TRUE))
                ELSE UNCHANGED <<deathlink, asked>>
    <3>a. /\ gstate' = "RUNNING" /\ rom' = slot /\ rom' \in Roms \cup {Other} /\ GameKnown'
          /\ UNCHANGED <<cart, playing, apState, slot, refused, awaiting, served>>
          /\ want' \in BOOLEAN
      BY <1>a, <1>b, <2>2, StartFacts
    <3>b. /\ asked \in Seq({Update(TRUE)}) /\ asked \in Seq(Requests)
          /\ asked # <<>> => deathlink /\ slot \in DeathlinkRoms
          /\ slot \in Roms /\ served.slot = slot
          /\ served.tag => slot \in DeathlinkRoms
          /\ deathlink => served.tag \/ asked # <<>>
      BY <1>1, <1>b DEF Inv, SlotServed, TypeOK
    <3>c. want' = (slot \in DeathlinkRoms)  BY <1>a, <2>2
    <3>1. CASE deathlink # want'
      <4>1. deathlink = FALSE /\ want' = TRUE /\ deathlink' = TRUE /\ slot \in DeathlinkRoms
        BY <3>1, <3>a, <3>b, <3>c, <2>2, <1>b DEF TypeOK
      <4>2. asked' = Append(asked, Update(TRUE))  BY <2>2, <3>1
      <4>3. asked' \in Seq({Update(TRUE)}) /\ asked' # <<>>
        BY <4>2, <3>b, AppendProperties
      <4>4. asked' \in Seq(Requests)  BY <4>2, <3>b, UpdateType, AppendProperties
      <4>5. TypeOK'  BY <4>1, <4>4, <3>a, <1>a, <1>b DEF TypeOK
      <4>6. SlotServed'  BY <4>1, <4>3, <3>a, <3>b DEF SlotServed
      <4>. QED  BY <4>5, <4>6, <3>a, <2>a, <1>1 DEF Inv, NothingAsked, RoomAsked, PromptIsDue
    <3>2. CASE deathlink = want'
      <4>1. UNCHANGED <<deathlink, asked>>  BY <3>2, <2>2
      <4>5. TypeOK'  BY <4>1, <3>a, <1>a, <1>b DEF TypeOK
      <4>6. SlotServed'  BY <4>1, <3>2, <3>a, <3>b DEF SlotServed
      <4>. QED  BY <4>5, <4>6, <3>a, <2>a, <1>1 DEF Inv, NothingAsked, RoomAsked, PromptIsDue
    <3>. QED  BY <3>1, <3>2
  <2>. QED  BY <1>1, <2>1, <2>2 DEF StartedInSlot
<1>2. CASE apState = "ROOM" /\ StartedInRoom
  <2>a. asked = <<>>
    <3>. SUFFICES ASSUME asked # <<>> PROVE FALSE
      OBVIOUS
    <3>1. PICK right \in BOOLEAN, tag \in BOOLEAN : asked = <<Connect(slot, right, tag)>>
      BY <1>2 DEF Inv, RoomAsked, Question
    <3>2. slot \in Roms \cup {NoRom, Other}  BY <1>b DEF TypeOK
    <3>3. 1 \in DOMAIN asked /\ asked[1].kind = "connect"  BY <3>1, <3>2, ConnectType
    <3>. QED  BY <3>3, <1>a DEF Answering
  <2>b. UNCHANGED <<deathlink, apState, served>>  BY <1>2 DEF StartedInRoom
  <2>1. CASE Belongs(cart, server)
    <3>1. Phases!Start /\ AskForSlot  BY <2>1, <1>2 DEF StartedInRoom
    <3>2. /\ gstate' = "RUNNING" /\ rom' = cart /\ rom' \in Roms \cup {Other} /\ GameKnown'
          /\ UNCHANGED <<cart, playing>> /\ want' \in BOOLEAN
      BY <1>a, <1>b, <3>1, StartFacts
    <3>3. /\ gstate' \in {"STOPPED", "RUNNING", "JOINED", "FINISHED"}
          /\ rom' \in Roms \cup {NoRom, Other} /\ cart' \in Roms \cup {Vanilla, Other}
          /\ playing' \in BOOLEAN /\ Belongs(rom', server)
      BY <3>2, <2>1, <1>b DEF TypeOK
    <3>4. awaiting => server \in Locked  BY <1>2 DEF Inv, PromptIsDue, GaveUp
    <3>. QED  BY <1>a, <1>b, <1>2, <2>a, <2>b, <3>1, <3>2, <3>3, <3>4, AskInv
  <2>2. CASE ~Belongs(cart, server)
    <3>a. /\ gstate' = "STOPPED" /\ rom' = NoRom /\ awaiting' = FALSE /\ want' \in BOOLEAN
          /\ UNCHANGED <<cart, playing, slot, asked, refused>>
      BY <1>a, <1>2, <2>2, ResetFacts DEF StartedInRoom, AbortPassword, askVars
    <3>1. TypeOK'  BY <3>a, <2>b, <1>a, <1>b DEF TypeOK
    <3>2. GameKnown'  BY <3>a DEF GameKnown
    <3>. QED
      BY <3>a, <3>1, <3>2, <2>a, <2>b, <1>2 DEF Inv, NothingAsked, RoomAsked, SlotServed, PromptIsDue
  <2>. QED  BY <2>1, <2>2
<1>3. CASE apState \in {"NONE", "OFF", "SOCKET"} /\ StartedAlone
  <2>a. /\ gstate' = "RUNNING" /\ rom' = cart /\ rom' \in Roms \cup {Other} /\ GameKnown'
        /\ UNCHANGED <<cart, playing>> /\ want' \in BOOLEAN
    BY <1>a, <1>b, <1>3, StartFacts DEF StartedAlone
  <2>b. UNCHANGED <<deathlink, apState, slot, asked, refused, awaiting, served>>
    BY <1>3 DEF StartedAlone, askVars
  <2>c. asked = <<>> /\ (awaiting => GaveUp')
    BY <1>3, <1>a, <2>b DEF Inv, NothingAsked, PromptIsDue, GaveUp
  <2>1. TypeOK'  BY <2>a, <2>b, <1>a, <1>b DEF TypeOK
  <2>. QED  BY <2>1, <2>a, <2>b, <2>c, <1>3, SilentInv
<1>. QED  BY <1>1, <1>2, <1>3 DEF GameStarted

\* A game that is gone takes the prompt with it, and leaves the rest of the session.
LEMMA StoppedInv ==
    ASSUME Inv, gstate' = "STOPPED", rom' \in {rom, NoRom},
           want' \in {want, FALSE}, rom' # NoRom => ~want',
           awaiting' \in {awaiting, FALSE}, UNCHANGED <<cart, playing, deathlink, apState, server, errors,
           slot, asked, refused, served>>
    PROVE  Inv'
<1>1. TypeOK'
  <2>1. want' \in BOOLEAN /\ awaiting' \in BOOLEAN  BY DEF Inv, TypeOK
  <2>2. rom' \in Roms \cup {NoRom, Other}  BY DEF Inv, TypeOK
  <2>. QED  BY <2>1, <2>2 DEF Inv, TypeOK
<1>2. GameKnown'  BY DEF GameKnown
<1>3. NothingAsked'  BY DEF Inv, NothingAsked
<1>4. RoomAsked'
  <2>. SUFFICES ASSUME apState = "ROOM", asked # <<>> PROVE RoomAsked'
    BY DEF RoomAsked
  <2>1. PICK right \in BOOLEAN, tag \in BOOLEAN : Question(right, tag)
    BY DEF Inv, RoomAsked
  <2>2. Question(right, tag)'  BY <2>1, <1>1 DEF Question, Belongs, Inv, TypeOK
  <2>. QED  BY <2>2 DEF RoomAsked
<1>5. SlotServed'  BY DEF Inv, SlotServed
<1>6. PromptIsDue'  BY DEF Inv, PromptIsDue, GaveUp, TypeOK
<1>. QED  BY <1>1, <1>2, <1>3, <1>4, <1>5, <1>6 DEF Inv

LEMMA GameStoppedInv == Inv /\ GameStopped => Inv'
<1>. SUFFICES ASSUME Inv, GameStopped PROVE Inv'
  OBVIOUS
<1>1. gstate' = "STOPPED" /\ rom' \in {rom, NoRom} /\ UNCHANGED <<cart, playing>>
  BY ResetFacts DEF GameStopped, Phases!Stop
<1>2. /\ want' = FALSE /\ awaiting' = FALSE
      /\ UNCHANGED <<deathlink, apState, server, errors, slot, asked, refused, served>>
  BY DEF GameStopped, AbortPassword, socketVars, askVars
<1>. QED  BY <1>1, <1>2, StoppedInv

LEMMA LinkLostInv == Inv /\ LinkLost => Inv'
<1>. SUFFICES ASSUME Inv, LinkLost PROVE Inv'
  OBVIOUS
<1>1. gstate' = "STOPPED" /\ rom' = NoRom /\ UNCHANGED <<cart, playing>>
  BY ResetFacts DEF LinkLost
<1>2. /\ want' = want /\ awaiting' \in {awaiting, FALSE}
      /\ UNCHANGED <<deathlink, apState, server, errors, slot, asked, refused, served>>
  BY DEF LinkLost, StoppedHandler, AbortPassword, flagVars, socketVars, askVars
<1>. QED  BY <1>1, <1>2, StoppedInv

LEMMA MovesInv == Inv /\ (GameMoves \/ ConsoleMoves \/ UNCHANGED vars) => Inv'
<1>. SUFFICES ASSUME Inv, GameMoves \/ ConsoleMoves \/ UNCHANGED vars PROVE Inv'
  OBVIOUS
<1>1. Unmoved  BY PhasesUnmoved DEF GameMoves, ConsoleMoves, vars, Inv
<1>2. UNCHANGED <<flagVars, apState, server, slot, asked, served, awaiting, errors, refused>>
  BY DEF GameMoves, ConsoleMoves, vars, socketVars, askVars
<1>. QED  BY <1>1, <1>2, UnmovedInv DEF Inv, TypeOK

-----------------------------------------------------------------------------

LEMMA Invariance ==
    ASSUME PromptRoom
    PROVE  Spec => []Inv
<1>1. Inv /\ [Next]_vars => Inv'
  BY PromptRoom, ConnectCommandInv, DisconnectCommandInv, SyncCommandInv, PasswordEnteredInv,
     SocketInv, RoomInfoInv, SlotConnectedInv, SlotRefusedInv, TagUpdatedInv,
     GameStartedInv, GameStoppedInv, LinkLostInv, MovesInv
  DEF Next
<1>. QED  BY <1>1, InitInv, PTL DEF Spec

\* The fields, the messages and the room keep their types, for every number of ROMs, rooms
\* and errors.
THEOREM TypeCorrect ==
    ASSUME PromptRoom
    PROVE  Spec => []TypeOK
<1>1. Inv => TypeOK  BY DEF Inv
<1>. QED  BY <1>1, Invariance, PTL

\* What the user types is taken for a password only while a room that has one waits for
\* it, or after the client gave up while it asked.
THEOREM PromptCorrect ==
    ASSUME PromptRoom
    PROVE  Spec => []PromptIsDue
<1>1. Inv => PromptIsDue  BY DEF Inv
<1>. QED  BY <1>1, Invariance, PTL

\* The slot connected is that of the game, and gets the deaths of others exactly if the
\* game wants them.
THEOREM RoomCorrect ==
    ASSUME PromptRoom
    PROVE  Spec => []RoomKnowsGame
<1>1. Inv => RoomKnowsGame
  <2>. SUFFICES ASSUME Inv, apState = "SLOT", gstate # "STOPPED", asked = <<>>
                PROVE  served = [slot |-> rom, tag |-> rom \in DeathlinkRoms]
    BY DEF RoomKnowsGame
  <2>1. served \in [slot : Roms \cup {NoRom}, tag : BOOLEAN] /\ want \in BOOLEAN /\ deathlink \in BOOLEAN
    BY DEF Inv, TypeOK
  <2>2. served.slot = rom /\ (served.tag <=> rom \in DeathlinkRoms)
    BY <2>1 DEF Inv, SlotServed, GameKnown
  <2>3. served = [slot |-> served.slot, tag |-> served.tag]  BY <2>1
  <2>4. served.tag \in BOOLEAN  BY <2>1
  <2>5. served.tag = (rom \in DeathlinkRoms)  BY <2>2, <2>4
  <2>. QED  BY <2>2, <2>3, <2>5
<1>. QED  BY <1>1, Invariance, PTL

=============================================================================
