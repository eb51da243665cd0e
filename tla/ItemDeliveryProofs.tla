------------------------- MODULE ItemDeliveryProofs -------------------------
(***************************************************************************)
(* Proofs about ItemDelivery, for every set of ROMs and every bound: each    *)
(* save holds the first items of its own slot, once each and in order, and  *)
(* the client acts only on what belongs to the ROM it knows.                *)
(*                                                                         *)
(* InventoryIsPrefix says nothing of the buffer, of what is on its way to    *)
(* the console, of what the client keeps, or of what the room sends; each of *)
(* these has to be right for the next one to be, which is the invariant.    *)
(***************************************************************************)
EXTENDS ItemDelivery, TLAPS, SequenceTheorems

-----------------------------------------------------------------------------
(* The inductive invariant.                                                 *)

\* The messages of the room about slot r.
RoomMessages == [slot : Roms, from : 0..MaxItems, to : 0..MaxItems, connected : BOOLEAN]
About(r)     == {msg \in RoomMessages : msg.slot = r}

SessionTyped ==
    /\ apState \in {"OFF", "ROOM", "SLOT"}
    /\ {ap, served} \subseteq Roms \cup {NoRom}
    /\ asked \in Seq(Roms)
    /\ inbox \in Seq(RoomMessages)
    /\ syncAsked \in BOOLEAN

\* The session is about one slot from end to end: the one asked for is the one the room
\* serves and whose items are on their way, and that of the game that was found.
SessionIsForSlot ==
    /\ served \in {NoRom, ap}
    /\ asked \in Seq({ap})
    /\ inbox \in Seq(About(ap))
    /\ gstate # "STOPPED" => ap \in {NoRom, rom}

\* What each state of the session says of the room.
SessionFitsState ==
    /\ apState = "OFF" => asked = <<>> /\ inbox = <<>> /\ served = NoRom /\ ap = NoRom
    /\ apState = "ROOM" /\ ~Answering => inbox = <<>> /\ served = NoRom
    /\ apState = "SLOT" \/ inbox # <<>> => served \in Roms
    /\ syncAsked => apState = "SLOT"

\* The messages that may be on their way to a console where p tells whether a save is
\* played, and c the cartridge: an item is one of its slot, under its number.
Fitting(p, c) ==
    {w \in Messages :
        /\ p /\ w.kind = "item" => w.item = <<c, w.index>>
        /\ w.kind = "index" => w.index = 0}

WireIsForCart == wire \in Seq(Fitting(playing, cart))

\* The memory of slot r: what it was given, and what is in its buffer.
Belongs(r, m) ==
    /\ Prefix(r, m)
    /\ m.item \in {NoItem, <<r, m.index>>}

MemoryIsForCart ==
    /\ playing => Belongs(cart, mem)
    /\ \A r \in Roms : Belongs(r, saves[r])

\* While the client thinks that a save is played and one is, it is one of its ROM.
BelievedRom == Phases!Playing(gstate) /\ playing => cart = rom

Inv ==
    /\ TypeOK
    /\ BelievedRom
    /\ SessionIsForSlot
    /\ SessionFitsState
    /\ ReceivedIsForRom
    /\ WireIsForCart
    /\ MemoryIsForCart

-----------------------------------------------------------------------------
(* What a step leaves as it was.                                            *)

\* The game that was found is the one found before; the save played is the one played
\* before.
SameGame == gstate' # "STOPPED" => gstate # "STOPPED" /\ rom' = rom
SameSave == playing' => playing /\ cart' = cart

LEMMA SessionFrame ==
    ASSUME Inv, UNCHANGED sessionVars, SameGame
    PROVE  SessionIsForSlot' /\ SessionFitsState'
<1>1. Answering' <=> Answering
  BY DEF Answering, sessionVars
<1>. QED
  BY <1>1 DEF Inv, SessionIsForSlot, SessionFitsState, sessionVars, SameGame, About,
              RoomMessages

LEMMA ReceivedFrame ==
    ASSUME Inv, SameGame, UNCHANGED received
    PROVE  ReceivedIsForRom'
BY DEF Inv, ReceivedIsForRom, SameGame

LEMMA ReceivedNothing ==
    ASSUME ForgetItems
    PROVE  ReceivedIsForRom'
BY DEF ForgetItems, Nothing, ReceivedIsForRom

\* A console that plays no save, or the same one, may be sent what it could be sent before.
LEMMA WireFrame ==
    ASSUME Inv, SameSave, UNCHANGED wire
    PROVE  WireIsForCart'
<1>1. Fitting(playing, cart) \subseteq Fitting(playing', cart')
  BY DEF Fitting, SameSave, Inv, TypeOK
<1>2. wire' \in Seq(Fitting(playing, cart))
  BY DEF Inv, WireIsForCart
<1>3. wire' \in Seq(Fitting(playing', cart'))
  BY <1>1, <1>2, SeqMonotonic
<1>. QED  BY <1>3 DEF WireIsForCart, Fitting, Messages, Items

LEMMA MemoryFrame ==
    ASSUME Inv, SameSave, UNCHANGED consoleVars
    PROVE  MemoryIsForCart'
BY DEF Inv, SameSave, MemoryIsForCart, Belongs, Prefix, consoleVars

-----------------------------------------------------------------------------
(* The room.                                                                *)

\* clear_cache() forgets the items; the game stays the one it was.
LEMMA ClearCacheFacts ==
    ASSUME Inv, ClearCache
    PROVE  /\ received' = Nothing /\ BelievedRom'
           /\ SameGame /\ SameSave
           /\ UNCHANGED <<cart, playing, rom>>
BY DEF ClearCache, ForgetItems, Phases!Reopen, phaseVars, Inv, BelievedRom,
       Phases!Playing, SameGame, SameSave

\* A session that is gone is about any game.
LEMMA NoRoomFacts ==
    ASSUME NoRoom
    PROVE  SessionIsForSlot' /\ SessionFitsState' /\ SessionTyped'
<1>1. /\ <<>> \in Seq({ap'}) /\ <<>> \in Seq(About(ap'))
      /\ <<>> \in Seq(Roms) /\ <<>> \in Seq(RoomMessages)
  OBVIOUS
<1>2. SessionTyped'
  BY <1>1 DEF NoRoom, SessionTyped, RoomMessages
<1>3. SessionIsForSlot' /\ SessionFitsState'
  BY <1>1 DEF NoRoom, SessionIsForSlot, SessionFitsState, About, RoomMessages
<1>. QED  BY <1>2, <1>3

\* connect_slot(r) on a session without any other slot.
LEMMA AskSlotFacts ==
    ASSUME Inv, NEW r \in Roms, AskSlot(r), apState' = "ROOM",
           asked = <<>>, inbox = <<>>, served = NoRom, syncAsked = FALSE,
           UNCHANGED <<served, inbox, syncAsked>>,
           gstate' # "STOPPED" => rom' = r
    PROVE  /\ SessionIsForSlot' /\ SessionFitsState'
           /\ ap' \in Roms /\ asked' \in Seq(Roms)
<1>1. asked' = <<r>> /\ ap' = r
  BY DEF AskSlot
<1>2. inbox' \in Seq(About(r)) /\ <<r>> \in Seq({r}) /\ <<r>> \in Seq(Roms)
  BY DEF About
<1>3. SessionIsForSlot'
  BY <1>1, <1>2 DEF SessionIsForSlot, About, RoomMessages
<1>4. Answering'
  BY <1>1 DEF Answering
<1>. QED  BY <1>1, <1>2, <1>3, <1>4 DEF SessionFitsState

LEMMA RoomInfoInv == ASSUME Inv, RoomInfo PROVE Inv'
<1>1. /\ received' = Nothing /\ BelievedRom'
      /\ SameGame /\ SameSave
      /\ UNCHANGED <<cart, playing, rom>>
  BY ClearCacheFacts DEF RoomInfo
<1>2. /\ asked = <<>> /\ inbox = <<>> /\ served = NoRom /\ ap = NoRom /\ syncAsked = FALSE
  BY DEF RoomInfo, Inv, SessionFitsState, TypeOK
<1>3. /\ SessionIsForSlot' /\ SessionFitsState'
      /\ ap' \in Roms \cup {NoRom} /\ asked' \in Seq(Roms)
  <2>1. CASE rom \in Roms
    BY <1>1, <1>2, <2>1, AskSlotFacts DEF RoomInfo
  <2>2. CASE rom \notin Roms
    <3>1. UNCHANGED <<ap, asked, served, inbox, syncAsked>> /\ apState' = "ROOM"
      BY <2>2 DEF RoomInfo
    <3>. QED
      BY <1>1, <1>2, <3>1
      DEF Inv, TypeOK, SessionIsForSlot, SessionFitsState, About, RoomMessages, SameGame
  <2>. QED  BY <2>1, <2>2
<1>4. TypeOK'
  BY <1>1, <1>3 DEF Inv, TypeOK, RoomInfo, consoleVars, Nothing
<1>5. WireIsForCart' /\ MemoryIsForCart' /\ ReceivedIsForRom'
  BY <1>1, WireFrame, MemoryFrame, ReceivedNothing DEF RoomInfo, ForgetItems
<1>. QED  BY <1>1, <1>3, <1>4, <1>5 DEF Inv

LEMMA RoomRejectsInv == ASSUME Inv, RoomRejects PROVE Inv'
<1>1. /\ gstate' = "STOPPED" /\ UNCHANGED <<cart, playing>>
      /\ SameGame /\ SameSave /\ BelievedRom'
  BY DEF RoomRejects, Phases!Reset, SameGame, SameSave, BelievedRom, 
         Phases!Playing
<1>2. TypeOK'
  BY <1>1 DEF Inv, TypeOK, RoomRejects, ForgetItems, Nothing, consoleVars
<1>3. SessionIsForSlot' /\ SessionFitsState'
  BY <1>1 DEF Inv, TypeOK, RoomRejects, SessionIsForSlot, SessionFitsState, About,
              RoomMessages
<1>4. WireIsForCart' /\ MemoryIsForCart' /\ ReceivedIsForRom'
  BY <1>1, WireFrame, MemoryFrame, ReceivedNothing DEF RoomRejects
<1>. QED  BY <1>1, <1>2, <1>3, <1>4 DEF Inv

LEMMA ApLostInv == ASSUME Inv, ApLost PROVE Inv'
<1>1. SameGame /\ SameSave
  BY DEF ApLost, phaseVars, SameGame, SameSave
<1>2. TypeOK'
  BY NoRoomFacts DEF Inv, TypeOK, ApLost, SessionTyped, RoomMessages, clientVars, consoleVars
<1>3. BelievedRom'
  BY DEF Inv, ApLost, phaseVars, BelievedRom, Phases!Playing
<1>4. WireIsForCart' /\ MemoryIsForCart' /\ ReceivedIsForRom'
  BY <1>1, WireFrame, MemoryFrame, ReceivedFrame DEF ApLost, clientVars
<1>5. SessionIsForSlot' /\ SessionFitsState'
  BY NoRoomFacts DEF ApLost
<1>. QED  BY <1>2, <1>3, <1>4, <1>5 DEF Inv

LEMMA ConnectCommandInv == ASSUME Inv, ConnectCommand PROVE Inv'
<1>1. /\ received' = Nothing /\ BelievedRom' /\ SameGame /\ SameSave
  BY ClearCacheFacts DEF ConnectCommand
<1>2. TypeOK'
  BY <1>1, NoRoomFacts
  DEF Inv, TypeOK, ConnectCommand, SessionTyped, RoomMessages, Nothing, consoleVars
<1>3. WireIsForCart' /\ MemoryIsForCart' /\ ReceivedIsForRom'
  BY <1>1, WireFrame, MemoryFrame, ReceivedNothing DEF ConnectCommand, ForgetItems
<1>4. SessionIsForSlot' /\ SessionFitsState'
  BY NoRoomFacts DEF ConnectCommand
<1>. QED  BY <1>1, <1>2, <1>3, <1>4 DEF Inv

\* Asking for all items again changes no slot.
LEMMA SyncFacts ==
    ASSUME Inv, Sync, UNCHANGED <<apState, ap, asked, served, inbox>>, SameGame
    PROVE  SessionIsForSlot' /\ SessionFitsState' /\ syncAsked' \in BOOLEAN
<1>1. Answering' <=> Answering
  BY DEF Answering
<1>. QED
  BY <1>1 DEF Inv, TypeOK, Sync, SessionIsForSlot, SessionFitsState, SameGame, About,
              RoomMessages

LEMMA SyncCommandInv == ASSUME Inv, SyncCommand PROVE Inv'
<1>1. /\ received' = Nothing /\ BelievedRom' /\ SameGame /\ SameSave
  BY ClearCacheFacts DEF SyncCommand
<1>2. SessionIsForSlot' /\ SessionFitsState' /\ syncAsked' \in BOOLEAN
  BY <1>1, SyncFacts DEF SyncCommand
<1>3. TypeOK'
  BY <1>1, <1>2 DEF Inv, TypeOK, SyncCommand, Nothing, consoleVars
<1>4. WireIsForCart' /\ MemoryIsForCart' /\ ReceivedIsForRom'
  BY <1>1, WireFrame, MemoryFrame, ReceivedNothing DEF SyncCommand, ForgetItems
<1>. QED  BY <1>1, <1>2, <1>3, <1>4 DEF Inv

\* The answer of the room is about the one slot that was asked for.
LEMMA RoomConnectsInv == ASSUME Inv, RoomConnects PROVE Inv'
<1> DEFINE msg == Numbered(Head(asked), 0, count[Head(asked)], TRUE)
<1>1. Head(asked) = ap /\ ap \in Roms /\ Tail(asked) \in Seq({ap}) /\ Tail(asked) \in Seq(Roms)
  BY HeadTailProperties DEF Inv, TypeOK, SessionIsForSlot, RoomConnects
<1>2. msg \in RoomMessages /\ msg \in About(ap) /\ msg.connected = TRUE
  BY <1>1, ItemAssumption DEF Inv, TypeOK, Numbered, RoomMessages, About
<1>3. inbox \in Seq(RoomMessages) /\ inbox \in Seq(About(ap))
  BY DEF Inv, TypeOK, SessionIsForSlot, RoomMessages
<1> HIDE DEF msg
<1>4. inbox' = Append(inbox, msg) /\ asked' = Tail(asked)
      /\ UNCHANGED <<apState, ap, syncAsked>> /\ served' = ap
  BY <1>1 DEF RoomConnects, msg
<1>5. /\ inbox' \in Seq(RoomMessages) /\ inbox' \in Seq(About(ap))
      /\ \E i \in DOMAIN inbox' : inbox'[i].connected
  BY <1>2, <1>3, <1>4, AppendProperties, LenProperties
<1>6. SameGame /\ SameSave
  BY DEF RoomConnects, phaseVars, SameGame, SameSave
<1>7. TypeOK'
  BY <1>1, <1>4, <1>5 DEF Inv, TypeOK, RoomConnects, RoomMessages, clientVars, consoleVars
<1>8. SessionIsForSlot'
  BY <1>1, <1>4, <1>5, <1>6
  DEF Inv, SessionIsForSlot, SameGame, About, RoomMessages
<1>9. Answering'
  BY <1>5 DEF Answering
<1>10. SessionFitsState'
  <2>1. apState # "OFF" /\ (syncAsked => apState = "SLOT")
    BY DEF Inv, SessionFitsState, RoomConnects
  <2>. QED  BY <1>1, <1>4, <1>9, <2>1 DEF SessionFitsState
<1>11. BelievedRom'
  BY DEF Inv, RoomConnects, phaseVars, BelievedRom, Phases!Playing
<1>12. WireIsForCart' /\ MemoryIsForCart' /\ ReceivedIsForRom'
  BY <1>6, WireFrame, MemoryFrame, ReceivedFrame DEF RoomConnects, clientVars
<1>. QED  BY <1>7, <1>8, <1>10, <1>11, <1>12 DEF Inv

\* A message about the slot is added, or none.
LEMMA SendFacts ==
    ASSUME Inv, NEW msg \in About(ap), served \in Roms,
           inbox' \in {inbox, Append(inbox, msg)},
           UNCHANGED <<apState, ap, asked, served>>, syncAsked' => syncAsked, SameGame
    PROVE  SessionIsForSlot' /\ SessionFitsState' /\ inbox' \in Seq(RoomMessages)
<1>1. inbox \in Seq(RoomMessages) /\ inbox \in Seq(About(ap)) /\ msg \in RoomMessages
  BY DEF Inv, TypeOK, SessionIsForSlot, RoomMessages, About
<1>2. /\ inbox' \in Seq(RoomMessages) /\ inbox' \in Seq(About(ap))
      /\ inbox' # <<>> => inbox # <<>> \/ inbox' = Append(inbox, msg)
      /\ \A i \in DOMAIN inbox : i \in DOMAIN inbox' /\ inbox'[i] = inbox[i]
  BY <1>1, AppendProperties, LenProperties
<1>3. Answering => Answering'
  BY <1>2 DEF Answering
<1>4. served # NoRom
  BY ItemAssumption
<1>5. SessionIsForSlot'
  BY <1>2 DEF Inv, SessionIsForSlot, SameGame, About, RoomMessages
<1>6. SessionFitsState'
  BY <1>3, <1>4 DEF Inv, SessionFitsState
<1>. QED  BY <1>2, <1>5, <1>6

LEMMA NewItemInv == ASSUME Inv, NewItem PROVE Inv'
<1>1. PICK r \in Roms :
        /\ count[r] < MaxItems
        /\ count' = [count EXCEPT ![r] = @ + 1]
        /\ IF served = r
           THEN inbox' = Append(inbox, Numbered(r, count[r], count[r] + 1, FALSE))
           ELSE UNCHANGED inbox
        /\ UNCHANGED <<phaseVars, clientVars, wire, apState, ap, asked, served, syncAsked,
                       consoleVars>>
  BY DEF NewItem
<1>2. count[r] \in 0..MaxItems /\ count[r] + 1 \in 0..MaxItems
  BY <1>1, ItemAssumption DEF Inv, TypeOK
<1>3. count' \in [Roms -> 0..MaxItems]
  BY <1>1, <1>2 DEF Inv, TypeOK
<1>4. SameGame /\ SameSave
  BY <1>1 DEF phaseVars, SameGame, SameSave
<1>5. SessionIsForSlot' /\ SessionFitsState' /\ inbox' \in Seq(RoomMessages)
  <2>1. CASE served = r
    <3> DEFINE msg == Numbered(r, count[r], count[r] + 1, FALSE)
    <3>1. r = ap
      BY <2>1, ItemAssumption DEF Inv, SessionIsForSlot
    <3>2. msg \in About(ap)
      BY <1>2, <3>1 DEF Numbered, About, RoomMessages
    <3>3. inbox' = Append(inbox, msg)
      BY <1>1, <2>1
    <3> HIDE DEF msg
    <3>. QED  BY <1>1, <1>4, <2>1, <3>2, <3>3, SendFacts
  <2>2. CASE served # r
    <3>1. UNCHANGED sessionVars
      BY <1>1, <2>2 DEF sessionVars
    <3>. QED  BY <1>4, <3>1, SessionFrame DEF Inv, TypeOK, RoomMessages, sessionVars
  <2>. QED  BY <2>1, <2>2
<1>6. TypeOK'
  BY <1>1, <1>3, <1>5 DEF Inv, TypeOK, RoomMessages, clientVars, consoleVars
<1>7. BelievedRom'
  BY <1>1 DEF Inv, phaseVars, BelievedRom, Phases!Playing
<1>8. WireIsForCart' /\ MemoryIsForCart' /\ ReceivedIsForRom'
  BY <1>1, <1>4, WireFrame, MemoryFrame, ReceivedFrame DEF clientVars
<1>. QED  BY <1>5, <1>6, <1>7, <1>8 DEF Inv

LEMMA SyncReplyInv == ASSUME Inv, SyncReply PROVE Inv'
<1> DEFINE msg == Numbered(served, 0, count[served], FALSE)
<1>1. served \in Roms /\ served = ap
  BY ItemAssumption DEF Inv, SessionFitsState, SessionIsForSlot, SyncReply
<1>2. msg \in About(ap)
  BY <1>1, ItemAssumption DEF Inv, TypeOK, Numbered, About, RoomMessages
<1>3. SameGame /\ SameSave
  BY DEF SyncReply, phaseVars, SameGame, SameSave
<1>4. inbox' = Append(inbox, msg)
  BY DEF SyncReply
<1> HIDE DEF msg
<1>5. SessionIsForSlot' /\ SessionFitsState' /\ inbox' \in Seq(RoomMessages)
  BY <1>1, <1>2, <1>3, <1>4, SendFacts DEF SyncReply
<1>6. TypeOK'
  BY <1>5 DEF Inv, TypeOK, SyncReply, RoomMessages, clientVars, consoleVars
<1>7. BelievedRom'
  BY DEF SyncReply, Inv, phaseVars, BelievedRom, Phases!Playing
<1>8. WireIsForCart' /\ MemoryIsForCart' /\ ReceivedIsForRom'
  BY <1>3, WireFrame, MemoryFrame, ReceivedFrame DEF SyncReply, clientVars
<1>. QED  BY <1>5, <1>6, <1>7, <1>8 DEF Inv

\* Items are kept under their numbers, and are those of the slot of the session.
LEMMA OnItemsInv == ASSUME Inv, OnItems PROVE Inv'
<1> DEFINE msg == Head(inbox)
           new == msg.from..(msg.to - 1)
<1>1. /\ msg \in RoomMessages /\ msg.slot = ap /\ ap \in Roms
      /\ Tail(inbox) \in Seq(RoomMessages) /\ Tail(inbox) \in Seq(About(ap))
  <2>1. inbox \in Seq(RoomMessages) /\ inbox \in Seq(About(ap)) /\ inbox # <<>>
    BY DEF Inv, TypeOK, SessionIsForSlot, RoomMessages, OnItems
  <2>2. msg \in About(ap) /\ Tail(inbox) \in Seq(About(ap)) /\ Tail(inbox) \in Seq(RoomMessages)
    BY <2>1, HeadTailProperties
  <2>. QED  BY <2>2 DEF About, RoomMessages
<1>2. new \subseteq 0..(MaxItems - 1) /\ \A n \in new : n \in Nat
  BY <1>1, ItemAssumption DEF RoomMessages
<1>3. /\ DOMAIN received' = DOMAIN received \cup new
      /\ \A n \in DOMAIN received' :
            received'[n] = IF n \in new THEN <<ap, n>> ELSE received[n]
  BY <1>1 DEF OnItems, Kept
<1>4. SameGame /\ SameSave
  BY DEF OnItems, phaseVars, SameGame, SameSave
<1>5. inbox' = Tail(inbox) /\ UNCHANGED <<ap, asked, served, syncAsked>>
      /\ apState' = IF msg.connected THEN "SLOT" ELSE apState
  BY DEF OnItems
<1> HIDE DEF msg, new
<1>6. \A n \in new : <<ap, n>> \in Items
  BY <1>1, <1>2 DEF Items
<1>7. TypeOK'
  BY <1>1, <1>2, <1>3, <1>5, <1>6
  DEF Inv, TypeOK, OnItems, RoomMessages, consoleVars
<1>8. ReceivedIsForRom'
  BY <1>1, <1>3, <1>4, ItemAssumption
  DEF Inv, ReceivedIsForRom, SessionIsForSlot, SameGame
<1>9. SessionIsForSlot'
  BY <1>1, <1>4, <1>5 DEF Inv, SessionIsForSlot, SameGame, About, RoomMessages
<1>10. SessionFitsState'
  <2>1. inbox # <<>> /\ inbox \in Seq(RoomMessages)
    BY DEF OnItems, Inv, TypeOK, RoomMessages
  <2>2. Answering /\ ~msg.connected => Answering'
    <3>1. SUFFICES ASSUME ~msg.connected, NEW i \in DOMAIN inbox, inbox[i].connected
                   PROVE  \E j \in DOMAIN inbox' : inbox'[j].connected
      BY <1>5 DEF Answering
    <3>2. i # 1 /\ i \in 1..Len(inbox) /\ Len(inbox) \in Nat
      BY <2>1, <3>1, LenProperties DEF msg
    <3>3. i - 1 \in DOMAIN inbox' /\ inbox'[i - 1] = inbox[i]
      BY <1>5, <2>1, <3>2, HeadTailProperties, LenProperties
    <3>. QED  BY <3>1, <3>3
  <2>3. served \in Roms
    BY <2>1 DEF Inv, SessionFitsState
  <2>. QED  BY <1>5, <2>1, <2>2, <2>3 DEF Inv, SessionFitsState, TypeOK
<1>11. BelievedRom'
  BY DEF OnItems, Inv, phaseVars, BelievedRom, Phases!Playing
<1>12. WireIsForCart' /\ MemoryIsForCart'
  BY <1>4, WireFrame, MemoryFrame DEF OnItems
<1>. QED  BY <1>7, <1>8, <1>9, <1>10, <1>11, <1>12 DEF Inv

-----------------------------------------------------------------------------
(* The phases of the game.                                                  *)

\* A game is found: it is about the ROM that runs, and so is the session, or it is gone.
LEMMA GameStartedInv == ASSUME Inv, PromptRoom, GameStarted PROVE Inv'
<1>1. /\ UNCHANGED <<cart, playing>> /\ ~(gstate' \in {"JOINED", "FINISHED"})
      /\ gstate' # "STOPPED" => rom' = cart
  BY DEF GameStarted, StartedInRoom, StartedConnected, Phases!Start, Phases!Reset
<1>2. BelievedRom' /\ SameSave
  BY <1>1 DEF BelievedRom, Phases!Playing, SameSave
<1>3. SessionIsForSlot' /\ SessionFitsState' /\ SessionTyped'
  <2>1. CASE apState = "OFF"
    <3>1. UNCHANGED sessionVars /\ ap = NoRom
      BY <2>1 DEF GameStarted, Inv, SessionFitsState
    <3>2. Answering' <=> Answering
      BY <3>1 DEF Answering, sessionVars
    <3>. QED
      BY <3>1, <3>2 DEF Inv, TypeOK, SessionIsForSlot, SessionFitsState, SessionTyped, About,
                        RoomMessages, sessionVars
  <2>2. CASE apState = "ROOM"
    <3>1. /\ StartedInRoom
          /\ inbox = <<>> /\ served = NoRom /\ asked = <<>> /\ syncAsked = FALSE
      BY <2>2 DEF GameStarted, Inv, TypeOK, SessionFitsState, Answering
    <3>2. CASE cart \in Roms
      <4>1. SessionIsForSlot' /\ SessionFitsState' /\ ap' \in Roms /\ asked' \in Seq(Roms)
        BY <1>1, <2>2, <3>1, <3>2, AskSlotFacts DEF StartedInRoom
      <4>. QED
        BY <2>2, <3>1, <4>1 DEF StartedInRoom, Inv, TypeOK, SessionTyped, RoomMessages
    <3>3. CASE cart \notin Roms
      <4>1. UNCHANGED sessionVars /\ gstate' = "STOPPED"
        BY <3>1, <3>3 DEF StartedInRoom, sessionVars, Phases!Reset
      <4>. QED
        BY <4>1, SessionFrame
        DEF SameGame, Inv, TypeOK, SessionTyped, RoomMessages, sessionVars
    <3>. QED  BY <3>2, <3>3
  <2>3. CASE apState = "SLOT"
    <3>1. StartedConnected
      BY <2>3 DEF GameStarted
    <3>2. CASE ap = cart
      <4>1. UNCHANGED sessionVars /\ (gstate' # "STOPPED" => ap = rom')
        BY <1>1, <3>1, <3>2 DEF StartedConnected
      <4>2. Answering' <=> Answering
        BY <4>1 DEF Answering, sessionVars
      <4>. QED
        BY <4>1, <4>2 DEF Inv, TypeOK, SessionIsForSlot, SessionFitsState, SessionTyped, About,
                          RoomMessages, sessionVars
    <3>3. CASE ap # cart
      BY <3>1, <3>3, NoRoomFacts DEF StartedConnected
    <3>. QED  BY <3>2, <3>3
  <2>. QED  BY <2>1, <2>2, <2>3 DEF GameStarted
<1>4. TypeOK'
  BY <1>3
  DEF Inv, TypeOK, GameStarted, ForgetItems, Nothing, SessionTyped, RoomMessages, consoleVars
<1>5. WireIsForCart' /\ MemoryIsForCart' /\ ReceivedIsForRom'
  BY <1>2, WireFrame, MemoryFrame, ReceivedNothing DEF GameStarted
<1>. QED  BY <1>2, <1>3, <1>4, <1>5 DEF Inv

LEMMA GameJoinedInv == ASSUME Inv, GameJoined PROVE Inv'
<1>1. SameGame /\ SameSave /\ BelievedRom'
  BY DEF GameJoined, Phases!Join, SameGame, SameSave, BelievedRom
<1>2. SessionIsForSlot' /\ SessionFitsState' /\ syncAsked' \in BOOLEAN
  BY <1>1, SyncFacts DEF GameJoined, AskForItems
<1>3. TypeOK'
  BY <1>2 DEF Inv, TypeOK, GameJoined, clientVars, consoleVars
<1>4. WireIsForCart' /\ MemoryIsForCart' /\ ReceivedIsForRom'
  BY <1>1, WireFrame, MemoryFrame, ReceivedFrame DEF GameJoined, clientVars
<1>. QED  BY <1>1, <1>2, <1>3, <1>4 DEF Inv

LEMMA GameMovesInv == ASSUME Inv, GameMoves PROVE Inv'
<1>1. SameGame /\ SameSave /\ BelievedRom'
  BY DEF GameMoves, Phases!Stop, Phases!Leave, Phases!Finish, SameGame, SameSave, Inv,
         BelievedRom, Phases!Playing
<1>2. SessionIsForSlot' /\ SessionFitsState'
  BY <1>1, SessionFrame DEF GameMoves, roomVars
<1>3. TypeOK'
  BY DEF Inv, TypeOK, GameMoves, clientVars, roomVars, sessionVars, consoleVars
<1>4. WireIsForCart' /\ MemoryIsForCart' /\ ReceivedIsForRom'
  BY <1>1, WireFrame, MemoryFrame, ReceivedFrame DEF GameMoves, clientVars
<1>. QED  BY <1>1, <1>2, <1>3, <1>4 DEF Inv

LEMMA LinkLostInv == ASSUME Inv, LinkLost PROVE Inv'
<1>1. SameGame /\ SameSave /\ BelievedRom'
  BY DEF LinkLost, Phases!Reset, SameGame, SameSave, BelievedRom, 
         Phases!Playing
<1>2. SessionIsForSlot' /\ SessionFitsState'
  BY <1>1, SessionFrame DEF LinkLost, roomVars
<1>3. wire' \in Seq(Messages) /\ wire' \in Seq(Fitting(playing', cart'))
  BY EmptySeq DEF LinkLost
<1>4. TypeOK'
  BY <1>3
  DEF Inv, TypeOK, LinkLost, ForgetItems, Nothing, roomVars, sessionVars, consoleVars
<1>5. WireIsForCart'
  BY <1>3 DEF WireIsForCart, Fitting, Messages, Items
<1>6. MemoryIsForCart' /\ ReceivedIsForRom'
  BY <1>1, MemoryFrame, ReceivedNothing DEF LinkLost
<1>. QED  BY <1>1, <1>2, <1>4, <1>5, <1>6 DEF Inv

-----------------------------------------------------------------------------
(* The link and the console.                                                *)

LEMMA ForceInv == ASSUME Inv, ForceSend \/ ForceResend PROVE Inv'
<1>1. /\ UNCHANGED <<phaseVars, received, wire, roomVars, consoleVars>>
      /\ ignoreSendLock' \in BOOLEAN /\ ignoreSendIndex' \in BOOLEAN
  BY DEF ForceSend, ForceResend, Inv, TypeOK
<1>2. SameGame /\ SameSave /\ BelievedRom'
  BY <1>1 DEF phaseVars, SameGame, SameSave, Inv, BelievedRom, Phases!Playing
<1>3. SessionIsForSlot' /\ SessionFitsState'
  BY <1>1, <1>2, SessionFrame DEF roomVars
<1>4. TypeOK'
  BY <1>1 DEF Inv, TypeOK, roomVars, sessionVars, consoleVars
<1>5. WireIsForCart' /\ MemoryIsForCart' /\ ReceivedIsForRom'
  BY <1>1, <1>2, WireFrame, MemoryFrame, ReceivedFrame
<1>. QED  BY <1>2, <1>3, <1>4, <1>5 DEF Inv

\* A step that changes only what is on its way, and the two overrides.
LEMMA WireStep ==
    ASSUME Inv, UNCHANGED <<phaseVars, received, roomVars, consoleVars>>,
           wire' \in Seq(Fitting(playing, cart)),
           ignoreSendLock' \in BOOLEAN, ignoreSendIndex' \in BOOLEAN
    PROVE  Inv'
<1>1. SameGame /\ SameSave /\ BelievedRom'
  BY DEF phaseVars, SameGame, SameSave, Inv, BelievedRom, Phases!Playing
<1>2. Fitting(playing, cart) \subseteq Messages
  BY DEF Fitting
<1>3. wire' \in Seq(Messages)
  BY <1>2, SeqMonotonic
<1>4. TypeOK'
  BY <1>3 DEF Inv, TypeOK, roomVars, sessionVars, consoleVars
<1>5. WireIsForCart'
  BY DEF WireIsForCart, Fitting, Messages, Items, phaseVars
<1>6. SessionIsForSlot' /\ SessionFitsState' /\ MemoryIsForCart' /\ ReceivedIsForRom'
  BY <1>1, SessionFrame, MemoryFrame, ReceivedFrame DEF roomVars
<1>. QED  BY <1>1, <1>4, <1>5, <1>6 DEF Inv

\* Messages that are no items fit every console.
LEMMA FittingMessages ==
    ASSUME NEW p, NEW c
    PROVE  /\ ReadState \in Fitting(p, c) /\ WriteStart \in Fitting(p, c)
           /\ WriteIndex(0) \in Fitting(p, c)
           /\ \A n \in Nat, i \in Items :
                 (p => i = <<c, n>>) => WriteItem(n, i) \in Fitting(p, c)
<1>1. ReadState \in Messages /\ WriteStart \in Messages /\ WriteIndex(0) \in Messages
  BY DEF Messages, ReadState, WriteStart, WriteIndex
<1>2. \A n \in Nat, i \in Items : WriteItem(n, i) \in Messages
  BY DEF Messages, WriteItem
<1>. QED
  BY <1>1, <1>2 DEF Fitting, ReadState, WriteStart, WriteIndex, WriteItem

LEMMA PollInv == ASSUME Inv, Poll PROVE Inv'
<1>1. wire' \in Seq(Fitting(playing, cart))
  BY FittingMessages, AppendProperties DEF Poll, Inv, WireIsForCart
<1>. QED  BY <1>1, WireStep DEF Poll, clientVars, Inv, TypeOK

\* What is written for a save that is played is an item of the ROM that the client
\* believes in, which is the one that runs.
LEMMA OnStateInv == ASSUME Inv, OnState PROVE Inv'
<1> DEFINE S == Fitting(playing, cart)
<1>1. Tail(wire) \in Seq(S)
  BY HeadTailProperties DEF Inv, WireIsForCart, OnState
<1>2. PICK seen \in Readings :
        LET n == IF ignoreSendIndex THEN 0 ELSE seen.expected
        IN  IF gstate = "JOINED" /\ MaySend(seen, n)
            THEN /\ wire' = Tail(wire)
                              \o (IF ignoreSendIndex THEN <<WriteIndex(0)>> ELSE <<>>)
                              \o <<WriteItem(n, ItemAt(n)), WriteStart>>
                 /\ ignoreSendLock' = FALSE
                 /\ ignoreSendIndex' = FALSE
            ELSE /\ wire' = Tail(wire)
                 /\ UNCHANGED <<ignoreSendLock, ignoreSendIndex>>
  BY DEF OnState
<1> DEFINE n == IF ignoreSendIndex THEN 0 ELSE seen.expected
<1>3. wire' \in Seq(S) /\ ignoreSendLock' \in BOOLEAN /\ ignoreSendIndex' \in BOOLEAN
  <2>1. CASE gstate = "JOINED" /\ MaySend(seen, n)
    <3> DEFINE override == IF ignoreSendIndex THEN <<WriteIndex(0)>> ELSE <<>>
               item     == WriteItem(n, ItemAt(n))
    <3>1. n \in DOMAIN received /\ n \in Nat
      BY <2>1, ItemAssumption DEF MaySend, Inv, TypeOK
    <3>2. /\ ItemAt(n) \in Items /\ ItemAt(n) = <<rom, n>>
          /\ playing => ItemAt(n) = <<cart, n>>
      BY <2>1, <3>1
      DEF ItemAt, Inv, TypeOK, ReceivedIsForRom, BelievedRom, Phases!Playing
    <3>3. item \in S /\ WriteStart \in S /\ WriteIndex(0) \in S
      BY <3>1, <3>2, FittingMessages
    <3>4. wire' = Tail(wire) \o override \o <<item, WriteStart>>
          /\ ignoreSendLock' = FALSE /\ ignoreSendIndex' = FALSE
      BY <1>2, <2>1
    <3> HIDE DEF S, item, n
    <3>5. override \in Seq(S) /\ <<item, WriteStart>> \in Seq(S)
      BY <3>3
    <3> HIDE DEF override
    <3>6. Tail(wire) \o override \in Seq(S)
      BY <1>1, <3>5, ConcatProperties
    <3>. QED  BY <3>4, <3>5, <3>6, ConcatProperties
  <2>2. CASE ~(gstate = "JOINED" /\ MaySend(seen, n))
    BY <1>1, <1>2, <2>2 DEF Inv, TypeOK
  <2>. QED  BY <2>1, <2>2
<1>4. UNCHANGED <<phaseVars, received, roomVars, consoleVars>>
  BY DEF OnState
<1>. QED  BY <1>3, <1>4, WireStep

\* A step that changes only the console, to memories that belong.
LEMMA ConsoleStep ==
    ASSUME Inv, UNCHANGED <<gstate, rom, cart, clientVars, roomVars>>,
           BelievedRom', WireIsForCart', wire' \in Seq(Messages),
           mem' \in Memories, saves' \in [Roms -> Memories],
           MemoryIsForCart'
    PROVE  Inv'
<1>1. SameGame
  BY DEF SameGame
<1>2. TypeOK'
  BY DEF Inv, TypeOK, clientVars, roomVars, sessionVars
<1>3. SessionIsForSlot' /\ SessionFitsState' /\ ReceivedIsForRom'
  BY <1>1, SessionFrame, ReceivedFrame DEF clientVars, roomVars
<1>. QED  BY <1>2, <1>3 DEF Inv

\* Nothing was given before the first item.
LEMMA NothingGiven ==
    ASSUME NEW r
    PROVE  <<>> \in Seq(Items) /\ <<>> = [n \in 1..0 |-> <<r, n - 1>>]
<1>1. 1..0 = {}
  OBVIOUS
<1>2. <<>> \in Seq(Items) /\ <<>> \in [1..0 -> Items]
  BY EmptySeq, LenProperties
<1>. QED  BY <1>1, <1>2

LEMMA WriteArrivesInv == ASSUME Inv, WriteArrives PROVE Inv'
<1> DEFINE w == Head(wire)
<1>1. w \in Fitting(playing, cart) /\ Tail(wire) \in Seq(Fitting(playing, cart))
  BY HeadTailProperties DEF Inv, WireIsForCart, WriteArrives
<1>2. /\ wire' = Tail(wire) /\ w # ReadState
      /\ mem' = IF playing THEN Written(mem, w) ELSE mem
      /\ UNCHANGED <<phaseVars, clientVars, roomVars, saves>>
  BY DEF WriteArrives
<1> HIDE DEF w
<1>3. /\ w \in Messages
      /\ playing /\ w.kind = "item" => w.item = <<cart, w.index>>
      /\ w.kind = "index" => w.index = 0
  BY <1>1 DEF Fitting
<1>4. \/ w.kind = "index" /\ w.index = 0
      \/ w.kind = "item" /\ w.index \in Nat /\ w.item \in Items
      \/ w.kind = "start"
  BY <1>2, <1>3 DEF Messages, ReadState, WriteStart
<1>5. playing => Written(mem, w) \in Memories /\ Belongs(cart, Written(mem, w))
  <2>1. mem \in Memories /\ (playing => Belongs(cart, mem))
    BY DEF Inv, TypeOK, MemoryIsForCart
  <2>2. CASE w.kind = "index" /\ w.index = 0
    <3>1. Written(mem, w) = [mem EXCEPT !.expected = 0, !.given = <<>>]
      BY <2>2 DEF Written
    <3> DEFINE m == Written(mem, w)
    <3>2. /\ m.expected = 0 /\ m.given = <<>>
          /\ m.index = mem.index /\ m.item = mem.item /\ m \in Memories
      <4>1. mem = [expected |-> mem.expected, given |-> mem.given, index |-> mem.index,
                   item |-> mem.item, start |-> mem.start]
        BY <2>1 DEF Memories
      <4>2. m = [expected |-> 0, given |-> <<>>, index |-> mem.index, item |-> mem.item,
                 start |-> mem.start]
        BY <3>1, <4>1
      <4>3. <<>> \in Seq(Items)
        BY NothingGiven
      <4> HIDE DEF m
      <4>. QED  BY <2>1, <4>2, <4>3 DEF Memories
    <3> HIDE DEF m
    <3>3. ASSUME playing PROVE Belongs(cart, m)
      <4>1. m.given = [n \in 1..m.expected |-> <<cart, n - 1>>]
        BY <3>2, NothingGiven
      <4>. QED  BY <2>1, <3>2, <3>3, <4>1 DEF Belongs, Prefix
    <3>. QED  BY <3>2, <3>3 DEF m
  <2>3. CASE w.kind = "item" /\ w.index \in Nat /\ w.item \in Items
    <3>1. Written(mem, w) = [mem EXCEPT !.index = w.index, !.item = w.item]
      BY <2>3 DEF Written
    <3>. QED  BY <1>3, <2>1, <2>3, <3>1 DEF Memories, Belongs, Prefix
  <2>4. CASE w.kind = "start"
    <3>1. Written(mem, w) = [mem EXCEPT !.start = TRUE]
      BY <2>4 DEF Written
    <3>. QED  BY <2>1, <3>1 DEF Memories, Belongs, Prefix
  <2>. QED  BY <1>4, <2>2, <2>3, <2>4
<1>6. Fitting(playing, cart) \subseteq Messages
  BY DEF Fitting
<1>7. wire' \in Seq(Messages)
  BY <1>1, <1>2, <1>6, SeqMonotonic
<1>8. WireIsForCart'
  BY <1>1, <1>2 DEF WireIsForCart, Fitting, Messages, Items, phaseVars
<1>9. mem' \in Memories /\ MemoryIsForCart'
  BY <1>2, <1>5 DEF Inv, TypeOK, MemoryIsForCart, Belongs, Prefix, phaseVars
<1>10. BelievedRom' /\ UNCHANGED <<gstate, rom, cart>>
  BY <1>2 DEF Inv, BelievedRom, Phases!Playing, phaseVars
<1>. QED  BY <1>2, <1>7, <1>8, <1>9, <1>10, ConsoleStep DEF Inv, TypeOK

\* An item is taken only under the number that is expected, so the prefix grows by one.
LEMMA TakeInv == ASSUME Inv, Take PROVE Inv'
<1>1. /\ mem \in Memories /\ Prefix(cart, mem) /\ mem.item \in Items
      /\ mem.item = <<cart, mem.expected>>
  BY DEF Take, Inv, TypeOK, MemoryIsForCart, Belongs, Memories
<1>2. /\ mem' = [mem EXCEPT !.expected = mem.expected + 1,
                            !.given = Append(mem.given, mem.item),
                            !.item = NoItem, !.start = FALSE]
      /\ UNCHANGED <<phaseVars, clientVars, wire, roomVars, saves>>
  BY DEF Take
<1>3. /\ mem' \in Memories /\ mem'.expected = mem.expected + 1 /\ mem'.item = NoItem
      /\ mem'.given = Append(mem.given, mem.item)
  <2>1. Append(mem.given, mem.item) \in Seq(Items)
    BY <1>1, AppendProperties DEF Memories
  <2>2. /\ mem.expected + 1 \in Nat /\ mem.index \in Nat
        /\ mem = [expected |-> mem.expected, given |-> mem.given, index |-> mem.index,
                  item |-> mem.item, start |-> mem.start]
    BY <1>1 DEF Memories
  <2>3. mem' = [expected |-> mem.expected + 1, given |-> Append(mem.given, mem.item),
                index |-> mem.index, item |-> NoItem, start |-> FALSE]
    BY <1>2, <2>2
  <2>. QED  BY <2>1, <2>2, <2>3 DEF Memories
<1>4. Append(mem.given, mem.item) = [n \in 1..(mem.expected + 1) |-> <<cart, n - 1>>]
  <2> DEFINE e == mem.expected
             longer == [n \in 1..(e + 1) |-> <<cart, n - 1>>]
  <2>1. e \in Nat /\ mem.given \in Seq(Items) /\ mem.given = [n \in 1..e |-> <<cart, n - 1>>]
    BY <1>1 DEF Memories, Prefix
  <2>2. Len(mem.given) = e
    BY <2>1, LenProperties
  <2>3. /\ Append(mem.given, mem.item) \in Seq(Items)
        /\ Len(Append(mem.given, mem.item)) = e + 1
        /\ \A i \in 1..e : Append(mem.given, mem.item)[i] = <<cart, i - 1>>
        /\ Append(mem.given, mem.item)[e + 1] = <<cart, (e + 1) - 1>>
    BY <1>1, <2>1, <2>2, AppendProperties
  <2>4. Append(mem.given, mem.item) \in [1..(e + 1) -> Items]
    BY <2>3, LenProperties
  <2> DEFINE given == Append(mem.given, mem.item)
  <2> HIDE DEF given, e
  <2>5. ASSUME NEW i \in 1..(e + 1) PROVE given[i] = <<cart, i - 1>>
    <3>1. i \in 1..e \/ i = e + 1
      BY <2>1
    <3>. QED  BY <2>3, <3>1 DEF given
  <2>6. given \in [1..(e + 1) -> Items]
    BY <2>4 DEF given
  <2>7. given = longer
    BY <2>5, <2>6
  <2>. QED  BY <2>7 DEF given, e
<1>5. Belongs(cart, mem')
  BY <1>3, <1>4 DEF Belongs, Prefix
<1>6. SameSave /\ BelievedRom' /\ UNCHANGED <<gstate, rom, cart>>
  BY <1>2 DEF SameSave, phaseVars, Inv, BelievedRom, Phases!Playing
<1>7. MemoryIsForCart'
  BY <1>2, <1>5, <1>6 DEF Inv, MemoryIsForCart, Belongs, Prefix
<1>8. WireIsForCart'
  BY <1>2, <1>6, WireFrame
<1>. QED  BY <1>2, <1>3, <1>6, <1>7, <1>8, ConsoleStep DEF Inv, TypeOK

LEMMA DiscardInv == ASSUME Inv, Discard PROVE Inv'
<1>1. PICK i \in {mem.item, NoItem} : mem' = [mem EXCEPT !.item = i, !.start = FALSE]
  BY DEF Discard
<1>2. playing /\ UNCHANGED <<phaseVars, clientVars, wire, roomVars, saves>>
  BY DEF Discard
<1>3. SameSave /\ BelievedRom' /\ UNCHANGED <<gstate, rom, cart>>
  BY <1>2 DEF SameSave, phaseVars, Inv, BelievedRom, Phases!Playing
<1>4. mem' \in Memories /\ Belongs(cart, mem')
  BY <1>1, <1>2 DEF Inv, TypeOK, MemoryIsForCart, Memories, Belongs, Prefix
<1>5. MemoryIsForCart'
  BY <1>2, <1>3, <1>4 DEF Inv, MemoryIsForCart, Belongs, Prefix
<1>6. WireIsForCart'
  BY <1>2, <1>3, WireFrame
<1>. QED  BY <1>2, <1>3, <1>4, <1>5, <1>6, ConsoleStep DEF Inv, TypeOK

\* What a save or the whole memory held, with an empty buffer or not, still belongs.
LEMMA LoadableBelongs ==
    ASSUME Inv, NEW m \in Loadable
    PROVE  m \in Memories /\ Belongs(cart, m)
<1>1. NewGame \in Memories /\ Belongs(cart, NewGame)
  BY NothingGiven DEF NewGame, Memories, Belongs, Prefix
<1>2. ASSUME cart \in Roms
      PROVE  /\ saves[cart] \in Memories /\ Belongs(cart, saves[cart])
             /\ Unbuffered(saves[cart]) \in Memories /\ Belongs(cart, Unbuffered(saves[cart]))
  <2>1. saves[cart] \in Memories /\ Belongs(cart, saves[cart])
    BY <1>2 DEF Inv, TypeOK, MemoryIsForCart
  <2>. QED  BY <2>1 DEF Unbuffered, Memories, Belongs, Prefix
<1>. QED  BY <1>1, <1>2 DEF Loadable

LEMMA SaveGameInv == ASSUME Inv, SaveGame PROVE Inv'
<1>1. /\ cart \in Roms /\ UNCHANGED <<phaseVars, clientVars, wire, roomVars, mem>>
      /\ saves' = [saves EXCEPT ![cart] = IF SaveStates THEN mem ELSE Unbuffered(mem)]
  BY DEF SaveGame
<1>2. /\ mem \in Memories /\ Belongs(cart, mem)
      /\ Unbuffered(mem) \in Memories /\ Belongs(cart, Unbuffered(mem))
  BY DEF SaveGame, Inv, TypeOK, MemoryIsForCart, Unbuffered, Memories, Belongs, Prefix
<1>3. saves' \in [Roms -> Memories] /\ \A r \in Roms : Belongs(r, saves'[r])
  BY <1>1, <1>2 DEF Inv, TypeOK, MemoryIsForCart
<1>4. SameSave /\ BelievedRom' /\ UNCHANGED <<gstate, rom, cart>>
  BY <1>1 DEF SameSave, phaseVars, Inv, BelievedRom, Phases!Playing
<1>5. MemoryIsForCart'
  BY <1>1, <1>3, <1>4 DEF Inv, MemoryIsForCart, Belongs, Prefix, phaseVars
<1>6. WireIsForCart'
  BY <1>1, <1>4, WireFrame
<1>. QED  BY <1>1, <1>3, <1>4, <1>5, <1>6, ConsoleStep DEF Inv, TypeOK

\* After a boot nothing is on its way, so nothing of another slot can arrive.
LEMMA LoadInv == ASSUME Inv, Load PROVE Inv'
<1>1. /\ wire' = <<>> /\ mem' \in Loadable /\ UNCHANGED <<clientVars, roomVars, saves>>
      /\ UNCHANGED <<gstate, rom, cart>> /\ BelievedRom'
  BY DEF Load, Phases!Load, BelievedRom, Phases!Playing
<1>2. mem' \in Memories /\ Belongs(cart, mem')
  BY <1>1, LoadableBelongs
<1>3. MemoryIsForCart'
  BY <1>1, <1>2 DEF Inv, MemoryIsForCart, Belongs, Prefix
<1>4. wire' \in Seq(Messages) /\ wire' \in Seq(Fitting(playing', cart'))
  BY <1>1, EmptySeq
<1>5. WireIsForCart'
  BY <1>4 DEF WireIsForCart, Fitting, Messages, Items
<1>. QED  BY <1>1, <1>2, <1>3, <1>4, <1>5, ConsoleStep DEF Inv, TypeOK

LEMMA ReloadInv == ASSUME Inv, Reload PROVE Inv'
<1>1. /\ mem' \in Loadable /\ UNCHANGED <<phaseVars, clientVars, wire, roomVars, saves>>
  BY DEF Reload
<1>2. SameSave /\ BelievedRom' /\ UNCHANGED <<gstate, rom, cart>>
  BY <1>1 DEF SameSave, phaseVars, Inv, BelievedRom, Phases!Playing
<1>3. mem' \in Memories /\ Belongs(cart, mem')
  BY <1>1, LoadableBelongs
<1>4. MemoryIsForCart'
  BY <1>1, <1>2, <1>3 DEF Inv, MemoryIsForCart, Belongs, Prefix
<1>5. WireIsForCart'
  BY <1>1, <1>2, WireFrame
<1>. QED  BY <1>1, <1>2, <1>3, <1>4, <1>5, ConsoleStep DEF Inv, TypeOK

\* A save that is left, or a cartridge that is exchanged, leaves nothing to be right about.
LEMMA LeavesInv == ASSUME Inv, Leaves PROVE Inv'
<1>1. /\ playing' = FALSE /\ mem' = NewGame /\ UNCHANGED <<gstate, rom>>
      /\ UNCHANGED <<clientVars, wire, roomVars, saves>>
  BY DEF Leaves, Phases!Quit, Phases!SwapCart
<1>2. SameGame /\ SameSave /\ BelievedRom'
  BY <1>1 DEF SameGame, SameSave, BelievedRom, Phases!Playing
<1>3. MemoryIsForCart'
  BY <1>1 DEF Inv, MemoryIsForCart, Belongs, Prefix
<1>4. mem' \in Memories
  BY <1>1, NothingGiven DEF NewGame, Memories
<1>5. TypeOK'
  BY <1>1, <1>4 DEF Inv, TypeOK, clientVars, roomVars, sessionVars
<1>6. SessionIsForSlot' /\ SessionFitsState' /\ ReceivedIsForRom' /\ WireIsForCart'
  BY <1>1, <1>2, SessionFrame, ReceivedFrame, WireFrame DEF clientVars, roomVars
<1>. QED  BY <1>2, <1>3, <1>5, <1>6 DEF Inv

-----------------------------------------------------------------------------
(* The order of what is on its way, and the buffer.                         *)

IsWrite(w) == w.kind \in {"index", "item"}

\* A read is the last message, and only a read comes after a start byte.
ReadIsLast  == \A i \in DOMAIN wire : wire[i].kind = "state" => i = Len(wire)
StartIsLate ==
    \A i, j \in DOMAIN wire : i < j /\ wire[i].kind = "start" => wire[j].kind = "state"

\* While anything is still to be written to it, the buffer is free.
FreeForWrites ==
    playing /\ (\E i \in DOMAIN wire : IsWrite(wire[i])) => ~mem.start

Order == ReadIsLast /\ StartIsLate /\ FreeForWrites

LEMMA KindFacts ==
    ASSUME NEW w \in Messages
    PROVE  /\ w.kind \in {"state", "start", "index", "item"}
           /\ w = ReadState <=> w.kind = "state"
           /\ IsWrite(w) <=> w.kind \notin {"state", "start"}
BY DEF Messages, ReadState, WriteStart, IsWrite

LEMMA OrderFrame ==
    ASSUME Order, UNCHANGED wire, playing' /\ mem'.start => playing /\ mem.start
    PROVE  Order'
BY DEF Order, ReadIsLast, StartIsLate, FreeForWrites, IsWrite

LEMMA OrderOfNothing ==
    ASSUME wire' = <<>>
    PROVE  Order'
<1>1. DOMAIN wire' = {}
  OBVIOUS
<1>. QED  BY <1>1 DEF Order, ReadIsLast, StartIsLate, FreeForWrites

LEMMA PollOrder == ASSUME Inv, Order, Poll PROVE Order'
<1>1. /\ wire' = Append(wire, ReadState) /\ UNCHANGED <<playing, mem>>
      /\ \A i \in DOMAIN wire : wire[i] # ReadState
  BY DEF Poll, phaseVars, consoleVars
<1>2. wire \in Seq(Messages) /\ ReadState \in Messages /\ ReadState.kind = "state"
  BY DEF Inv, TypeOK, Messages, ReadState
<1>3. /\ Len(wire) \in Nat /\ DOMAIN wire = 1..Len(wire)
      /\ Len(wire') = Len(wire) + 1 /\ DOMAIN wire' = 1..(Len(wire) + 1)
      /\ \A i \in 1..Len(wire) : wire'[i] = wire[i] /\ wire[i] \in Messages
      /\ wire'[Len(wire) + 1] = ReadState
  BY <1>1, <1>2, AppendProperties, LenProperties, ElementOfSeq
<1>4. \A i \in DOMAIN wire' : i \in DOMAIN wire \/ i = Len(wire) + 1
  BY <1>3
<1>5. ReadIsLast'
  BY <1>1, <1>3, <1>4, KindFacts DEF ReadIsLast
<1>6. StartIsLate'
  <2>1. SUFFICES ASSUME NEW i \in DOMAIN wire', NEW j \in DOMAIN wire', i < j,
                        wire'[i].kind = "start"
                 PROVE  wire'[j].kind = "state"
    BY DEF StartIsLate
  <2>2. CASE j = Len(wire) + 1
    BY <1>2, <1>3, <2>2
  <2>3. CASE j \in DOMAIN wire
    <3>1. i \in DOMAIN wire
      BY <1>3, <2>1, <2>3
    <3>. QED  BY <1>3, <2>1, <2>3, <3>1 DEF Order, StartIsLate
  <2>. QED  BY <1>4, <2>2, <2>3
<1>7. FreeForWrites'
  <2>1. SUFFICES ASSUME playing, NEW i \in DOMAIN wire', IsWrite(wire'[i])
                 PROVE  ~mem.start
    BY <1>1 DEF FreeForWrites, IsWrite
  <2>2. i \in DOMAIN wire /\ wire'[i] = wire[i]
    BY <1>2, <1>3, <1>4, <2>1 DEF IsWrite
  <2>. QED  BY <2>1, <2>2 DEF Order, FreeForWrites
<1>. QED  BY <1>5, <1>6, <1>7 DEF Order

LEMMA WritesAsTuple ==
    ASSUME NEW a, NEW b, NEW c
    PROVE  /\ (<<>> \o <<a>>) \o <<b, c>> = <<a, b, c>>
           /\ (<<>> \o <<>>) \o <<b, c>> = <<b, c>>
<1> DEFINE S == {a, b, c}
<1>1. /\ <<a>> \in Seq(S) /\ <<b, c>> \in Seq(S) /\ <<a, b, c>> \in Seq(S)
      /\ <<>> \in Seq(S)
  OBVIOUS
<1> HIDE DEF S
<1>2. <<>> \o <<a>> = <<a>> /\ <<>> \o <<>> = <<>> /\ <<>> \o <<b, c>> = <<b, c>>
  BY <1>1, ConcatEmptySeq
<1> DEFINE s == <<a>> \o <<b, c>>
           t == <<a, b, c>>
<1>3. /\ s \in Seq(S) /\ Len(s) = 3
      /\ \A i \in 1..3 : s[i] = IF i <= 1 THEN <<a>>[i] ELSE <<b, c>>[i - 1]
  BY <1>1, ConcatProperties
<1>4. t \in Seq(S) /\ Len(t) = 3 /\ \A i \in 1..3 : t[i] = s[i]
  <2>1. s[1] = a /\ s[2] = b /\ s[3] = c
    BY <1>3
  <2>2. \A i \in 1..3 : i = 1 \/ i = 2 \/ i = 3
    OBVIOUS
  <2> HIDE DEF s
  <2>. QED  BY <1>1, <2>1, <2>2
<1> HIDE DEF s, t
<1>5. s = t
  BY <1>3, <1>4, SeqEqual
<1>. QED  BY <1>2, <1>5 DEF s, t

\* The answer to the read finds nothing else on its way, and a buffer that is free.
LEMMA OnStateOrder == ASSUME Inv, Order, OnState PROVE Order'
<1>1. wire \in Seq(Messages) /\ wire # <<>> /\ wire[1] = ReadState /\ ReadState.kind = "state"
  <2>1. wire \in Seq(Messages) /\ wire # <<>> /\ Head(wire) = ReadState
    BY DEF Inv, TypeOK, OnState
  <2>2. ReadState.kind = "state"
    BY DEF ReadState
  <2>. QED  BY <2>1, <2>2
<1>2. Len(wire) = 1
  <2>1. 1 \in DOMAIN wire
    BY <1>1, EmptySeq, LenProperties
  <2>. QED  BY <1>1, <2>1 DEF Order, ReadIsLast
<1>3. Tail(wire) = <<>>
  <2>1. Tail(wire) \in Seq(Messages) /\ Len(Tail(wire)) = 0
    BY <1>1, <1>2, HeadTailProperties
  <2>. QED  BY <2>1, EmptySeq
<1>4. UNCHANGED <<playing, mem>>
  BY DEF OnState, phaseVars, consoleVars
<1>5. PICK seen \in Readings :
        LET n == IF ignoreSendIndex THEN 0 ELSE seen.expected
        IN  IF gstate = "JOINED" /\ MaySend(seen, n)
            THEN wire' = Tail(wire)
                           \o (IF ignoreSendIndex THEN <<WriteIndex(0)>> ELSE <<>>)
                           \o <<WriteItem(n, ItemAt(n)), WriteStart>>
            ELSE wire' = Tail(wire)
  BY DEF OnState
<1> DEFINE n == IF ignoreSendIndex THEN 0 ELSE seen.expected
<1>6. CASE gstate = "JOINED" /\ MaySend(seen, n)
  <2> DEFINE item == WriteItem(n, ItemAt(n))
             index == WriteIndex(0)
  <2>1. playing => ~mem.start
    BY <1>5, <1>6 DEF MaySend, Readings
  <2>2. /\ item.kind = "item" /\ index.kind = "index" /\ WriteStart.kind = "start"
    BY DEF WriteItem, WriteIndex, WriteStart
  <2>3. wire' = (<<>> \o (IF ignoreSendIndex THEN <<index>> ELSE <<>>))
                    \o <<item, WriteStart>>
    BY <1>3, <1>5, <1>6
  <2> HIDE DEF item, index, n
  <2>4. wire' \in {<<index, item, WriteStart>>, <<item, WriteStart>>}
    BY <2>3, WritesAsTuple
  <2>5. ReadIsLast'
    BY <2>2, <2>4 DEF ReadIsLast
  <2>6. StartIsLate'
    BY <2>2, <2>4 DEF StartIsLate
  <2>7. FreeForWrites'
    BY <1>4, <2>1 DEF FreeForWrites
  <2>. QED  BY <2>5, <2>6, <2>7 DEF Order
<1>7. CASE ~(gstate = "JOINED" /\ MaySend(seen, n))
  <2>1. wire' = <<>>
    BY <1>3, <1>5, <1>7
  <2>. QED  BY <2>1, OrderOfNothing
<1>. QED  BY <1>6, <1>7

\* A start byte arrives after everything that was to be written.
LEMMA WriteArrivesOrder == ASSUME Inv, Order, WriteArrives PROVE Order'
<1>1. /\ wire \in Seq(Messages) /\ wire # <<>> /\ wire' = Tail(wire) /\ UNCHANGED playing
      /\ mem' = (IF playing THEN Written(mem, Head(wire)) ELSE mem)
      /\ mem \in Memories
  BY DEF Inv, TypeOK, WriteArrives, phaseVars
<1>2. /\ Len(wire) \in Nat /\ DOMAIN wire = 1..Len(wire) /\ 1 \in DOMAIN wire
      /\ Len(wire') = Len(wire) - 1 /\ DOMAIN wire' = 1..(Len(wire) - 1)
      /\ \A i \in DOMAIN wire' : wire'[i] = wire[i + 1] /\ i + 1 \in DOMAIN wire
      /\ \A i \in DOMAIN wire : wire[i] \in Messages
  BY <1>1, EmptySeq, HeadTailProperties, LenProperties, ElementOfSeq
<1>3. ReadIsLast'
  BY <1>2 DEF Order, ReadIsLast
<1>4. StartIsLate'
  <2>1. SUFFICES ASSUME NEW i \in DOMAIN wire', NEW j \in DOMAIN wire', i < j,
                        wire'[i].kind = "start"
                 PROVE  wire'[j].kind = "state"
    BY DEF StartIsLate
  <2>2. i + 1 < j + 1
    BY <1>2, <2>1
  <2>. QED  BY <1>2, <2>1, <2>2 DEF Order, StartIsLate
<1>5. FreeForWrites'
  <2>1. SUFFICES ASSUME playing, NEW i \in DOMAIN wire', IsWrite(wire'[i])
                 PROVE  ~mem'.start
    BY <1>1 DEF FreeForWrites
  <2>2. wire'[i] = wire[i + 1] /\ i + 1 \in DOMAIN wire /\ 1 < i + 1 /\ IsWrite(wire[i + 1])
    BY <1>2, <2>1
  <2>3. wire[1].kind # "start"
    BY <1>2, <2>2 DEF Order, StartIsLate, IsWrite
  <2>4. ~mem.start
    BY <2>1, <2>2 DEF Order, FreeForWrites
  <2>5. wire[1].kind \in {"index", "item"}
    <3>1. wire[1].kind # "state"
      BY <1>2, KindFacts DEF WriteArrives
    <3>. QED  BY <1>2, <2>3, <3>1, KindFacts
  <2>6. mem' = Written(mem, wire[1])
    BY <1>1, <2>1
  <2>. QED  BY <1>1, <2>4, <2>5, <2>6 DEF Written, Memories
<1>. QED  BY <1>3, <1>4, <1>5 DEF Order

\* Without restored memories, what is loaded has a free buffer.
LEMMA LoadedIsFree ==
    ASSUME ~SaveStates, Inv, NEW m \in Loadable
    PROVE  ~m.start
<1>1. cart \in Roms => saves[cart] \in Memories
  BY DEF Inv, TypeOK
<1>2. NewGame.start = FALSE /\ (cart \in Roms => Unbuffered(saves[cart]).start = FALSE)
  BY <1>1 DEF NewGame, Unbuffered, Memories
<1>. QED  BY <1>2 DEF Loadable

LEMMA NextOrder == ASSUME ~SaveStates PROVE Inv /\ Order /\ [Next]_vars => Order'
<1> SUFFICES ASSUME Inv, Order, [Next]_vars PROVE Order'
  OBVIOUS
<1>1. CASE Poll
  BY <1>1, PollOrder
<1>2. CASE OnState
  BY <1>2, OnStateOrder
<1>3. CASE WriteArrives
  BY <1>3, WriteArrivesOrder
<1>4. CASE LinkLost
  BY <1>4, OrderOfNothing DEF LinkLost
<1>5. CASE Load \/ Reload
  <2>1. ~mem'.start /\ UNCHANGED wire
    BY <1>5, LoadedIsFree DEF Load, Reload
  <2>. QED  BY <2>1, OrderFrame
<1>6. CASE Take \/ Discard
  <2>1. UNCHANGED wire /\ ~mem'.start
    BY <1>6 DEF Take, Discard, Inv, TypeOK, Memories
  <2>. QED  BY <2>1, OrderFrame
<1>7. CASE Leaves
  <2>1. UNCHANGED wire /\ playing' = FALSE
    BY <1>7 DEF Leaves, Phases!Quit, Phases!SwapCart
  <2>. QED  BY <2>1, OrderFrame
<1>8. CASE \/ RoomInfo \/ RoomRejects \/ ApLost \/ ConnectCommand \/ SyncCommand
           \/ RoomConnects \/ NewItem \/ SyncReply \/ OnItems
           \/ ForceSend \/ ForceResend \/ SaveGame \/ UNCHANGED vars
  <2>1. UNCHANGED <<wire, mem, playing>>
    BY <1>8 DEF RoomInfo, RoomRejects, ApLost, ConnectCommand, SyncCommand, RoomConnects,
                NewItem, SyncReply, OnItems, ForceSend, ForceResend, SaveGame, vars, ClearCache,
                Phases!Reopen, Phases!Reset, phaseVars, consoleVars
  <2>. QED  BY <2>1, OrderFrame
<1>9. CASE GameStarted \/ GameJoined \/ GameMoves
  <2>1. UNCHANGED <<wire, mem, playing>>
    BY <1>9 DEF GameStarted, StartedInRoom, StartedConnected, GameJoined, GameMoves,
                Phases!Start, Phases!Reset, Phases!Join, Phases!Stop, Phases!Leave,
                Phases!Finish, consoleVars
  <2>. QED  BY <2>1, OrderFrame
<1>. QED  BY <1>1, <1>2, <1>3, <1>4, <1>5, <1>6, <1>7, <1>8, <1>9 DEF Next

-----------------------------------------------------------------------------
(* The theorems.                                                            *)

LEMMA InitInv == Init => Inv
<1> SUFFICES ASSUME Init PROVE Inv
  OBVIOUS
<1>1. NewGame \in Memories /\ \A r : Belongs(r, NewGame)
  BY NothingGiven DEF NewGame, Memories, Belongs, Prefix
<1>2. /\ wire \in Seq(Messages) /\ wire \in Seq(Fitting(playing, cart))
      /\ asked \in Seq(Roms) /\ asked \in Seq({ap})
      /\ inbox \in Seq(RoomMessages) /\ inbox \in Seq(About(ap))
  BY EmptySeq DEF Init
<1>3. TypeOK
  <2>1. DOMAIN received = {}
    BY DEF Init, Nothing
  <2>2. mem \in Memories /\ saves \in [Roms -> Memories] /\ count \in [Roms -> 0..MaxItems]
    BY <1>1, ItemAssumption DEF Init
  <2>. QED  BY <1>2, <2>1, <2>2 DEF Init, TypeOK, RoomMessages
<1>4. BelievedRom /\ ReceivedIsForRom
  BY DEF Init, Phases!Init, BelievedRom, ReceivedIsForRom, Nothing
<1>5. SessionIsForSlot /\ SessionFitsState
  BY <1>2 DEF Init, Phases!Init, SessionIsForSlot, SessionFitsState
<1>6. WireIsForCart /\ MemoryIsForCart
  BY <1>1, <1>2 DEF Init, Phases!Init, WireIsForCart, MemoryIsForCart
<1>. QED  BY <1>3, <1>4, <1>5, <1>6 DEF Inv

LEMMA StutterInv == ASSUME Inv, UNCHANGED vars PROVE Inv'
<1>1. UNCHANGED <<phaseVars, clientVars, wire, roomVars, consoleVars>>
  BY DEF vars
<1>2. wire' \in Seq(Fitting(playing, cart))
  BY <1>1 DEF Inv, WireIsForCart
<1>. QED  BY <1>1, <1>2, WireStep DEF clientVars, Inv, TypeOK

\* Every step preserves the invariant.
LEMMA NextInv == ASSUME PromptRoom PROVE Inv /\ [Next]_vars => Inv'
<1> SUFFICES ASSUME Inv, [Next]_vars PROVE Inv'
  OBVIOUS
<1>1. CASE RoomInfo \/ RoomRejects \/ ApLost \/ ConnectCommand \/ SyncCommand
  BY <1>1, RoomInfoInv, RoomRejectsInv, ApLostInv, ConnectCommandInv, SyncCommandInv
<1>2. CASE RoomConnects \/ NewItem \/ SyncReply \/ OnItems
  BY <1>2, RoomConnectsInv, NewItemInv, SyncReplyInv, OnItemsInv
<1>3. CASE GameStarted \/ GameJoined \/ GameMoves \/ LinkLost
  BY <1>3, GameStartedInv, GameJoinedInv, GameMovesInv, LinkLostInv
<1>4. CASE ForceSend \/ ForceResend \/ Poll \/ OnState
  BY <1>4, ForceInv, PollInv, OnStateInv
<1>5. CASE WriteArrives \/ Take \/ Discard
  BY <1>5, WriteArrivesInv, TakeInv, DiscardInv
<1>6. CASE SaveGame \/ Load \/ Reload \/ Leaves
  BY <1>6, SaveGameInv, LoadInv, ReloadInv, LeavesInv
<1>7. CASE UNCHANGED vars
  BY <1>7, StutterInv
<1>. QED  BY <1>1, <1>2, <1>3, <1>4, <1>5, <1>6, <1>7 DEF Next

\* Every reachable state satisfies the invariant, if the room answers a connect before
\* another game is found.
THEOREM Invariance == ASSUME PromptRoom PROVE Spec => []Inv
<1>. QED  BY InitInv, NextInv, PTL DEF Spec

\* The fields of SoE, the messages on both links and the memory of the script keep
\* their types, whatever is lost or sent again.
THEOREM TypeCorrect == ASSUME PromptRoom PROVE Spec => []TypeOK
<1>1. Inv => TypeOK
  BY DEF Inv
<1>. QED  BY Invariance, <1>1, PTL

\* Every save holds exactly the first items of its slot, in order and once each: what
\* send_item(), clear_cache(), poll() and the overrides do together never skips an item,
\* repeats one, or gives it to another slot.
THEOREM InventoryCorrect == ASSUME PromptRoom PROVE Spec => []InventoryIsPrefix
<1>1. Inv => InventoryIsPrefix
  BY DEF Inv, MemoryIsForCart, Belongs, InventoryIsPrefix
<1>. QED  BY Invariance, <1>1, PTL

\* The items that are kept for a game that was found are those of its slot.
THEOREM ReceivedCorrect == ASSUME PromptRoom PROVE Spec => []ReceivedIsForRom
<1>1. Inv => ReceivedIsForRom
  BY DEF Inv
<1>. QED  BY Invariance, <1>1, PTL

\* Not even /force-send writes over an item that the game was told to take, unless the
\* player restores a memory in which it was told.
THEOREM BufferCorrect == ASSUME PromptRoom, ~SaveStates PROVE Spec => []BufferFree
<1>1. Init => Order
  BY DEF Init, Order, ReadIsLast, StartIsLate, FreeForWrites
<1>2. Inv /\ Order /\ [Next]_vars => Order'
  BY NextOrder
<1>3. Inv /\ Order => BufferFree
  <2> SUFFICES ASSUME Inv, Order, wire # <<>>, Head(wire).kind = "item", playing
               PROVE  ~mem.start
    BY DEF BufferFree
  <2>1. 1 \in DOMAIN wire /\ IsWrite(wire[1])
    BY EmptySeq, LenProperties DEF Inv, TypeOK, IsWrite
  <2>. QED  BY <2>1 DEF Order, FreeForWrites
<1>. QED  BY <1>1, <1>2, <1>3, Invariance, PTL DEF Spec

=============================================================================
