SPECIFICATION FairSpec
CONSTANTS
    romA = romA
    romB = romB
    romC = romC
    roomX = roomX
    roomY = roomY
    Roms = {romA, romB, romC}
    Vanilla = Vanilla
    Other = Other
    NoRom = NoRom
    DeathlinkRoms = {romB, romC}
    Rooms = {roomX, roomY}
    NoRoom = NoRoom
    RoomOf <- MCRoomOf
    Locked = {roomX}
    Browser = TRUE
    MaxErrors = 3
    MaxAsked = 2
    PromptRoom = TRUE
INVARIANTS
    TypeOK
    PromptIsDue
    RoomKnowsGame
PROPERTIES
    ConnectsInAnyOrder
