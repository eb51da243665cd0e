SPECIFICATION Spec
CONSTANTS
    romA = romA
    romB = romB
    Roms = {romA, romB}
    Vanilla = Vanilla
    Other = Other
    NoRom = NoRom
    NoItem = NoItem
    MaxItems = 1
    MaxInbox = 2
    MaxAsked = 2
    PromptRoom = FALSE
    SaveStates = FALSE
INVARIANTS
    ReceivedIsForRom
