SPECIFICATION Spec
CONSTANTS
    romA = romA
    romB = romB
    Roms = {romA, romB}
    Vanilla = Vanilla
    Other = Other
    NoRom = NoRom
    NoItem = NoItem
    MaxItems = 2
    MaxInbox = 2
    MaxAsked = 1
    PromptRoom = TRUE
    SaveStates = FALSE
INVARIANTS
    TypeOK
    InventoryIsPrefix
    ReceivedIsForRom
    BufferFree
SYMMETRY
    MCSymmetry
