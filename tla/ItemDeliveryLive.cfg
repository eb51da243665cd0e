SPECIFICATION FairSpec
CONSTANTS
    romA = romA
    romB = romB
    Roms = {romA}
    Vanilla = Vanilla
    Other = Other
    NoRom = NoRom
    NoItem = NoItem
    MaxItems = 2
    MaxInbox = 2
    MaxAsked = 1
    PromptRoom = TRUE
    SaveStates = TRUE
PROPERTIES
    AllDelivered
