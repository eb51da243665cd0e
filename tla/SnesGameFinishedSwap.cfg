SPECIFICATION FairSpec
CONSTANTS
    romA = romA
    romB = romB
    l1 = l1
    b1 = b1
    b2 = b2
    Roms = {romA, romB}
    Vanilla = Vanilla
    Other = Other
    NoRom = NoRom
    DeathlinkRoms = {romB}
    Locations = {l1}
    Won = Won
    Blocks = {b1}
    BlockOf <- MCOneLocation
    SlowReload = FALSE
    GarbageJoins = FALSE
    QuietRoom = TRUE
    OutroReached = TRUE
PROPERTIES
    RomChangeNoticed
