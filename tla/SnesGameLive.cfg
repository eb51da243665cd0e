SPECIFICATION FairSpec
CONSTANTS
    romA = romA
    romB = romB
    l1 = l1
    b1 = b1
    b2 = b2
    Roms = {romA, romB}
    Vanilla = Vanilla
    Other = Other
    NoRom = NoRom
    DeathlinkRoms = {}
    Locations = {l1}
    Won = Won
    Blocks = {b1}
    BlockOf <- MCOneLocation
    SlowReload = TRUE
    GarbageJoins = FALSE
    QuietRoom = TRUE
    OutroReached = TRUE
INVARIANTS
    CachedIsReported
PROPERTIES
    ReportedIsEarned
    ImplementsPhases
    RomChangeNoticed
    LootIsReported
