SPECIFICATION Spec
CONSTANTS
    romA = romA
    romB = romB
    l1 = l1
    b1 = b1
    b2 = b2
    Roms = {romA}
    Vanilla = Vanilla
    Other = Other
    NoRom = NoRom
    DeathlinkRoms = {romA}
    Locations = {l1}
    Won = Won
    Blocks = {b1, b2}
    BlockOf <- MCOneLocation
    SlowReload = TRUE
    GarbageJoins = TRUE
    QuietRoom = FALSE
    OutroReached = TRUE
INVARIANTS
    TypeOK
    CachedIsReported
    DeathlinkOfRom
    SnapshotComplete
    StatusMatchesGame
PROPERTIES
    ReportedIsEarned
