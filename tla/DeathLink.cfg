SPECIFICATION FairSpec
CONSTANTS
    romA = romA
    romB = romB
    Roms = {romA}
    DeathlinkRoms = {romA}
    Vanilla = Vanilla
    Other = Other
    NoRom = NoRom
    PollInterval = 1
    Window = 3
    Dying = 1
    PromptEcho = TRUE
    t1 = t1
    t2 = t2
    t3 = t3
    Times = {t1, t2}
    NoTime = NoTime
    Foreign = Foreign
    MaxInbox = 2
INVARIANTS
    TypeOK
    ReceivedNotToldBack
    ToldOnce
    EchoNeverKills
    KillsWhatWasReceived
PROPERTIES
    OwnDeathTold
    DeathCarriedOut
