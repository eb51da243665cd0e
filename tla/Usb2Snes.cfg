SPECIFICATION FairSpec
CONSTANTS
    DefaultUri = default
    LegacyUri = legacy
    ConfiguredUri = default
    BaseInterval = 1
    MaxInterval = 3
    SnesRetry = 1
    head = head
    body = body
    Addrs = {head, body}
    Length <- MCLength
    Chained <- MCChained
    Writers = {body}
    MaxBatch = 2
    MaxWrites = 2
    NoAddr = NoAddr
    NoReply = NoReply
INVARIANTS
    TypeOK
    LinkConsistent
    RepliesMeetRequests
    AnswerFitsState
    BusyIsAwaited
    RetryClockSet
    StatusMatchesState
PROPERTIES
    NoReconnectStorm
    ImplementsChannel
    Reconnects
    IdleAgain
