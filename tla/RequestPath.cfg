SPECIFICATION PathSpec
CONSTANTS
    NL = "n"
    HostLine = "L"
    Requests <- MCRequests
    Hellos <- MCHellos
    HelloSize = 3
    MuxHeader <- MCMuxHeader
    BufferSize = 24
    MaxHTTPHeaderSize = 14
    MaxValueSize = 7
    Exchanges <- MCExchanges
    MaxCandidates = 1
    PublicConns = {t1, t2, t3}
    NoTask = NoTask
    PreservedSignal = 4
    Word = 6
INVARIANTS
    PathTypeOK
    RewrittenWhole
    RoutedAsSent
    RoutedLineReplaced
    IdsApart
    MessagesInOrder
    LocalOnlyAfterClose
PROPERTIES
    AnswerEnds
    ClosedIsForgotten
CHECK_DEADLOCK FALSE
