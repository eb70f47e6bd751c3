SPECIFICATION FairSpec

CONSTANTS
    Transports <- MCTransports
    Browsers <- MCBrowsers
    FrameTimers = {frame1, frame2}
    Invocations = {i1, i2}
    MaxMessages = 2
    MaxFaults = 3

INVARIANTS
    TypeOK
    StoppedConnectionIsQuiet
    DisconnectTimeoutRunsWhileReconnecting
    MessagesAreNotOvertaken
    ResultsReachTheirInvocation

PROPERTIES
    ImplementsHubConnection
    StartSettles
    ReconnectingEnds
    InvocationsSettle

CHECK_DEADLOCK FALSE
