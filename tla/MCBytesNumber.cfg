SPECIFICATION BytesSpec
CONSTANTS
    ByteSize = 4
    SamsungSeed = 2
    SamsungLimit = 2
    Configs <- OneConfig
    MaxBuffer = 5
    SparseLimit = 3
    MaxChunk = 3
    Headers <- MCHeaders
    Footers <- MCFooters
    Scripts <- MCScripts
    MaxPayload = 2
    MaxReceived = 6
    MaxChunks = 6
    MaxPending = 3
    Entities <- OneNumber
    Values <- MCValues
    MaxQueue = 2
    MaxAsked = 2
    Setups <- MCSetups
    Packets <- MCPackets
    MaxSeen = 2
    Descriptions <- MCDescriptions
    Reports <- MCReports
    FullyOpen = 2
    MaxSteps = 2
CHECK_DEADLOCK FALSE
INVARIANT NumberIsInserted
