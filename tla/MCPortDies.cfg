SPECIFICATION PortSpec
CONSTANTS
    light = light  fan = fan  ackPacket = ackPacket
    thisPort = thisPort  otherPort = otherPort
    Jobs = {j1, j2, j3}
    Entities <- MCEntities
    Packets <- MCPackets
    Requests <- MCRequests
    Ports <- MCPorts
    PortId = thisPort
    NoPort = NoPort
    NoEntity = NoEntity
    NoMatch = NoMatch
    NoRequest = NoRequest
    NoJob = NoJob
    Sockets = {s1, s2, s3}
    NoSocket = NoSocket
    InitialDelay = 1  MaxDelay = 4
    MaxRetries = 1
    MaxWrites = 2
INVARIANTS OnlyOwnerDestroys
CHECK_DEADLOCK FALSE
