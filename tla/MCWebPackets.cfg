SPECIFICATION WebSpec
CONSTANTS
    b1 = b1  b2 = b2  c1 = c1  c2 = c2  r1 = r1  r2 = r2
    Bridges = {b1, b2}
    Clients = {c1, c2}
    Requests = {r1, r2}
    Target = 2  MaxChunks = 2
    Connections = {1, 2, 3}
    MaxStates = 2  MaxChoices = 2
    p1 = p1  p2 = p2  p3 = p3
    Packets = {p1, p2, p3}
    MaxEntries = 4  MaxReconnects = 2
    Files <- MCFiles
    Initial <- MCInitial
    Edits <- MCEdits
    Slots = {1, 2}  MaxEdits = 2
    Written <- MCWritten
    NewEntities <- MCNewEntities
    MaxReloads = 2
SYMMETRY MCSymmetry
INVARIANTS ShownPacketIsOwn
CHECK_DEADLOCK FALSE
