SPECIFICATION ServiceSpec
CONSTANTS
    r1 = r1  r2 = r2  x = x  y = y
    Files = {1, 2, 3}
    PortNames = {x, y}
    EnvFiles = {}
    Requests = {r1}
    MaxRequests = 1
    MaxStops = 1
    p1 = p1  p2 = p2
    Packets = {p1, p2}
    Ttl = 1  ActivityTtl = 2  MaxLogs = 2
    MaxTime = 2  MaxEvents = 3
    MaxRecordings = 3  MaxPackets = 4
    RetentionCount = 2  MaxFiles = 6
    ip1 = ip1  ip2 = ip2  ip3 = ip3
    Ips = {ip1, ip2, ip3}
    WindowMs = 1  MaxHits = 2  MaxTracked = 2
    LimiterTime = 3  MaxAllowed = 6
INVARIANTS DuplicatePortsApart StatusesTell
           CacheHolds
           LimitsHold
PROPERTIES ServiceRestartsEnd
CHECK_DEADLOCK FALSE
