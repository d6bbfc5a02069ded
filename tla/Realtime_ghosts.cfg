SPECIFICATION GhostsSpec
CONSTANTS
    Server = Server
    Browsers = {dev, visitor}
    Ips = {"office", "home"}
    Allowed = {{"office"}, {"office", "home"}}
    SessionLife = 0
    MaxTime = 1
    MaxStarts = 2
    Recorders = {r1, r2}
    Kinds = {"request", "job"}
    MaxOf <- MCMaxOf
    Ring = 1
    MaxRecords = 3
    Threads = {"t1", "t2"}
    TTL = 2
    Clients = {c1}
    Channels = {a}
    MaxChannels = 1
    Buffer = 1
    MaxMessages = 1
\* A connection that is gone stays gone.
CHECK_DEADLOCK FALSE
INVARIANTS
    NoGhosts
