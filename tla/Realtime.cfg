\* Two connections and two rooms, one of which each may join; a dashboard behind a ring of one,
\* three records; two browsers on two networks, two starts of the server.
SPECIFICATION SafetySpec
CONSTANTS
    Server = Server
    Browsers = {dev, visitor}
    Ips = {"office", "home"}
    Allowed = {{"office"}, {"office", "home"}}
    SessionLife = 0
    MaxTime = 1
    MaxStarts = 2
    Recorders = {r1, r2}
    Kinds = {"request", "job"}
    MaxOf <- MCMaxOf
    Ring = 1
    MaxRecords = 3
    Threads = {"t1", "t2"}
    TTL = 2
    Clients = {c1, c2}
    Channels = {a, b}
    MaxChannels = 1
    Buffer = 1
    MaxMessages = 1
SYMMETRY Symmetry
\* Connections are gone in the end, records and starts are used up.
CHECK_DEADLOCK FALSE
INVARIANTS
    RoomsAreExact
    StudioMissesNothing
    StudioIsGuarded
