\* The queue alone, one worker and one place in its channel.
SPECIFICATION ShutdownSpec
CONSTANTS
    j1 = j1
    j2 = j2
    j3 = j3
    j4 = j4
    m1 = m1
    s1 = s1
    n1 = n1
    h1 = h1
    h2 = h2
    NoParent = NoParent
    Jobs <- MCJobs
    Parent <- MCParent
    MaxRetries <- MCMaxRetries
    Workers = 1
    Capacity = 1
    Messages = {m1, s1, n1}
    Async = {m1, n1}
    Handlers = {h1, h2}
    TypeOf <- MCTypeOf
    BusWorkers = 0
    BusRetries = 1
    BusCapacity = 1
    BusTasks = {t1, t2}
    MaxCalls = 4
\* A queue that was dropped stands still.
CHECK_DEADLOCK FALSE
PROPERTIES
    ShutdownCompletes
