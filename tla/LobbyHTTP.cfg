SPECIFICATION FairSpec
CONSTANTS
    Conn = {c1, c2, c3}
    MaxConcurrent = 1
    QueueSize = 2
    Client = {a1, a2}
    Proxy = cloudflare
    NoAddress = NoAddress
    NoRequest = NoRequest
    Budget = 2
    MaxKeys = 1
    Endpoint = {"healthz", "create_session", "room_list", "join_room", "messages", "unknown"}
INVARIANTS
    SlotsConserved
    BudgetPerClient
PROPERTIES
    ConnectionsClose
\* Once every connection is closed nothing is left to do.
CHECK_DEADLOCK FALSE
