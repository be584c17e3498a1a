SPECIFICATION MCSpec
CONSTANTS
    a = a
    b = b
    life = life
    Posts <- MCPosts
    Characters = {a, b}
    Nobody = Nobody
    Idle = Idle
    MaxPieces = 2
    MaxSheet = 1
    Kinds = {life}
    Calls = {1, 2}
    Retries = 0
    Complete = {1}
    MaxWire = 1
    MaxMoves = 2
    MaxAdrift = 0
INVARIANT SyncsByItself
CHECK_DEADLOCK FALSE
