SPECIFICATION MCSpec
CONSTANTS
    a = a
    b = b
    life = life
    Posts <- MCPosts
    Characters = {a, b}
    Nobody = Nobody
    Idle = Idle
    MaxPieces = 1
    MaxSheet = 2
    Kinds = {combat, life}
    Calls = {1, 2}
    Retries = 0
    Complete = {2}
    MaxWire = 1
    MaxMoves = 2
    MaxAdrift = 1
INVARIANTS GearIsOwn UploadsKeepUp HighlightIsFollowed
CHECK_DEADLOCK FALSE
