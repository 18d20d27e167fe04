CONSTANTS
    MaxHeader = 100
    MaxLength = 2000
    MaxPort = 99
    Callbacks <- MCCallbacks
    Streams <- MCStreams
    Pieces <- MCPieces
    SchemaParts <- MCSchemaParts
    UserParts <- MCUserParts
    HostParts <- MCHostParts
    PortParts <- MCPortParts
    PathParts <- MCPathParts
    QueryParts <- MCQueryParts
    FragmentParts <- MCFragmentParts
    Page = 8
    StatusLen = 2
    TextLens = {0, 1, 4}
    BodyLens = {1, 7, 8}
    MaxHeaders = 2
    MaxParts = 2
SPECIFICATION MCSpec
INVARIANTS
    ToldAsSent
    CutsLeaveNoTrace
    AssertsHold
    LimitUnpaused
    UrlExact
    ShortReplyExact
    HeaderFirst
    ArraySound
CHECK_DEADLOCK FALSE
