CONSTANTS
    c1 = c1
    c2 = c2
    h1 = h1
    h2 = h2
    h3 = h3
    Ctx <- MCOneCtx
    Hdr <- MCTwoHdr
    MaxHdr = 1
    MaxReq = 2
    Overlap = FALSE
    ShortFragments = FALSE
    StaleTail = TRUE
SPECIFICATION FairSpec
PROPERTIES
    Answered
    ContextReturned
