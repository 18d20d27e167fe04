CONSTANTS
    c1 = c1
    c2 = c2
    h1 = h1
    h2 = h2
    h3 = h3
    Ctx <- MCOneCtx
    Hdr <- MCHdr
    MaxHdr = 1
    MaxReq = 2
    Overlap = TRUE
    ShortFragments = FALSE
    StaleTail = FALSE
SPECIFICATION Spec
INVARIANT
    WriteDataIntact
CHECK_DEADLOCK FALSE
