CONSTANTS
    c1 = c1
    c2 = c2
    h1 = h1
    h2 = h2
    h3 = h3
    Ctx <- MCCtx
    Hdr <- MCHdr
    MaxHdr = 1
    MaxReq = 2
    Overlap = FALSE
    ShortFragments = FALSE
    StaleTail = TRUE
SPECIFICATION Spec
SYMMETRY NodeSymmetry
INVARIANTS
    TypeOK
    WriteDataIntact
    BuffersReturned
    NoCrash
    HeadersConserved
    ServedReceived
PROPERTIES
    OneReplyAtATime
