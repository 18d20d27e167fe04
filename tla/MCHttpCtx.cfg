CONSTANTS Page = 12  Char <- MCChar  Junk = {"7", "x"}
          Requests <- MCRequests  Host <- MCHost  ContentType <- MCContentType
          ContentLength <- MCContentLength  LowerCase <- MCLowerCase  Paths <- MCPaths
SPECIFICATION Spec
INVARIANTS RequestExact PathsMatch
