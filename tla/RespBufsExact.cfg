CONSTANTS Page = 8  StatusLen = 2  TextLens = {0, 1, 4}  BodyLens = {1, 7, 8}
          MaxHeaders = 2  MaxParts = 2
SPECIFICATION Spec
INVARIANT SentAsComposed
