SPECIFICATION FairSpec
CONSTANTS
  Node <- MCNode
  Publisher = p
  Blob <- MCBlob
  Persistent = {r}
  Readers = {r}
  Asks <- MCAsksBoth
  Page = 1
  Keep = 1
  MaxClock = 2
  CanCrash = {r}
  MaxCrashes = 1
  None = None
  p = p
  r = r
  q = q
INVARIANT OnlyCommitted
INVARIANT NoRowSkipped
PROPERTY ReaderResolves
