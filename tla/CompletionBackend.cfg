CONSTANTS
  Directories = {d1, d2}
  Paths <- MCPaths
  Files <- MCFiles
  RealPath <- MCRealPath
  Modules = {m1, m2}
  Requests <- MCRequests
  NoRequest = NoRequest
  NoState = NoState
  NoContext = NoContext
  MaxEpoch = 2
SPECIFICATION Spec
INVARIANTS
  TypeOK
  ReuseMatchesRequest
  ReuseIsCurrent
  CacheIsOnDisk
PROPERTIES
  DiskOnlyForItsRequests
