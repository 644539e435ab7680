CONSTANTS
  Workers = {w1, w2}
  Main = Main
  Nobody = Nobody
  MaxMessages = 3
  MaxDepth = 2
SPECIFICATION FairSpec
CHECK_DEADLOCK FALSE
INVARIANTS
  ActorIsolated
  BorrowedFieldsLive
  OnlyMainGetsStuck
PROPERTY OperationsEnd
