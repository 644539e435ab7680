SPECIFICATION FairSpec
CONSTANTS
  t1 = t1
  t2 = t2
  i1 = i1
  i2 = i2
  i3 = i3
  NoThread = NoThread
  Threads <- TwoThreads
  Ids <- TwoIds
  Remembered = 1
  Operations <- OneOfEachKind
PROPERTIES
  CancelledRequestReturns
  CancellationUnblocks
