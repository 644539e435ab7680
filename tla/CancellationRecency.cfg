SPECIFICATION RecencySpec
CONSTANTS
  t1 = t1
  i1 = i1
  i2 = i2
  i3 = i3
  NoThread = NoThread
  Threads <- OneThread
  Ids <- ThreeIds
  Remembered = 2
  Operations <- CompletionOnly
INVARIANT
  MostRecentRemembered
