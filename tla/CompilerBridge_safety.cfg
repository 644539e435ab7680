SPECIFICATION Spec
CONSTANTS
  t1 = t1
  t2 = t2
  i1 = i1
  i2 = i2
  i3 = i3
  NoThread = NoThread
  Threads <- TwoThreads
  Ids <- ThreeIds
  Remembered = 2
  Operations <- AllOperations
SYMMETRY Interchangeable
INVARIANTS
  OneOperation
  NoLostCancellation
  CancelledOnlyOnRequest
  ContextInUse
  CancellationTable
PROPERTIES
  PoisonIsFinal
  FirstInFirstOut
  ImplementsSession
