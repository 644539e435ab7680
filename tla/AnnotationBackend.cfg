CONSTANTS
  MaximumDiagnostics = 2
  MaxExpressions = 2
  Requests <- MCRequests
  NoResult = NoResult
SPECIFICATION FairSpec
INVARIANTS
  TypeOK
  CompleteReferences
  FirstDiagnostics
  LoweringIsSound
  HonoursCancellation
PROPERTIES
  ImplementsBackend
  CancellationEndsTypeCheck
