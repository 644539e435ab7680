CONSTANTS
  MaximumErrors = 2
  Requests <- MCRequests
  MaxCharacters = 4
  MaxDiagnostics = 4
  MaxResults = 3
SPECIFICATION Spec
INVARIANTS
  WholeIdentifier
  FirstErrors
  StrictWeakOrder
  BestInOrder
