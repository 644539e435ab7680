CONSTANTS
  MaximumErrors = 2
  Requests <- MCRequests
  MaxCharacters = 1
  MaxDiagnostics = 4
  MaxResults = 2
SPECIFICATION Spec
INVARIANT FilteredRanksBadLast
