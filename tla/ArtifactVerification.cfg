SPECIFICATION Spec
CONSTANTS
  r0 = r0
  r1 = r1
  r2 = r2
  m1 = m1
  m2 = m2
  Releases <- ThreeReleases
  Legacy <- Earlier
  Modules <- TwoModules
  Bridge = "SwiftCompilerBridge"
  SDK = "SwiftCompilerSDK"
  MacroBuildSupport = "MacroBuildSupport"
  Pinned = Pinned
  Faults <- OneOfEachKind
  None = None
  MaximumDecodedBytes = 2
SYMMETRY Interchangeable
INVARIANTS
  AcceptedIsIntact
  RejectedForCause
