CONSTANTS
  device = device
  simulator = simulator
  None = None
  Platforms <- DeviceAndSimulator
  MacroFiles <- TwoMacroFiles
  Versions = {1, 2}
  EditsAnyTime = FALSE
  MaxEdits = 2
SPECIFICATION Spec
INVARIANTS
  TypeOK
  VouchesForCurrent
  FinishedBuildVerifies
  PackageIsCurrent
