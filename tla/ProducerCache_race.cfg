CONSTANTS
  device = device
  simulator = simulator
  None = None
  Platforms <- Device
  MacroFiles <- OneMacroFile
  Versions = {1, 2}
  EditsAnyTime = TRUE
  MaxEdits = 2
SPECIFICATION Spec
INVARIANT
  VouchesForCurrent
