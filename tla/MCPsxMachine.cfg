SPECIFICATION Spec
CONSTANTS
  Modules <- MCModules
  Kind <- MCKind
  Accelerator <- MCAccelerator
  Table <- MCTable
  HookTable <- MCHookTable
  MainTable <- MCMainTable
  Location = {1, 2}
  Processors = {interpreter, debugger}
  Hook = Hook
  Null = Null
  Bounds <- MCBounds
  Modes <- MCModes
INVARIANTS
  PsxTypeOK
  OwnOriginal
  HooksHold
  Projected
