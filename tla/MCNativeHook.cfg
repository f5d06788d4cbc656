SPECIFICATION SpecWithHistory
CONSTANTS
  VMs = {v1, v2}
  Root = v1
  Natives = {n1, n2}
  Filtered = {n2}
  DebugClosures = {d1, d2, d3}
  None = None
  MaxDepth = 8
SYMMETRY Symmetry
INVARIANTS TypeOK Unswapped Armed HookKept HandlerVM
PROPERTY Interposition
