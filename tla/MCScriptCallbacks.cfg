SPECIFICATION Spec
CONSTRAINT OtherAtRest
CONSTANTS
  PatchLists <- MCPatchLists
  OtherOffsets = {2, 6, 12}
  Segment = 16
  Exempt = 10
  Scripts <- MCScripts
  Keys <- MCKeys
  Names <- MCNames
  Coroutines = {u, v}
  MaxCalls = 2
INVARIANTS
  TypeOK
  FilteredExactly
  HandlersRun
