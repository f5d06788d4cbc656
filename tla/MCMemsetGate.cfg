SPECIFICATION Spec
CONSTANTS
  Threads = {t1, t2, t3}
  Hooks = {h1, h2}
  None = None
INVARIANTS TypeOK GateShut NoEmptyInvoke NoDuplicateStart OneInside
PROPERTIES WaiterReturns GateSpec
CHECK_DEADLOCK FALSE
