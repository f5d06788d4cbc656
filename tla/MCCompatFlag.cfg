SPECIFICATION Spec
CONSTANTS
  Fso = Fso
  RunAsAdmin = RunAsAdmin
  HighDpiAware = HighDpiAware
  Others <- MCOthers
SYMMETRY Symmetry
INVARIANTS TypeOK Settled Marked
PROPERTY OthersKept
