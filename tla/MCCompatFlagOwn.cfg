SPECIFICATION Spec
CONSTANTS
  Fso = Fso
  RunAsAdmin = RunAsAdmin
  HighDpiAware = HighDpiAware
  Others <- MCOthers
SYMMETRY Symmetry
CONSTRAINT Undisturbed
ACTION_CONSTRAINT OptionBetween
PROPERTY RemovesOwn
