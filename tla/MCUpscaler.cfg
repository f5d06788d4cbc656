SPECIFICATION Spec
CONSTANTS
  Textures = 4
  Views = 3
  Targets = 2
  MaxVram = 2
INVARIANTS
  TypeOK
  CrashOnlyAfterFailure
  OwnRemastered
  ReferencesBalance
  Refreshed
PROPERTY Transparent
CHECK_DEADLOCK FALSE
