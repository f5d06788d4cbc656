SPECIFICATION Spec
CONSTANTS
  MaxVersion = 3
  MaxAge = 5
  TTL = 1
  None = None
INVARIANTS TypeOK WarnedTold WithinTwo
PROPERTIES NotTwice
