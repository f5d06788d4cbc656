SPECIFICATION ConfigSpec
CONSTANTS
  Word = 32
  Addend = 2
  Pointer = 1
  ConfigKeys = {width, height, language}
  Overridden = {width, height}
  None = None
INVARIANTS
  IndexExact
