SPECIFICATION Spec
CONSTANTS
  SectorSize = 2
  Stride = 1
  ImageBase = 1
  Titles <- MCTitles
  Mods <- MCMods
  Contents <- MCContents
  DiscEnd = 9
  RamEnd = 6
  Byte = {0, 1}
  HalfWord = 40
  UpperHalves <- MCUpperHalves
  Strays <- MCStrays
  None = None
INVARIANTS NoStray
