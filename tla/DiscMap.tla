------------------------------- MODULE DiscMap -------------------------------
(***************************************************************************)
(* Where the bytes of a PlayStation disc end up in RAM (ketchup.h,         *)
(* Ketchup::ApplyBlock).  A sector of the raw disc is SectorSize bytes of  *)
(* user data and Stride bytes around them; the executable lies in whole    *)
(* sectors from ram_base on, and its user data is loaded at ImageBase.     *)
(***************************************************************************)
EXTENDS Integers

CONSTANTS
  SectorSize,   \* PSX_SectorSize,   0x800 in the code.
  Stride,       \* PSX_SectorStride, 0x130.
  ImageBase     \* PSX_ImageBase,    0x10000.

ASSUME DiscMapAssumption ==
  SectorSize \in Nat \ {0} /\ Stride \in Nat /\ ImageBase \in Nat

SectorRange == SectorSize + Stride

\* PSX_DiskRange: the raw bytes that an executable of that size takes on the disc.
DiskRange(size) == (size \div SectorSize) * SectorRange

InRange(base, size, offset) == offset >= base /\ offset < base + DiskRange(size)

IsUserData(base, offset) == (offset - base) % SectorRange < SectorSize

\* The address that ApplyBlock writes a byte of the disc to.
RamAddress(base, offset) ==
  ImageBase + ((offset - base) \div SectorRange) * SectorSize + ((offset - base) % SectorRange)

\* What a loader does, the other way round: the offset on the disc of byte r of the image.
DiscOffset(base, r) == base + SectorRange * (r \div SectorSize) + (r % SectorSize)

\* The bytes of the image.
Image(size) == 0 .. (size \div SectorSize) * SectorSize - 1
=============================================================================
