---------------------------- MODULE KetchupProofs ----------------------------
(* What Ketchup reads of its files and leaves in RAM, for any discs, mods  *)
(* and sector sizes.                                                       *)
EXTENDS Ketchup, SequenceTheorems, FiniteSetTheorems, WellFoundedInduction, TLAPS

-----------------------------------------------------------------------------
(* The mapping of ApplyBlock is the one the loader uses, for any sizes.    *)

\* Division with a remainder.
LEMMA DivMod ==
  ASSUME NEW a \in Nat, NEW n \in Nat \ {0}
  PROVE  /\ a \div n \in Nat
         /\ (a % n) \in Nat
         /\ a = n * (a \div n) + (a % n)
         /\ (a % n) < n
  OBVIOUS

\* The quotient and the remainder are the only ones.
LEMMA DivUnique ==
  ASSUME NEW n \in Nat \ {0}, NEW q \in Nat, NEW r \in Nat, r < n
  PROVE  /\ (n * q + r) \div n = q
         /\ (n * q + r) % n = r
  OBVIOUS

\* A number of whole parts before the last one is a part smaller.
LEMMA WholeParts ==
  ASSUME NEW n \in Nat \ {0}, NEW q \in Nat, NEW p \in Nat, q < p
  PROVE  n * q + n <= n * p
<1>1. q + 1 <= p
  OBVIOUS
<1>2. n * (q + 1) = n * q + n
  OBVIOUS
<1>3. n * (q + 1) <= n * p
  BY <1>1
<1>. QED
  BY <1>2, <1>3

\* A quotient is below that of a whole number of parts that is above.
LEMMA QuotientBelow ==
  ASSUME NEW n \in Nat \ {0}, NEW a \in Nat, NEW p \in Nat, a < n * p
  PROVE  a \div n < p
<1>1. a \div n \in Nat /\ a >= n * (a \div n)
  BY DivMod
<1>2. ASSUME p <= a \div n PROVE FALSE
  <2>1. n * p <= n * (a \div n)
    BY <1>1, <1>2
  <2>. QED
    BY <1>1, <2>1
<1>. QED
  BY <1>1, <1>2

\* Every byte of the image lies in the range of the executable on the disc, in the user
\* data of a sector, and ApplyBlock writes it where the loader puts it: no byte of the
\* executable that a mod patches is missed.
THEOREM ImageCovered ==
  ASSUME NEW base \in Nat, NEW size \in Nat, NEW r \in Image(size)
  PROVE  /\ InRange(base, size, DiscOffset(base, r))
         /\ IsUserData(base, DiscOffset(base, r))
         /\ RamAddress(base, DiscOffset(base, r)) = ImageBase + r
<1>. DEFINE sectors == size \div SectorSize
            q == r \div SectorSize
            m == r % SectorSize
            d == SectorRange * q + m
<1>1. SectorSize \in Nat \ {0} /\ SectorRange \in Nat \ {0} /\ SectorSize <= SectorRange
  BY DiscMapAssumption DEF SectorRange
<1>2. sectors \in Nat
  BY <1>1, DivMod
<1>3. r \in Nat /\ r < SectorSize * sectors
  BY <1>1, <1>2 DEF Image
<1>4. q \in Nat /\ m \in Nat /\ r = SectorSize * q + m /\ m < SectorSize
  BY <1>1, <1>3, DivMod
<1>5. q < sectors
  BY <1>1, <1>2, <1>3, QuotientBelow
<1>. HIDE DEF q, m
<1>6. d \div SectorRange = q /\ d % SectorRange = m
  BY <1>1, <1>4, DivUnique
<1>7. d \in Nat /\ d < SectorRange * sectors
  <2>1. SectorRange * q + SectorRange <= SectorRange * sectors
    BY <1>1, <1>2, <1>4, <1>5, WholeParts
  <2>2. SectorRange * q \in Nat /\ SectorRange * sectors \in Nat
    BY <1>1, <1>2, <1>4
  <2>. QED
    BY <1>1, <1>4, <2>1, <2>2
<1>. HIDE DEF sectors
<1>8. DiscOffset(base, r) = base + d /\ DiscOffset(base, r) - base = d
  BY <1>1, <1>4, <1>7 DEF DiscOffset, q, m
<1>9. DiskRange(size) = SectorRange * sectors
  BY <1>1, <1>2 DEF DiskRange, sectors
<1>10. InRange(base, size, DiscOffset(base, r))
  BY <1>1, <1>2, <1>7, <1>8, <1>9 DEF InRange
<1>11. IsUserData(base, DiscOffset(base, r))
  BY <1>4, <1>6, <1>8 DEF IsUserData
<1>12. RamAddress(base, DiscOffset(base, r)) = ImageBase + r
  <2>1. RamAddress(base, DiscOffset(base, r)) = ImageBase + q * SectorSize + m
    BY <1>6, <1>8 DEF RamAddress
  <2>2. q * SectorSize = SectorSize * q /\ SectorSize * q \in Nat
    BY <1>1, <1>4
  <2>. QED
    BY <1>3, <1>4, <2>1, <2>2, DiscMapAssumption
<1>. QED
  BY <1>10, <1>11, <1>12

\* A byte of the disc that ApplyBlock writes to RAM is a byte of the image, and the one
\* that the loader puts there: no mod writes beside the image, and no two bytes of the
\* disc go to the same address.
THEOREM WritesInImage ==
  ASSUME NEW base \in Nat, NEW size \in Nat, NEW offset \in Nat,
         InRange(base, size, offset), IsUserData(base, offset)
  PROVE  /\ RamAddress(base, offset) - ImageBase \in Image(size)
         /\ DiscOffset(base, RamAddress(base, offset) - ImageBase) = offset
<1>. DEFINE sectors == size \div SectorSize
            d == offset - base
            q == d \div SectorRange
            m == d % SectorRange
<1>1. SectorSize \in Nat \ {0} /\ SectorRange \in Nat \ {0} /\ SectorSize <= SectorRange
  BY DiscMapAssumption DEF SectorRange
<1>2. sectors \in Nat
  BY <1>1, DivMod
<1>3. d \in Nat /\ d < SectorRange * sectors /\ offset = base + d
  <2>1. DiskRange(size) = SectorRange * sectors /\ SectorRange * sectors \in Nat
    BY <1>1, <1>2 DEF DiskRange
  <2>. QED
    BY <2>1 DEF InRange
<1>4. q \in Nat /\ m \in Nat /\ d = SectorRange * q + m
  BY <1>1, <1>3, DivMod
<1>5. m < SectorSize
  BY DEF IsUserData
<1>6. q < sectors
  BY <1>1, <1>2, <1>3, QuotientBelow
<1>. HIDE DEF q, m, sectors, d
<1>7. q * SectorSize = SectorSize * q /\ SectorSize * q \in Nat
  BY <1>1, <1>4
<1>8. RamAddress(base, offset) - ImageBase = SectorSize * q + m
  <2>1. RamAddress(base, offset) = ImageBase + q * SectorSize + m
    BY DEF RamAddress, q, m, d
  <2>. QED
    BY <1>4, <1>7, <2>1, DiscMapAssumption
<1>9. SectorSize * q + m \in Image(size)
  <2>1. SectorSize * q + SectorSize <= SectorSize * sectors
    BY <1>1, <1>2, <1>4, <1>6, WholeParts
  <2>2. SectorSize * sectors \in Nat /\ SectorSize * sectors = sectors * SectorSize
    BY <1>1, <1>2
  <2>3. Image(size) = 0 .. sectors * SectorSize - 1
    BY DEF Image, sectors
  <2>. QED
    BY <1>1, <1>4, <1>5, <1>7, <2>1, <2>2, <2>3
<1>10. DiscOffset(base, SectorSize * q + m) = offset
  <2>1. (SectorSize * q + m) \div SectorSize = q /\ (SectorSize * q + m) % SectorSize = m
    BY <1>1, <1>4, <1>5, DivUnique
  <2>2. SectorRange * q \in Nat
    BY <1>1, <1>4
  <2>. QED
    BY <1>3, <1>4, <2>1, <2>2 DEF DiscOffset
<1>. QED
  BY <1>8, <1>9, <1>10

-----------------------------------------------------------------------------
(***************************************************************************)
(* The inductive invariant: a machine whose tray was not opened runs the   *)
(* disc that is inserted, Ketchup is only called with the tray closed when *)
(* the machine has just booted, and the data that ApplyBlock has left then *)
(* is what the image already holds.                                        *)
(***************************************************************************)
MachineType ==
  /\ shell \in BOOLEAN /\ cold \in BOOLEAN
  /\ inserted \in Discs /\ booted \in Discs
  /\ disc \in [Offsets -> Byte] /\ image \in [Offsets -> Byte]
  /\ ram \in [0 .. RamEnd -> Byte]
  /\ file \in Mods \cup {None}
  /\ pc \in {"record", "map"} => file \in Mods /\ next \in Nat \ {0}
  /\ at \in Nat /\ rest \in Seq(Byte)

TrayInv ==
  /\ cold => ~shell /\ booted = inserted
  /\ ~cold /\ pc # "game" => shell

BlockInv ==
  /\ pc # "map" => rest = <<>>
  /\ cold => \A i \in 1 .. Len(rest) : at + i - 1 \in Offsets => image[at + i - 1] = rest[i]

IInv == MachineType /\ TrayInv /\ BlockInv /\ MappedRam

\* The offsets of an executable are on the disc, and its addresses are in RAM.
LEMMA ImageFits ==
  ASSUME NEW d \in Discs, NEW r \in Image(Size(d))
  PROVE  /\ DiscOffset(Base(d), r) \in Offsets
         /\ ImageBase + r \in 0 .. RamEnd
         /\ Base(d) \in Nat /\ Size(d) \in Nat /\ r \in Nat
<1>1. Base(d) \in Nat /\ Size(d) \in Nat /\ Base(d) + DiskRange(Size(d)) \in 0 .. DiscEnd
  BY KetchupAssumption DEF Offsets
<1>2. InRange(Base(d), Size(d), DiscOffset(Base(d), r))
  BY <1>1, ImageCovered
<1>3. r \in Nat /\ ImageBase + r \in 0 .. RamEnd
  BY KetchupAssumption DEF Image
<1>4. SectorRange \in Nat \ {0} /\ SectorSize \in Nat \ {0}
  BY DiscMapAssumption DEF SectorRange
<1>5. r \div SectorSize \in Nat /\ (r % SectorSize) \in Nat
  BY <1>3, <1>4, DivMod
<1>6. SectorRange * (r \div SectorSize) \in Nat
  BY <1>4, <1>5
<1>7. DiscOffset(Base(d), r) \in Nat
  BY <1>1, <1>5, <1>6 DEF DiscOffset
<1>8. DiskRange(Size(d)) \in Nat
  <2>1. Size(d) \div SectorSize \in Nat
    BY <1>1, <1>4, DivMod
  <2>. QED
    BY <1>4, <2>1 DEF DiskRange
<1>9. DiscOffset(Base(d), r) \in Offsets
  BY <1>1, <1>2, <1>7, <1>8, KetchupAssumption DEF InRange, Offsets
<1>. QED
  BY <1>1, <1>3, <1>9

\* A freshly loaded machine has bytes in all of its RAM.
LEMMA LoadedType ==
  ASSUME NEW d \in Discs, NEW bytes \in [Offsets -> Byte]
  PROVE  Loaded(d, bytes) \in [0 .. RamEnd -> Byte]
<1>1. ASSUME NEW a \in 0 .. RamEnd, a - ImageBase \in Image(Size(d))
      PROVE  bytes[DiscOffset(Base(d), a - ImageBase)] \in Byte
  BY <1>1, ImageFits
<1>2. 0 \in Byte
  BY KetchupAssumption
<1>. QED
  BY <1>1, <1>2 DEF Loaded

\* With nothing left of a block, RAM is what the disc is.
LEMMA NothingPending ==
  ASSUME MappedRam, rest = <<>> \/ shell, at \in Nat
  PROVE  \A a \in 0 .. RamEnd : ram[a] = Loaded(booted, image)[a]
<1>1. CASE shell
  BY <1>1 DEF MappedRam, Pending
<1>2. CASE rest = <<>>
  <2>1. Len(rest) = 0
    BY <1>2, EmptySeq
  <2>2. \A o : o \notin at .. at + Len(rest) - 1
    BY <2>1
  <2>. QED
    BY <2>2 DEF MappedRam, Pending
<1>. QED
  BY <1>1, <1>2

-----------------------------------------------------------------------------
(* The steps.                                                              *)

\* RAM as loaded, and nothing pending, is all that the steps of the game have to keep.
LEMMA GameStep ==
  ASSUME IInv, NEW d \in Discs, Boot(d) \/ OpenTray \/ CloseTray \/ Insert(d)
  PROVE  IInv'
<1>1. rest = <<>> /\ rest' = <<>> /\ at' = at /\ file' = file /\ next' = next
      /\ pc' \notin {"record", "map"} /\ at \in Nat
  BY DEF IInv, BlockInv, MachineType, Boot, OpenTray, CloseTray, Insert, reader
<1>2. \A a \in 0 .. RamEnd : ram[a] = Loaded(booted, image)[a]
  BY <1>1, NothingPending DEF IInv
<1>3. Contents[d] \in [Offsets -> Byte]
  BY KetchupAssumption
<1>4. MachineType'
  BY <1>1, <1>3, LoadedType
    DEF IInv, MachineType, Boot, OpenTray, CloseTray, Insert
<1>5. TrayInv'
  BY DEF IInv, TrayInv, MachineType, Boot, OpenTray, CloseTray, Insert
<1>6. BlockInv'
  BY <1>1, EmptySeq DEF BlockInv
<1>7. MappedRam'
  <2>1. \A a \in 0 .. RamEnd : ram'[a] = Loaded(booted', image')[a]
    BY <1>2, <1>3, LoadedType DEF Boot, OpenTray, CloseTray, Insert
  <2>. QED
    BY <2>1 DEF MappedRam, Loaded
<1>. QED
  BY <1>4, <1>5, <1>6, <1>7 DEF IInv

\* So it is for the steps of Ketchup that only read.
LEMMA ReaderStep ==
  ASSUME IInv, Process \/ (\E f \in Mods : NextFile(f)) \/ Finish
  PROVE  IInv'
<1>1. UNCHANGED machine /\ rest = <<>> /\ rest' = <<>> /\ at' = at /\ pc # "game" /\ pc # "map" /\ pc' # "map"
  BY DEF IInv, BlockInv, Process, NextFile, Finish
<1>2. MachineType'
  BY <1>1 DEF IInv, MachineType, machine, Process, NextFile, Finish
<1>3. TrayInv'
  BY <1>1 DEF IInv, TrayInv, machine
<1>4. BlockInv'
  BY <1>1, EmptySeq DEF BlockInv
<1>5. MappedRam'
  BY <1>1 DEF IInv, MappedRam, Pending, Loaded, machine
<1>. QED
  BY <1>2, <1>3, <1>4, <1>5 DEF IInv

\* At the end of a block nothing of it is pending.
LEMMA EndBlockStep ==
  ASSUME IInv, EndBlock
  PROVE  IInv'
<1>1. UNCHANGED machine /\ rest' = <<>> /\ at' = at /\ pc = "map" /\ pc' \in {"files", "record"}
  BY DEF EndBlock
<1>2. \A a \in 0 .. RamEnd : ram[a] = Loaded(booted, image)[a]
  BY NothingPending DEF IInv, EndBlock, MachineType
<1>3. MachineType'
  BY <1>1, EmptySeq DEF IInv, MachineType, machine, EndBlock
<1>4. TrayInv'
  BY <1>1 DEF IInv, TrayInv, machine
<1>5. BlockInv'
  BY <1>1, EmptySeq DEF BlockInv
<1>6. MappedRam'
  BY <1>1, <1>2 DEF MappedRam, Loaded, machine
<1>. QED
  BY <1>3, <1>4, <1>5, <1>6 DEF IInv

\* A record of a file, and the disc it patches.
LEMMA PatchedType ==
  ASSUME NEW bytes \in [Offsets -> Byte], NEW record \in [offset : Nat, data : Seq(Byte)]
  PROVE  /\ Patched(bytes, record) \in [Offsets -> Byte]
         /\ \A i \in 1 .. Len(record.data) :
              record.offset + i - 1 \in Offsets =>
                Patched(bytes, record)[record.offset + i - 1] = record.data[i]
         /\ \A o \in Offsets :
              o \notin record.offset .. record.offset + Len(record.data) - 1 =>
                Patched(bytes, record)[o] = bytes[o]
<1>1. record.offset \in Nat /\ record.data \in Seq(Byte) /\ Len(record.data) \in Nat
  OBVIOUS
<1>2. ASSUME NEW o \in Offsets, o \in record.offset .. record.offset + Len(record.data) - 1
      PROVE  record.data[o - record.offset + 1] \in Byte
  <2>1. o - record.offset + 1 \in 1 .. Len(record.data)
    BY <1>1, <1>2 DEF Offsets
  <2>. QED
    BY <1>1, <2>1, ElementOfSeq
<1>3. Patched(bytes, record) \in [Offsets -> Byte]
  BY <1>2 DEF Patched
<1>4. ASSUME NEW i \in 1 .. Len(record.data), record.offset + i - 1 \in Offsets
      PROVE  Patched(bytes, record)[record.offset + i - 1] = record.data[i]
  <2>1. /\ record.offset + i - 1 \in record.offset .. record.offset + Len(record.data) - 1
        /\ (record.offset + i - 1) - record.offset + 1 = i
    BY <1>1
  <2>. QED
    BY <1>4, <2>1 DEF Patched
<1>. QED
  BY <1>3, <1>4 DEF Patched

\* What is read behind the records goes to the disc alone.
LEMMA TrailerStep ==
  ASSUME IInv, ReadTrailer
  PROVE  IInv'
<1>1. PICK block \in Strays : disc' = Patched(disc, block)
  BY DEF ReadTrailer
<1>2. disc' \in [Offsets -> Byte]
  BY <1>1, PatchedType, KetchupAssumption DEF IInv, MachineType
<1>3. /\ pc = "record" /\ pc' \in {"record", "files"}
      /\ UNCHANGED <<shell, inserted, ram, booted, image, cold, file, next, at, rest>>
  BY DEF ReadTrailer
<1>4. MachineType'
  BY <1>2, <1>3 DEF IInv, MachineType
<1>5. TrayInv' /\ BlockInv'
  BY <1>3 DEF IInv, TrayInv, BlockInv
<1>6. MappedRam'
  BY <1>3 DEF IInv, MappedRam, Pending, Loaded
<1>. QED
  BY <1>4, <1>5, <1>6 DEF IInv

\* The bytes of a record that has just been entered are all pending.
LEMMA ReadRecordStep ==
  ASSUME IInv, ReadRecord
  PROVE  IInv'
<1>. DEFINE record == file.records[next]
<1>1. /\ pc = "record" /\ pc' = "map" /\ rest = <<>> /\ next \in 1 .. Len(file.records)
      /\ disc' = Patched(disc, record)
      /\ image' = IF cold THEN Patched(image, record) ELSE image
      /\ at' = record.offset /\ rest' = record.data
      /\ next' = next + 1
      /\ UNCHANGED <<shell, inserted, ram, booted, cold, todo, file, count, stray>>
  BY KetchupAssumption DEF IInv, MachineType, BlockInv, ReadRecord
<1>2. record \in [offset : Nat, data : Seq(Byte)]
  <2>1. file.records \in Seq([offset : Nat, data : Seq(Byte)])
    BY <1>1, KetchupAssumption DEF IInv, MachineType
  <2>. QED
    BY <1>1, <2>1, ElementOfSeq
<1>. HIDE DEF record
<1>3. MachineType'
  BY <1>1, <1>2, PatchedType DEF IInv, MachineType
<1>4. TrayInv'
  BY <1>1 DEF IInv, TrayInv
<1>5. BlockInv'
  BY <1>1, <1>2, PatchedType DEF IInv, MachineType, BlockInv
<1>6. MappedRam'
  <2>1. \A a \in 0 .. RamEnd : ram[a] = Loaded(booted, image)[a]
    BY <1>1, NothingPending DEF IInv, MachineType
  <2>2. CASE ~cold
    BY <1>1, <2>1, <2>2 DEF MappedRam, Loaded
  <2>3. CASE cold
    <3>. SUFFICES ASSUME NEW a \in 0 .. RamEnd,
                         ram'[a] # Loaded(booted', image')[a]
                  PROVE  /\ a - ImageBase \in Image(Size(booted'))
                         /\ ~shell'
                         /\ DiscOffset(Base(booted'), a - ImageBase) \in at' .. at' + Len(rest') - 1
      BY DEF MappedRam, Pending
    <3>1. a - ImageBase \in Image(Size(booted))
      BY <1>1, <2>1 DEF Loaded
    <3>2. DiscOffset(Base(booted), a - ImageBase) \in Offsets
      BY <3>1, ImageFits DEF IInv, MachineType
    <3>3. image'[DiscOffset(Base(booted), a - ImageBase)] # image[DiscOffset(Base(booted), a - ImageBase)]
      BY <1>1, <2>1, <3>1 DEF Loaded
    <3>4. DiscOffset(Base(booted), a - ImageBase) \in record.offset .. record.offset + Len(record.data) - 1
      BY <1>1, <1>2, <2>3, <3>2, <3>3, PatchedType DEF IInv, MachineType
    <3>. QED
      BY <1>1, <2>3, <3>1, <3>4 DEF IInv, TrayInv
  <2>. QED
    BY <2>2, <2>3 DEF IInv, MachineType
<1>. QED
  BY <1>3, <1>4, <1>5, <1>6 DEF IInv

\* The first of the pending bytes goes where the loader would have put it.
LEMMA MapByteStep ==
  ASSUME IInv, MapByte
  PROVE  IInv'
<1>. DEFINE d == inserted
            mapped == InRange(Base(d), Size(d), at) /\ IsUserData(Base(d), at)
            to == RamAddress(Base(d), at)
<1>1. /\ pc = "map" /\ ~shell /\ rest # <<>> /\ cold /\ booted = d /\ d \in Discs
      /\ at' = at + 1 /\ rest' = Tail(rest)
      /\ ram' = IF mapped THEN [ram EXCEPT ![to] = Head(rest)] ELSE ram
      /\ UNCHANGED <<shell, inserted, disc, booted, image, cold, pc, todo, file, next, count, stray>>
  BY DEF IInv, MachineType, TrayInv, MapByte
<1>2. /\ rest \in Seq(Byte) /\ Len(rest) \in Nat \ {0}
      /\ Head(rest) \in Byte /\ Head(rest) = rest[1]
      /\ rest' \in Seq(Byte) /\ Len(rest') = Len(rest) - 1
      /\ \A i \in 1 .. Len(rest') : rest'[i] = rest[i + 1]
  BY <1>1, HeadTailProperties, EmptySeq DEF IInv, MachineType
<1>3. at \in Nat /\ at' = at + 1
  BY <1>1 DEF IInv, MachineType
<1>4. Base(d) \in Nat /\ Size(d) \in Nat
  BY <1>1, KetchupAssumption
<1>5. ASSUME mapped
      PROVE  /\ to - ImageBase \in Image(Size(d))
             /\ to \in 0 .. RamEnd
             /\ Head(rest) = Loaded(booted, image)[to]
  <2>1. to - ImageBase \in Image(Size(d)) /\ DiscOffset(Base(d), to - ImageBase) = at
    BY <1>3, <1>4, <1>5, WritesInImage
  <2>2. at \in Offsets /\ ImageBase + (to - ImageBase) \in 0 .. RamEnd
    BY <1>1, <2>1, ImageFits
  <2>3. to \in Int
    <3>1. at - Base(d) \in Nat
      BY <1>3, <1>4, <1>5 DEF InRange
    <3>2. SectorSize \in Nat /\ SectorRange \in Nat \ {0} /\ ImageBase \in Nat
      BY DiscMapAssumption DEF SectorRange
    <3>3. (at - Base(d)) \div SectorRange \in Nat /\ ((at - Base(d)) % SectorRange) \in Nat
      BY <3>1, <3>2, DivMod
    <3>4. ((at - Base(d)) \div SectorRange) * SectorSize \in Nat
      BY <3>2, <3>3
    <3>. QED
      BY <3>2, <3>3, <3>4 DEF RamAddress
  <2>4. to \in 0 .. RamEnd
    BY <2>2, <2>3, DiscMapAssumption
  <2>5. image[at] = rest[1]
    BY <1>1, <1>2, <1>3, <2>2 DEF IInv, BlockInv
  <2>. QED
    BY <1>1, <1>2, <2>1, <2>4, <2>5 DEF Loaded
<1>6. ASSUME NEW a \in 0 .. RamEnd, a - ImageBase \in Image(Size(d)),
             DiscOffset(Base(d), a - ImageBase) = at
      PROVE  mapped /\ to = a
  <2>1. RamAddress(Base(d), DiscOffset(Base(d), a - ImageBase)) = ImageBase + (a - ImageBase)
    BY <1>4, <1>6, ImageCovered
  <2>2. ImageBase + (a - ImageBase) = a
    BY DiscMapAssumption
  <2>. QED
    BY <1>4, <1>6, <2>1, <2>2, ImageCovered
<1>. HIDE DEF mapped, to
<1>7. MachineType'
  BY <1>1, <1>2, <1>3, <1>5 DEF IInv, MachineType
<1>8. TrayInv'
  BY <1>1 DEF IInv, TrayInv
<1>9. BlockInv'
  <2>. SUFFICES ASSUME NEW i \in 1 .. Len(rest'), at' + i - 1 \in Offsets
                PROVE  image[at' + i - 1] = rest'[i]
    BY <1>1 DEF BlockInv
  <2>1. i + 1 \in 1 .. Len(rest) /\ at' + i - 1 = at + (i + 1) - 1
    BY <1>2, <1>3
  <2>. QED
    BY <1>1, <1>2, <2>1 DEF IInv, BlockInv
<1>10. MappedRam'
  <2>. SUFFICES ASSUME NEW a \in 0 .. RamEnd,
                       ram'[a] # Loaded(booted, image)[a]
                PROVE  /\ a - ImageBase \in Image(Size(booted))
                       /\ DiscOffset(Base(booted), a - ImageBase) \in at' .. at' + Len(rest') - 1
    BY <1>1 DEF MappedRam, Pending, Loaded
  <2>1. ram[a] # Loaded(booted, image)[a] /\ ~(mapped /\ a = to)
    BY <1>1, <1>5 DEF IInv, MachineType
  <2>2. /\ a - ImageBase \in Image(Size(booted))
        /\ DiscOffset(Base(booted), a - ImageBase) \in at .. at + Len(rest) - 1
    BY <2>1 DEF IInv, MappedRam, Pending
  <2>3. DiscOffset(Base(booted), a - ImageBase) # at
    BY <1>1, <1>6, <2>1, <2>2
  <2>. QED
    BY <1>2, <1>3, <2>2, <2>3
<1>. QED
  BY <1>7, <1>8, <1>9, <1>10 DEF IInv

LEMMA InitIInv == Init => IInv
<1> SUFFICES ASSUME Init PROVE IInv
  OBVIOUS
<1>1. Contents[inserted] \in [Offsets -> Byte] /\ rest = <<>> /\ rest \in Seq(Byte) /\ Len(rest) = 0
  BY KetchupAssumption, EmptySeq DEF Init
<1>2. MachineType
  BY <1>1, LoadedType DEF Init, MachineType
<1>3. TrayInv /\ BlockInv
  BY <1>1 DEF Init, TrayInv, BlockInv
<1>4. MappedRam
  BY DEF Init, MappedRam
<1>. QED
  BY <1>2, <1>3, <1>4 DEF IInv

LEMMA NextIInv == IInv /\ [Next]_vars => IInv'
<1> SUFFICES ASSUME IInv, [Next]_vars PROVE IInv'
  OBVIOUS
<1>1. ASSUME NEW d \in Discs, Boot(d) \/ Insert(d)
      PROVE  IInv'
  BY <1>1, GameStep
<1>2. CASE OpenTray \/ CloseTray
  BY <1>2, GameStep DEF IInv, MachineType
<1>3. CASE Process \/ (\E f \in Mods : NextFile(f)) \/ Finish
  BY <1>3, ReaderStep
<1>4. CASE ReadRecord
  BY <1>4, ReadRecordStep
<1>5. CASE MapByte
  BY <1>5, MapByteStep
<1>6. CASE EndBlock
  BY <1>6, EndBlockStep
<1>7. CASE UNCHANGED vars
  BY <1>7 DEF vars, machine, reader, IInv, MachineType, TrayInv, BlockInv, MappedRam, Pending, Loaded
<1>8. CASE ReadTrailer
  BY <1>8, TrailerStep
<1>. QED
  BY <1>1, <1>2, <1>3, <1>4, <1>5, <1>6, <1>7, <1>8 DEF Next, KetchupStep

\* A machine runs the executable of the disc it booted from as the mods of its boot patch
\* it, byte for byte, through every later disc change, for any sector sizes and any mods,
\* also those with a FILE_ID.DIZ that ApplyPPF3 never comes to the end of.
THEOREM MappedRamTheorem == Safety => []MappedRam
<1>1. Init => IInv
  BY InitIInv
<1>2. IInv /\ [Next]_vars => IInv'
  BY NextIInv
<1>3. IInv => MappedRam
  BY DEF IInv
<1>. QED
  BY <1>1, <1>2, <1>3, PTL DEF Safety
-----------------------------------------------------------------------------
(* The records of a file, one behind the other.                            *)

\* A set of numbers has a least one.
LEMMA Least ==
  ASSUME NEW T \in SUBSET Nat, T # {}
  PROVE  \E n \in T : \A m \in T : n <= m
<1>1. PICK n \in T : \A m \in T : <<m, n>> \notin OpToRel(<, Nat)
  BY WFMin, NatLessThanWellFounded, Zenon
<1>2. \A m \in T : ~(m < n)
  BY <1>1, Zenon DEF OpToRel
<1>. QED
  BY <1>2

\* The records of a file, and their sizes.
LEMMA RecordsOfFile ==
  ASSUME NEW f \in Mods
  PROVE  /\ Len(f.records) \in Nat \ {0}
         /\ \A i \in 1 .. Len(f.records) :
              /\ f.records[i] \in [offset : Nat, data : Seq(Byte)]
              /\ RecordBytes(f, f.records[i]) \in Nat \ {0}
              /\ Counted(f, f.records[i]) = RecordBytes(f, f.records[i])
<1>1. f.records \in Seq([offset : Nat, data : Seq(Byte)]) /\ f.records # <<>> /\ f.undo \in BOOLEAN
  BY KetchupAssumption
<1>2. Len(f.records) \in Nat \ {0}
  BY <1>1, EmptySeq
<1>3. ASSUME NEW i \in 1 .. Len(f.records)
      PROVE  /\ f.records[i] \in [offset : Nat, data : Seq(Byte)]
             /\ RecordBytes(f, f.records[i]) \in Nat \ {0}
             /\ Counted(f, f.records[i]) = RecordBytes(f, f.records[i])
  <2>1. f.records[i] \in [offset : Nat, data : Seq(Byte)]
    BY <1>1, ElementOfSeq
  <2>. DEFINE r == f.records[i]
              l == Len(r.data)
  <2>2. l \in Nat
    BY <2>1
  <2>3. /\ RecordBytes(f, r) = 9 + (IF f.undo THEN 2 ELSE 1) * l
        /\ Counted(f, r) = (l + 9) + (IF f.undo THEN l ELSE 0)
    BY <2>2 DEF RecordBytes, Counted
  <2>. HIDE DEF r, l
  <2>4. RecordBytes(f, r) \in Nat \ {0} /\ Counted(f, r) = RecordBytes(f, r)
    BY <2>2, <2>3
  <2>. QED
    BY <2>1, <2>4, Zenon DEF r
<1>. QED
  BY <1>2, <1>3

\* The recursive function has the value its definition says: there is one such function.
LEMMA RecordEndValue ==
  ASSUME NEW f \in Mods
  PROVE  RecordEnd(f) =
           [i \in 0 .. Len(f.records) |->
              IF i = 0 THEN 0 ELSE RecordEnd(f)[i - 1] + RecordBytes(f, f.records[i])]
<1>. DEFINE n == Len(f.records)
            size(i) == RecordBytes(f, f.records[i])
            Upto(k) == {g \in [0 .. k -> Nat] :
                          g[0] = 0 /\ \A i \in 1 .. k : g[i] = g[i - 1] + size(i)}
            Missing == {k \in 0 .. n : Upto(k) = {}}
<1>1. n \in Nat /\ \A i \in 1 .. n : size(i) \in Nat
  BY RecordsOfFile
<1>. HIDE DEF n, size
<1>2. ASSUME Missing # {} PROVE FALSE
  <2>1. PICK k \in Missing : \A m \in Missing : k <= m
    <3>1. Missing \in SUBSET Nat
      BY <1>1
    <3>. QED
      BY <1>2, <3>1, Least, Zenon
  <2>2. CASE k = 0
    <3>1. [i \in 0 .. 0 |-> 0] \in Upto(0)
      OBVIOUS
    <3>. QED
      BY <2>1, <2>2, <3>1
  <2>3. CASE k # 0
    <3>1. k - 1 \in 0 .. n /\ k \in 1 .. n /\ ~(k <= k - 1)
      BY <1>1, <2>1, <2>3
    <3>2. PICK g \in Upto(k - 1) : TRUE
      BY <2>1, <3>1
    <3>. DEFINE h == [i \in 0 .. k |-> IF i = k THEN g[k - 1] + size(k) ELSE g[i]]
    <3>3. h \in Upto(k)
      BY <1>1, <3>1, <3>2
    <3>. QED
      BY <2>1, <3>3
  <2>. QED
    BY <2>2, <2>3
<1>3. PICK g \in Upto(n) : TRUE
  BY <1>1, <1>2
<1>4. g = [i \in 0 .. n |-> IF i = 0 THEN 0 ELSE g[i - 1] + size(i)]
  BY <1>1, <1>3
<1>. HIDE DEF Upto
<1>5. RecordEnd(f) = CHOOSE e : e = [i \in 0 .. n |-> IF i = 0 THEN 0 ELSE e[i - 1] + size(i)]
  BY Zenon DEF RecordEnd, n, size
<1>6. RecordEnd(f) = [i \in 0 .. n |-> IF i = 0 THEN 0 ELSE RecordEnd(f)[i - 1] + size(i)]
  BY <1>4, <1>5, Zenon
<1>. QED
  BY <1>6 DEF n, size

\* The ends of the records are numbers.
LEMMA RecordEnds ==
  ASSUME NEW f \in Mods
  PROVE  /\ RecordEnd(f) \in [0 .. Len(f.records) -> Nat]
         /\ RecordEnd(f)[0] = 0
         /\ \A i \in 1 .. Len(f.records) :
              RecordEnd(f)[i] = RecordEnd(f)[i - 1] + RecordBytes(f, f.records[i])
<1>. DEFINE n == Len(f.records)
            e == RecordEnd(f)
            size(i) == RecordBytes(f, f.records[i])
            Odd == {k \in 0 .. n : e[k] \notin Nat}
<1>1. n \in Nat /\ \A i \in 1 .. n : size(i) \in Nat
  BY RecordsOfFile
<1>2. e = [i \in 0 .. n |-> IF i = 0 THEN 0 ELSE e[i - 1] + size(i)]
  BY RecordEndValue
<1>. HIDE DEF n, size, e
<1>3. e[0] = 0 /\ \A i \in 1 .. n : e[i] = e[i - 1] + size(i)
  BY <1>1, <1>2
<1>4. ASSUME Odd # {} PROVE FALSE
  <2>1. PICK k \in Odd : \A m \in Odd : k <= m
    <3>1. Odd \in SUBSET Nat
      BY <1>1
    <3>. QED
      BY <1>4, <3>1, Least, Zenon
  <2>2. k \in 1 .. n /\ k - 1 \in 0 .. n /\ ~(k <= k - 1)
    BY <1>1, <1>3, <2>1
  <2>3. e[k - 1] \in Nat
    BY <2>1, <2>2
  <2>. QED
    BY <1>1, <1>3, <2>1, <2>2, <2>3
<1>5. e \in [0 .. n -> Nat]
  BY <1>2, <1>4
<1>. QED
  BY <1>3, <1>5 DEF n, size, e

\* Each record ends behind those before it.
LEMMA EndsGrow ==
  ASSUME NEW f \in Mods, NEW i \in 0 .. Len(f.records), NEW j \in 0 .. Len(f.records), i < j
  PROVE  RecordEnd(f)[i] < RecordEnd(f)[j]
<1>. DEFINE n == Len(f.records)
            e == RecordEnd(f)
            Early == {k \in 0 .. n : i < k /\ ~(e[i] < e[k])}
<1>1. /\ n \in Nat
      /\ e \in [0 .. n -> Nat]
      /\ \A k \in 1 .. n : e[k - 1] < e[k]
  <2>1. n \in Nat /\ e \in [0 .. n -> Nat]
    BY RecordsOfFile, RecordEnds
  <2>2. ASSUME NEW k \in 1 .. n PROVE e[k - 1] < e[k]
    <3>1. e[k - 1] \in Nat
      BY <2>1
    <3>2. e[k] = e[k - 1] + RecordBytes(f, f.records[k]) /\ RecordBytes(f, f.records[k]) \in Nat \ {0}
      BY RecordsOfFile, RecordEnds
    <3>. HIDE DEF e
    <3>. QED
      BY <3>1, <3>2
  <2>. QED
    BY <2>1, <2>2
<1>. HIDE DEF n, e
<1>2. i \in 0 .. n /\ j \in 0 .. n
  BY DEF n
<1>3. ASSUME Early # {} PROVE FALSE
  <2>1. PICK k \in Early : \A m \in Early : k <= m
    <3>1. Early \in SUBSET Nat
      BY <1>1
    <3>. QED
      BY <1>3, <3>1, Least, Zenon
  <2>2. /\ k \in 1 .. n /\ k - 1 \in 0 .. n /\ ~(k <= k - 1)
        /\ k - 1 = i \/ i < k - 1
    BY <1>1, <1>2, <2>1
  <2>3. e[i] <= e[k - 1]
    BY <1>1, <1>2, <2>1, <2>2
  <2>. QED
    BY <1>1, <1>2, <2>1, <2>2, <2>3
<1>. QED
  BY <1>2, <1>3 DEF n, e

\* Something is behind the header of every file: its records and what else there is.
LEMMA BehindHeader ==
  ASSUME NEW f \in Mods
  PROVE  FileSize(f) - Header(f) \in Nat
<1>. DEFINE b == RecordEnd(f)[Len(f.records)]
            t == IF f.file_id = None THEN 0 ELSE f.file_id + 18 + 16 + 2
            h == Header(f)
<1>1. b \in Nat
  BY RecordsOfFile, RecordEnds
<1>2. t \in Nat
  BY KetchupAssumption
<1>3. h \in Nat
  BY DEF Header
<1>4. FileSize(f) = h + b + t
  BY DEF FileSize
<1>. HIDE DEF b, t, h
<1>. QED
  BY <1>1, <1>2, <1>3, <1>4 DEF h

\* The count starts with the records if the file ends with them.
LEMMA StartCounts ==
  ASSUME NEW f \in Mods, NEW length \in FileId(f)
  PROVE  /\ StartCount(f, length) \in Int
         /\ f.file_id = None => /\ StartCount(f, length) <= FileSize(f) - Header(f)
                                /\ StartCount(f, length) = RecordEnd(f)[Len(f.records)]
<1>. DEFINE b == RecordEnd(f)[Len(f.records)]
            t == IF f.file_id = None THEN 0 ELSE f.file_id + 18 + 16 + 2
            h == Header(f)
<1>1. b \in Nat
  BY RecordsOfFile, RecordEnds
<1>2. t \in Nat
  BY KetchupAssumption
<1>3. h \in Nat
  BY DEF Header
<1>4. length \in Int /\ (f.file_id = None => length = 0)
  <2>1. CASE f.file_id = None
    BY <2>1 DEF FileId
  <2>2. CASE f.file_id # None
    <3>1. PICK u \in UpperHalves : length = f.file_id + HalfWord * u
      BY <2>2 DEF FileId
    <3>2. f.file_id \in Nat /\ u \in Int /\ HalfWord \in Int
      BY <2>2, KetchupAssumption
    <3>3. HalfWord * u \in Int
      BY <3>2
    <3>. QED
      BY <2>2, <3>1, <3>2, <3>3
  <2>. QED
    BY <2>1, <2>2
<1>5. FileSize(f) = h + b + t
  BY DEF FileSize
<1>6. StartCount(f, length) = (FileSize(f) - h) - (IF length # 0 THEN length + 18 + 16 + 2 ELSE 0)
  BY DEF StartCount
<1>7. f.file_id = None => t = 0
  OBVIOUS
<1>. HIDE DEF b, t, h
<1>. QED
  BY <1>1, <1>2, <1>3, <1>4, <1>5, <1>6, <1>7 DEF b, h

-----------------------------------------------------------------------------
(***************************************************************************)
(* What the reader of a file relies on: in a file without FILE_ID.DIZ the  *)
(* count is at every turn of the loop what the records that are not read   *)
(* yet take, so that it is 0 behind the last of them and nowhere else.     *)
(***************************************************************************)
ReaderType ==
  /\ stray \in BOOLEAN
  /\ pc \in {"game", "process", "files", "record", "map"}
  /\ todo \subseteq Mods
  /\ pc \in {"process", "game"} => file = None
  /\ pc \in {"record", "map"} => /\ file # None
                                 /\ next \in 1 .. Len(file.records) + 1
                                 /\ count \in Nat \cup {-1}
                                 /\ file.file_id = None => count <= FileSize(file) - Header(file)
  /\ pc = "map" => next > 1

Left(f, i) == RecordEnd(f)[Len(f.records)] - RecordEnd(f)[i - 1]

CountInv ==
  file # None /\ file.file_id = None =>
    /\ ~stray
    /\ pc = "record" => next <= Len(file.records) /\ count = Left(file, next)
    /\ pc = "map" => count = Left(file, next - 1)
    /\ pc = "files" => next = Len(file.records) + 1

ReaderInv == ReaderType /\ CountInv

\* A step of the game, before Ketchup or between two calls of it.
LEMMA GameReads ==
  ASSUME MachineType, ReaderInv, NEW d \in Discs, Boot(d) \/ OpenTray \/ CloseTray \/ Insert(d)
  PROVE  ReaderInv'
<1>1. pc = "game" /\ pc' \in {"game", "process"} /\ UNCHANGED reader
  BY DEF Boot, OpenTray, CloseTray, Insert
<1>. QED
  BY <1>1 DEF ReaderInv, ReaderType, CountInv, reader

\* The folder is opened or has been read.
LEMMA FolderReads ==
  ASSUME MachineType, ReaderInv, Process \/ Finish
  PROVE  ReaderInv'
<1>1. file' = None /\ stray' \in BOOLEAN /\ todo' \subseteq Mods /\ pc' \in {"files", "game"}
  BY DEF ReaderInv, ReaderType, Process, Finish
<1>. QED
  BY <1>1 DEF ReaderInv, ReaderType, CountInv

\* A file is opened: all of its records are left.
LEMMA NextFileReads ==
  ASSUME MachineType, ReaderInv, NEW f \in Mods, NextFile(f)
  PROVE  ReaderInv'
<1>1. CASE ~f.ppf
  <2>1. pc = "files" /\ todo' \subseteq Mods /\ UNCHANGED <<pc, file, next, count, stray>>
    BY <1>1 DEF NextFile, ReaderInv, ReaderType
  <2>. QED
    BY <2>1 DEF ReaderInv, ReaderType, CountInv, Left
<1>2. CASE f.ppf
  <2>1. /\ file' = f /\ next' = 1 /\ stray' = FALSE /\ pc' = "record"
        /\ todo' \subseteq Mods
    BY <1>2 DEF NextFile, ReaderInv, ReaderType
  <2>2. PICK length \in FileId(f) : count' = NoLess(StartCount(f, length))
    BY <1>2 DEF NextFile
  <2>3. Len(f.records) \in Nat \ {0} /\ f # None
    BY RecordsOfFile, KetchupAssumption
  <2>4. /\ count' \in Nat \cup {-1}
        /\ f.file_id = None => count' <= FileSize(f) - Header(f)
    BY <2>2, StartCounts, BehindHeader DEF NoLess
  <2>5. f.file_id = None => count' = Left(f, 1)
    <3>1. RecordEnd(f)[Len(f.records)] \in Nat /\ RecordEnd(f)[1 - 1] = 0
      BY <2>3, RecordEnds
    <3>. QED
      BY <2>2, <3>1, StartCounts DEF NoLess, Left
  <2>6. next' \in 1 .. Len(f.records) + 1 /\ next' <= Len(f.records)
    <3>. DEFINE n == Len(f.records)
    <3>1. n \in Nat \ {0} /\ next' = 1
      BY <2>1, <2>3
    <3>. HIDE DEF n
    <3>2. next' \in 1 .. n + 1 /\ next' <= n
      BY <3>1
    <3>. QED
      BY <3>2 DEF n
  <2>7. ReaderType'
    BY <2>1, <2>3, <2>4, <2>6 DEF ReaderType
  <2>8. CountInv'
    BY <2>1, <2>5, <2>6 DEF CountInv, Left
  <2>. QED
    BY <2>7, <2>8 DEF ReaderInv
<1>. QED
  BY <1>1, <1>2

\* A record is read; the count still has it.
LEMMA RecordReads ==
  ASSUME MachineType, ReaderInv, ReadRecord
  PROVE  ReaderInv'
<1>1. /\ pc = "record" /\ pc' = "map" /\ next <= Len(file.records) /\ next' = next + 1
      /\ UNCHANGED <<todo, file, count, stray>>
  BY DEF ReadRecord
<1>2. file \in Mods /\ Len(file.records) \in Nat /\ next \in Nat \ {0}
  BY <1>1, RecordsOfFile DEF MachineType
<1>3. next' - 1 = next /\ next' > 1 /\ next' \in 1 .. Len(file.records) + 1
  BY <1>1, <1>2
<1>. QED
  BY <1>1, <1>3 DEF ReaderInv, ReaderType, CountInv

\* Only in a file with a FILE_ID.DIZ anything behind the records is read.
LEMMA TrailerReads ==
  ASSUME MachineType, ReaderInv, ReadTrailer
  PROVE  ReaderInv'
<1>1. /\ pc = "record" /\ next > Len(file.records) /\ stray' = TRUE
      /\ pc' \in {"record", "files"}
      /\ UNCHANGED <<todo, file, next>>
  BY DEF ReadTrailer
<1>2. file \in Mods /\ Len(file.records) \in Nat /\ next \in Nat
  BY <1>1, RecordsOfFile DEF MachineType
<1>3. file # None /\ file.file_id # None
  BY <1>1, <1>2 DEF ReaderInv, ReaderType, CountInv
<1>4. PICK block \in Strays : count' = NoLess(count - Counted(file, block))
  BY DEF ReadTrailer
<1>5. Counted(file, block) \in Nat
  <2>. DEFINE l == Len(block.data)
  <2>1. l \in Nat
    BY KetchupAssumption
  <2>2. Counted(file, block) = (l + 9) + (IF file.undo THEN l ELSE 0)
    BY DEF Counted
  <2>. HIDE DEF l
  <2>. QED
    BY <2>1, <2>2
<1>6. count' \in Nat \cup {-1}
  <2>. DEFINE c == Counted(file, block)
  <2>1. c \in Nat /\ count' = NoLess(count - c)
    BY <1>4, <1>5
  <2>2. count \in Nat \cup {-1}
    BY <1>1 DEF ReaderInv, ReaderType
  <2>. HIDE DEF c
  <2>. QED
    BY <2>1, <2>2 DEF NoLess
<1>. QED
  BY <1>1, <1>2, <1>3, <1>6 DEF ReaderInv, ReaderType, CountInv

\* The end of a turn: the count is without the record, and 0 only after the last one.
LEMMA BlockReads ==
  ASSUME MachineType, ReaderInv, EndBlock
  PROVE  ReaderInv'
<1>. DEFINE f == file
            n == Len(f.records)
            i == next - 1
            c == Counted(f, f.records[i])
            e == RecordEnd(f)
            size == FileSize(f) - Header(f)
<1>1. /\ pc = "map" /\ pc' = IF count' = 0 THEN "files" ELSE "record"
      /\ count' = NoLess(count - c)
      /\ UNCHANGED <<todo, file, next, stray>>
  BY DEF EndBlock
<1>2. f \in Mods /\ f # None /\ n \in Nat /\ i \in 1 .. n /\ next = i + 1 /\ next \in 1 .. n + 1
  BY <1>1, RecordsOfFile DEF MachineType, ReaderInv, ReaderType
<1>3. c \in Nat \ {0} /\ e \in [0 .. n -> Nat] /\ e[i] = e[i - 1] + c
  BY <1>2, RecordsOfFile, RecordEnds
<1>4. \A k \in 0 .. n : k < n => e[k] < e[n]
  BY <1>2, EndsGrow
<1>5. count \in Nat \cup {-1} /\ (f.file_id = None => count <= size)
  BY <1>1, <1>2 DEF ReaderInv, ReaderType
<1>6. f.file_id = None => ~stray /\ count = e[n] - e[i - 1]
  BY <1>1, <1>2 DEF ReaderInv, CountInv, Left
<1>7. size \in Nat
  BY <1>2, BehindHeader
<1>. HIDE DEF f, n, i, c, e, size
<1>8. count' \in Nat \cup {-1} /\ (f.file_id = None => count' <= size)
  BY <1>1, <1>3, <1>5, <1>7 DEF NoLess
<1>9. ASSUME f.file_id = None
      PROVE  /\ count' = e[n] - e[i]
             /\ count' = 0 <=> i = n
  <2>1. e[i - 1] \in Nat /\ e[i] \in Nat /\ e[n] \in Nat /\ e[i] <= e[n] /\ (i = n \/ e[i] < e[n])
    BY <1>2, <1>3, <1>4
  <2>2. count - c = e[n] - e[i]
    BY <1>3, <1>6, <1>9, <2>1
  <2>3. count' = e[n] - e[i]
    BY <1>1, <2>1, <2>2 DEF NoLess
  <2>. QED
    BY <2>1, <2>3
<1>10. ReaderType'
  BY <1>1, <1>2, <1>8 DEF ReaderInv, ReaderType, f, n, size
<1>11. CountInv'
  <2>1. f.file_id = None =>
          /\ ~stray
          /\ count' # 0 => next <= n /\ count' = e[n] - e[next - 1]
          /\ count' = 0 => next = n + 1
    BY <1>2, <1>6, <1>9
  <2>. QED
    BY <1>1, <2>1 DEF CountInv, Left, f, n, e
<1>. QED
  BY <1>10, <1>11 DEF ReaderInv

LEMMA InitReads == Init => ReaderInv
  BY DEF Init, ReaderInv, ReaderType, CountInv

LEMMA NextReads == MachineType /\ ReaderInv /\ [Next]_vars => ReaderInv'
<1> SUFFICES ASSUME MachineType, ReaderInv, [Next]_vars PROVE ReaderInv'
  OBVIOUS
<1>1. ASSUME NEW d \in Discs, Boot(d) \/ Insert(d)
      PROVE  ReaderInv'
  BY <1>1, GameReads
<1>2. CASE OpenTray \/ CloseTray
  BY <1>2, GameReads DEF MachineType
<1>3. CASE Process \/ Finish
  BY <1>3, FolderReads
<1>4. ASSUME NEW f \in Mods, NextFile(f)
      PROVE  ReaderInv'
  BY <1>4, NextFileReads
<1>5. CASE ReadRecord
  BY <1>5, RecordReads
<1>6. CASE ReadTrailer
  BY <1>6, TrailerReads
<1>7. CASE MapByte
  BY <1>7 DEF MapByte, ReaderInv, ReaderType, CountInv, Left
<1>8. CASE EndBlock
  BY <1>8, BlockReads
<1>9. CASE UNCHANGED vars
  BY <1>9 DEF vars, reader, ReaderInv, ReaderType, CountInv, Left
<1>. QED
  BY <1>1, <1>2, <1>3, <1>4, <1>5, <1>6, <1>7, <1>8, <1>9 DEF Next, KetchupStep

LEMMA Invariance == Safety => [](IInv /\ ReaderInv)
<1>1. Init => IInv /\ ReaderInv
  BY InitIInv, InitReads
<1>2. IInv /\ ReaderInv /\ [Next]_vars => (IInv /\ ReaderInv)'
  <2>1. IInv => MachineType
    BY DEF IInv
  <2>. QED
    BY <2>1, NextIInv, NextReads
<1>. QED
  BY <1>1, <1>2, PTL DEF Safety

\* Every reachable state has its type, for whatever the upper half of MetaPPF_FileId's int
\* holds, and of a file without FILE_ID.DIZ ApplyPPF3 never counts more than is behind the
\* header.
THEOREM TypeCorrect == Safety => []TypeOK
<1>1. IInv /\ ReaderInv => TypeOK
  BY DEF IInv, MachineType, ReaderInv, ReaderType, TypeOK
<1>. QED
  BY <1>1, Invariance, PTL

\* Of a file without FILE_ID.DIZ every record is read and nothing else, for any header,
\* any number of records and with or without undo data.
THEOREM RecordsOnlyTheorem == Safety => []RecordsOnly
<1>1. IInv /\ ReaderInv => RecordsOnly
  BY DEF ReaderInv, CountInv, RecordsOnly
<1>. QED
  BY <1>1, Invariance, PTL
-----------------------------------------------------------------------------
(* The folders of the discs.                                               *)

\* A set that has another element has more than one.
LEMMA MoreThanOne ==
  ASSUME NEW S, IsFiniteSet(S), NEW x \in S
  PROVE  Cardinality(S) > 1 <=> S # {x}
<1>1. Cardinality({x}) = 1 /\ IsFiniteSet({x}) /\ Cardinality(S) \in Nat
  BY FS_Singleton, FS_CardinalityType
<1>2. 1 <= Cardinality(S) /\ (Cardinality(S) = 1 => S = {x})
  BY <1>1, FS_Subset
<1>. QED
  BY <1>1, <1>2

\* A disc has a title, a version of it and a disc of that version.
LEMMA DiscParts ==
  ASSUME NEW d \in Discs
  PROVE  /\ d[1] \in Titles /\ d[2] \in d[1].versions /\ d[3] \in d[2].disks
         /\ d = <<d[1], d[2], d[3]>>
  BY DEF Discs

\* RootPath gives every disc the folder that is listed for it.
LEMMA RootPathIsListed ==
  ASSUME NEW d \in Discs
  PROVE  RootPath(d[1], d[2], d[3]) = Listed(d)
<1>1. IsFiniteSet(d[1].versions) /\ IsFiniteSet(d[2].disks)
  BY DiscParts, TitlesAssumption
<1>2. /\ Cardinality(d[1].versions) > 1 <=> d[1].versions # {d[2]}
      /\ Cardinality(d[2].disks) > 1 <=> d[2].disks # {d[3]}
  BY <1>1, DiscParts, MoreThanOne
<1>. QED
  BY <1>2 DEF RootPath, Listed

\* No two discs have the same folder, nor the same name.
LEMMA FoldersDiffer ==
  ASSUME NEW d \in Discs, NEW other \in Discs,
         Listed(d) = Listed(other) \/ DiscName(d) = DiscName(other)
  PROVE  d = other
<1>1. d[1] = other[1]
  <2>1. d[1].name = other[1].name \/ d[1].id = other[1].id
    BY DEF Listed, DiscName
  <2>. QED
    BY <2>1, DiscParts, TitlesAssumption
<1>2. d[2] = other[2]
  <2>1. d[2] \in d[1].versions /\ other[2] \in d[1].versions /\ d[1] \in Titles
    BY <1>1, DiscParts
  <2>2. d[2] # other[2] => d[2].name = other[2].name
    BY <1>1, <2>1 DEF Listed, DiscName
  <2>. QED
    BY <2>1, <2>2, TitlesAssumption
<1>3. d[3] = other[3]
  <2>1. /\ d[3] \in d[2].disks /\ other[3] \in d[2].disks
        /\ d[2] \in d[1].versions /\ d[1] \in Titles
    BY <1>2, DiscParts
  <2>2. d[3] # other[3] => d[3].id = other[3].id
    BY <1>2, <2>1 DEF Listed, DiscName
  <2>. QED
    BY <2>1, <2>2, TitlesAssumption
<1>. QED
  BY <1>1, <1>2, <1>3, DiscParts

\* The files in the folder of a disc are the files for it.
LEMMA FolderOfDisc ==
  ASSUME NEW d \in Discs, NEW f \in Mods
  PROVE  f.folder = RootPath(d[1], d[2], d[3]) <=> f.home = DiscName(d)
<1>1. CASE \E other \in Discs : f.home = DiscName(other) /\ f.folder = Listed(other)
  <2>1. PICK other \in Discs : f.home = DiscName(other) /\ f.folder = Listed(other)
    BY <1>1
  <2>. QED
    BY <2>1, RootPathIsListed, FoldersDiffer
<1>2. CASE f.home = None /\ \A other \in Discs : f.folder # Listed(other)
  BY <1>2, RootPathIsListed, TitlesAssumption
<1>. QED
  BY <1>1, <1>2, FiledAssumption

\* Whatever discs were inserted before, a disc gets the files in the folder that is listed
\* for it, all of them and no other, for any table of titles, versions and discs.
THEOREM OwnFolderTheorem == Safety => OwnFolder
<1>1. IInv /\ [Next]_vars =>
        [pc = "process" => todo' = {f \in Mods : f.home = DiscName(inserted)}]_vars
  <2>. SUFFICES ASSUME IInv, Next, pc = "process"
                PROVE  todo' = {f \in Mods : f.home = DiscName(inserted)}
    OBVIOUS
  <2>1. Process
    BY DEF Next, KetchupStep, Boot, Insert, OpenTray, CloseTray, NextFile, Finish, ReadRecord,
           ReadTrailer, MapByte, EndBlock
  <2>2. inserted \in Discs
    BY DEF IInv, MachineType
  <2>. QED
    BY <2>1, <2>2, FolderOfDisc DEF Process
<1>. QED
  BY <1>1, Invariance, PTL DEF Safety, OwnFolder
=============================================================================
