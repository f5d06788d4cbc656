------------------------------- MODULE Ketchup -------------------------------
(***************************************************************************)
(* The mod loader (ketchup.cpp).  When the game has patched the disc that  *)
(* is inserted, SQHook's hook of set_disk_patch lets Ketchup patch it too: *)
(* every PPF3 file in the mod folder of the disc is read record by record, *)
(* each record is entered as a patch of the disc, and the bytes of it that *)
(* belong to the executable, which a booting machine has in RAM already,   *)
(* are written there as well.                                              *)
(*                                                                         *)
(* The game and the machine are external: a boot leaves the executable of  *)
(* the disc in RAM, a later disc change leaves RAM alone, a change of the  *)
(* disc drops the patches, and of two patches the later one counts.        *)
(***************************************************************************)
EXTENDS DiscMap, FiniteSets, Sequences

CONSTANTS
  Titles,      \* MGS1_Ketchup: [id, name, versions], versions [name, disks], disks [id, ram_base, size].
  Mods,        \* The files: [folder, home, ppf, block_check, undo, file_id, records].
  Contents,    \* The bytes of the original discs.
  DiscEnd,     \* Bounds the disc.
  RamEnd,      \* Bounds the RAM.
  Byte,
  HalfWord,    \* What two bytes can count to, 0x10000 in the code.
  UpperHalves, \* What the two upper bytes of a signed int that are not read can hold.
  Strays,      \* What a FILE_ID.DIZ and the end of the file read as: [offset, data].
  None

\* The discs of the game, each with its title and version.
Discs ==
  UNION {UNION {{<<t, v, d>> : d \in v.disks} : v \in t.versions} : t \in Titles}

\* What GetTitle, GetVersion and GetDisk say of a disc.
DiscName(disc) == <<disc[1].id, disc[2].name, disc[3].id>>

Offsets == 0 .. DiscEnd
Base(disc) == disc[3].ram_base
Size(disc) == disc[3].size

ASSUME KetchupAssumption ==
  /\ \A disc \in Discs :
       /\ Base(disc) \in Nat /\ Size(disc) \in Nat
       /\ Base(disc) + DiskRange(Size(disc)) \in Offsets
       /\ Contents[disc] \in [Offsets -> Byte]
       /\ \A r \in Image(Size(disc)) : ImageBase + r \in 0 .. RamEnd
  /\ \A f \in Mods : /\ f.records \in Seq([offset : Nat, data : Seq(Byte)])
                     /\ f.records # <<>>
                     /\ f.file_id \in (0 .. HalfWord - 1) \cup {None}
                     /\ {f.ppf, f.block_check, f.undo} \subseteq BOOLEAN
  /\ None \notin Mods
  /\ DiscEnd \in Nat /\ RamEnd \in Nat /\ 0 \in Byte
  /\ HalfWord \in Nat /\ UpperHalves \subseteq Int
  /\ Strays \subseteq [offset : Nat, data : Seq(Byte)]

\* No two titles, versions of a title or discs of a version have the same name or number.
ASSUME TitlesAssumption ==
  /\ \A t, u \in Titles : t.name = u.name \/ t.id = u.id => t = u
  /\ \A t \in Titles : /\ IsFiniteSet(t.versions)
                       /\ \A v, w \in t.versions : v.name = w.name => v = w
                       /\ \A v \in t.versions : /\ IsFiniteSet(v.disks)
                                                /\ \A d, e \in v.disks : d.id = e.id => d = e
  /\ \A disc \in Discs : DiscName(disc) # None

\* The folder that README.md lists for a disc: a title that has only one version, and a
\* version that has only one disc, need no folder for it.
Listed(disc) ==
  [title   |-> disc[1].name,
   version |-> IF disc[1].versions = {disc[2]} THEN None ELSE disc[2].name,
   disk    |-> IF disc[2].disks = {disc[3]} THEN None ELSE disc[3].id]

\* A file is in the folder that is listed for its disc, or in none that is listed.
ASSUME FiledAssumption ==
  \A f \in Mods :
    \/ \E disc \in Discs : f.home = DiscName(disc) /\ f.folder = Listed(disc)
    \/ f.home = None /\ \A disc \in Discs : f.folder # Listed(disc)

VARIABLES
  shell,     \* SQHook::CdRomShellOpen.
  inserted,  \* The disc that GetTitle, GetVersion and GetDisk name.
  disc,      \* Its bytes, with the patches.
  ram,       \* The memory of the machine.
  booted,    \* The disc that the machine booted from,
  image,     \* its bytes, with the records of the mods it had then,
  cold,      \* and whether it has not been taken out since.
  pc,        \* "game", or where Ketchup is: "process", "files", "record", "map".
  todo,      \* The files of the folder that are not read yet.
  file,      \* The file that is read,
  next,      \* its next record,
  count,     \* the bytes that ApplyPPF3 thinks are left; -1 is any negative number,
  stray,     \* and whether anything but its records has been read as one.
  at, rest   \* ApplyBlock's offset and the data that is left.

machine == <<shell, inserted, disc, ram, booted, image, cold>>
reader == <<todo, file, next, count, stray, at, rest>>
vars == <<machine, pc, reader>>

\* A freshly booted machine has the executable of its disc in RAM, and zeroes around it.
Loaded(d, bytes) ==
  [a \in 0 .. RamEnd |->
     IF a - ImageBase \in Image(Size(d)) THEN bytes[DiscOffset(Base(d), a - ImageBase)] ELSE 0]

Init ==
  /\ shell = FALSE /\ cold = TRUE
  /\ inserted \in Discs /\ booted = inserted
  /\ disc = Contents[inserted] /\ image = disc
  /\ ram = Loaded(inserted, disc)
  /\ pc = "process"
  /\ todo = {} /\ file = None /\ next = 1 /\ count = 0 /\ stray = FALSE
  /\ at = 0 /\ rest = <<>>

-----------------------------------------------------------------------------
(* The game.                                                               *)

Boot(d) ==
  /\ pc = "game"
  /\ shell' = FALSE /\ cold' = TRUE
  /\ inserted' = d /\ booted' = d
  /\ disc' = Contents[d] /\ image' = Contents[d]
  /\ ram' = Loaded(d, Contents[d])
  /\ pc' = "process"
  /\ UNCHANGED reader

\* setCdRomShellOpen, of a machine that runs.
OpenTray ==
  /\ pc = "game" /\ ~shell
  /\ shell' = TRUE /\ cold' = FALSE
  /\ UNCHANGED <<inserted, disc, ram, booted, image, pc, reader>>

CloseTray ==
  /\ pc = "game" /\ shell
  /\ shell' = FALSE
  /\ UNCHANGED <<inserted, disc, ram, booted, image, cold, pc, reader>>

Insert(d) ==
  /\ pc = "game" /\ shell
  /\ inserted' = d /\ disc' = Contents[d]
  /\ pc' = "process"
  /\ UNCHANGED <<shell, ram, booted, image, cold, reader>>

-----------------------------------------------------------------------------
(* Process, ProcessTitle, ProcessVersion and ProcessDisk.                  *)

\* Faulty variant: the version has no folder of its own.
RootPathNoVersion(t, v, d) ==
  [title |-> t.name, version |-> None,
   disk |-> IF Cardinality(v.disks) > 1 THEN d.id ELSE None]

\* A folder of the title, in it one of the version if there are several, and in it one of
\* the disc if there are several.
RootPath(t, v, d) ==
  [title |-> t.name,
   version |-> IF Cardinality(t.versions) > 1 THEN v.name ELSE None,
   disk |-> IF Cardinality(v.disks) > 1 THEN d.id ELSE None]

Process ==
  /\ pc = "process"
  /\ todo' = {f \in Mods : f.folder = RootPath(inserted[1], inserted[2], inserted[3])}
  /\ file' = None /\ stray' = FALSE
  /\ pc' = "files"
  /\ UNCHANGED <<machine, next, count, at, rest>>

\* MetaPPF_FileId: the length of the FILE_ID.DIZ that a file may end with, or 0.  Two of
\* the four bytes of a signed int are read, the others are what they were.
FileId(f) ==
  IF f.file_id = None THEN {0} ELSE {f.file_id + HalfWord * u : u \in UpperHalves}

\* A PPF3 file: a header with or without a validation block, the records, each with its
\* offset, its length and its data, once more if the file can be undone, and a FILE_ID.DIZ.
Header(f) == IF f.block_check THEN 1084 ELSE 60

RecordBytes(f, record) == 8 + 1 + (IF f.undo THEN 2 ELSE 1) * Len(record.data)

\* Where each of the records ends, counted from the header.
RecordEnd(f) ==
  LET end[i \in 0 .. Len(f.records)] ==
        IF i = 0 THEN 0 ELSE end[i - 1] + RecordBytes(f, f.records[i])
  IN  end

FileSize(f) ==
  Header(f) + RecordEnd(f)[Len(f.records)]
            + (IF f.file_id = None THEN 0 ELSE f.file_id + 18 + 16 + 2)

\* Faulty variant: the validation block is not counted.
StartCountShortHeader(f, length) ==
  (FileSize(f) - 60) - (IF length # 0 THEN length + 18 + 16 + 2 ELSE 0)

StartCount(f, length) ==
  (FileSize(f) - Header(f)) - (IF length # 0 THEN length + 18 + 16 + 2 ELSE 0)

\* Faulty variants: the undo data, and the length byte, are not counted.
CountedNoUndo(f, record) == Len(record.data) + 9
CountedShort(f, record) == (Len(record.data) + 8) + (IF f.undo THEN Len(record.data) ELSE 0)

\* What ApplyPPF3 counts for a record.
Counted(f, record) == (Len(record.data) + 9) + (IF f.undo THEN Len(record.data) ELSE 0)

NoLess(n) == IF n < 0 THEN -1 ELSE n

\* The directory iterator gives the files in any order; a file that is no PPF3 is skipped.
NextFile(f) ==
  /\ pc = "files" /\ f \in todo
  /\ todo' = todo \ {f}
  /\ IF f.ppf
       THEN /\ file' = f /\ next' = 1 /\ stray' = FALSE
            /\ \E length \in FileId(f) : count' = NoLess(StartCount(f, length))
            /\ pc' = "record"
       ELSE UNCHANGED <<pc, file, next, count, stray>>
  /\ UNCHANGED <<machine, at, rest>>

Finish ==
  /\ pc = "files" /\ todo = {}
  /\ file' = None
  /\ pc' = "game"
  /\ UNCHANGED <<machine, todo, next, count, stray, at, rest>>

-----------------------------------------------------------------------------
(* ApplyPPF3 and ApplyBlock.                                               *)

Patched(bytes, record) ==
  [o \in Offsets |->
     IF o \in record.offset .. record.offset + Len(record.data) - 1
       THEN record.data[o - record.offset + 1]
       ELSE bytes[o]]

\* A record is read and entered as a patch of the disc.
ReadRecord ==
  /\ pc = "record" /\ next <= Len(file.records)
  /\ LET record == file.records[next]
     IN  /\ disc' = Patched(disc, record)
         /\ image' = IF cold THEN Patched(image, record) ELSE image
         /\ at' = record.offset /\ rest' = record.data
  /\ next' = next + 1
  /\ pc' = "map"
  /\ UNCHANGED <<shell, inserted, ram, booted, cold, todo, file, count, stray>>

\* Behind the records there is the FILE_ID.DIZ, and at the end of the file a read leaves
\* what was read before. Text taken for eight bytes of an offset is beyond four, which no
\* byte of an executable is, so that RAM is left alone; the disc gets the block at the
\* offset that is left when EntryCdRomPatch has cut it to the width of an SQInteger.
ReadTrailer ==
  /\ pc = "record" /\ next > Len(file.records)
  /\ stray' = TRUE
  /\ \E block \in Strays :
       /\ disc' = Patched(disc, block)
       /\ count' = NoLess(count - Counted(file, block))
  /\ pc' = IF count' = 0 THEN "files" ELSE "record"
  /\ UNCHANGED <<shell, inserted, ram, booted, image, cold, todo, file, next, at, rest>>

\* Faulty variant: RAM is written whether the tray is open or not.
MapByteAlways ==
  /\ pc = "map" /\ rest # <<>>
  /\ IF InRange(Base(inserted), Size(inserted), at) /\ IsUserData(Base(inserted), at)
       THEN ram' = [ram EXCEPT ![RamAddress(Base(inserted), at)] = Head(rest)]
       ELSE UNCHANGED ram
  /\ at' = at + 1 /\ rest' = Tail(rest)
  /\ UNCHANGED <<shell, inserted, disc, booted, image, cold, pc, todo, file, next, count, stray>>

\* One byte of the block: with the tray closed, the bytes of the executable go to RAM.
MapByte ==
  /\ pc = "map" /\ ~shell /\ rest # <<>>
  /\ IF InRange(Base(inserted), Size(inserted), at) /\ IsUserData(Base(inserted), at)
       THEN ram' = [ram EXCEPT ![RamAddress(Base(inserted), at)] = Head(rest)]
       ELSE UNCHANGED ram
  /\ at' = at + 1 /\ rest' = Tail(rest)
  /\ UNCHANGED <<shell, inserted, disc, booted, image, cold, pc, todo, file, next, count, stray>>

\* The end of the loop of ApplyPPF3.
EndBlock ==
  /\ pc = "map" /\ (shell \/ rest = <<>>)
  /\ count' = NoLess(count - Counted(file, file.records[next - 1]))
  /\ pc' = IF count' = 0 THEN "files" ELSE "record"
  /\ rest' = <<>>
  /\ UNCHANGED <<machine, todo, file, next, stray, at>>

-----------------------------------------------------------------------------
KetchupStep ==
  Process \/ (\E f \in Mods : NextFile(f)) \/ Finish \/ ReadRecord \/ ReadTrailer \/ MapByte
          \/ EndBlock

Next ==
  \/ \E d \in Discs : Boot(d) \/ Insert(d)
  \/ OpenTray
  \/ CloseTray
  \/ KetchupStep

Safety == Init /\ [][Next]_vars

\* Ketchup runs to its end on the thread of the game.
Spec == Safety /\ WF_vars(KetchupStep)

-----------------------------------------------------------------------------
(* Properties.                                                             *)

\* Every variable has its type, and ApplyPPF3 never thinks that more is left of a file
\* without FILE_ID.DIZ than is behind its header.
TypeOK ==
  /\ shell \in BOOLEAN /\ cold \in BOOLEAN /\ stray \in BOOLEAN
  /\ inserted \in Discs /\ booted \in Discs
  /\ disc \in [Offsets -> Byte] /\ image \in [Offsets -> Byte]
  /\ ram \in [0 .. RamEnd -> Byte]
  /\ pc \in {"game", "process", "files", "record", "map"}
  /\ todo \subseteq Mods
  /\ file \in Mods \cup {None}
  /\ pc \in {"record", "map"} => /\ file # None
                                 /\ next \in 1 .. Len(file.records) + 1
                                 /\ count \in Nat \cup {-1}
                                 /\ file.file_id = None => count <= FileSize(file) - Header(file)
  /\ at \in Nat /\ rest \in Seq(Byte)

\* The machine runs the executable of the disc it booted from, as the records of all mods
\* of that disc that were loaded at its boot patch it, and nothing else is written, be it
\* read behind the records; the bytes that ApplyBlock has not come to yet are the only
\* exception.  A disc change does not touch the program that runs ("If tray is open this
\* isn't a cold boot", ApplyBlock).
Pending(o) == ~shell /\ o \in at .. at + Len(rest) - 1

MappedRam ==
  \A a \in 0 .. RamEnd :
    \/ ram[a] = Loaded(booted, image)[a]
    \/ /\ a - ImageBase \in Image(Size(booted))
       /\ Pending(DiscOffset(Base(booted), a - ImageBase))

\* A disc gets the mods of the folder that the README has for it, whether its title has
\* several versions and the version several discs or not: all of them, and none of the
\* other disc or of the other version.
OwnFolder ==
  [][pc = "process" =>
       todo' = {f \in Mods : f.home = DiscName(inserted)}]_vars

\* Of a file without FILE_ID.DIZ, the records are read and all of them are, whatever
\* header and undo data it has: ApplyPPF3 keeps count of the bytes, not of the records.
RecordsOnly ==
  file # None /\ file.file_id = None =>
    ~stray /\ (pc = "files" /\ file.ppf => next = Len(file.records) + 1)

\* A folder of such files is loaded and the game goes on.
ProcessEnds == (pc = "files" /\ \A f \in todo : f.file_id = None) ~> pc = "game"

\* README.md: "It currently supports PPF3 format mods": nothing but the records of a file
\* is taken for one.
NoStray == ~stray
=============================================================================
