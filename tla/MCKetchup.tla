------------------------------ MODULE MCKetchup ------------------------------
(* Ketchup on discs of ten bytes, in sectors of two bytes and one around   *)
(* them: a title with two versions, one of two discs, and a title with one *)
(* version, with executables of two sectors and of one; two bytes count to *)
(* 40.                                                                     *)
EXTENDS Ketchup

Disk(id, base, size) == [id |-> id, ram_base |-> base, size |-> size]

MCTitles ==
  {[id |-> 99, name |-> "INTEGRAL",
    versions |-> {[name |-> "INTEGRAL", disks |-> {Disk(0, 2, 5), Disk(1, 1, 4)}],
                  [name |-> "VR-DISK", disks |-> {Disk(0, 3, 3)}]}],
   [id |-> 981, name |-> "MGS1_US",
    versions |-> {[name |-> "USA", disks |-> {Disk(0, 2, 4)}]}]}

MCContents == [d \in Discs |-> [o \in Offsets |-> IF o = 4 /\ d[3].id = 0 THEN 1 ELSE 0]]

Record(offset, data) == [offset |-> offset, data |-> data]

Folder(title, version, disk) == [title |-> title, version |-> version, disk |-> disk]

Mod(folder, home, ppf, block_check, undo, file_id, records) ==
  [folder |-> folder, home |-> home, ppf |-> ppf, block_check |-> block_check, undo |-> undo,
   file_id |-> file_id, records |-> records]

IntegralOne == <<99, "INTEGRAL", 0>>
IntegralTwo == <<99, "INTEGRAL", 1>>
VRDisk == <<99, "VR-DISK", 0>>
Usa == <<981, "USA", 0>>

MCMods ==
  {Mod(Folder("INTEGRAL", "INTEGRAL", 0), IntegralOne, TRUE, TRUE, TRUE, None,
       <<Record(1, <<1, 1, 1, 1, 1>>), Record(5, <<1>>), Record(6, <<0, 1>>)>>),
   Mod(Folder("INTEGRAL", "INTEGRAL", 0), IntegralOne, TRUE, FALSE, FALSE, None,
       <<Record(2, <<0, 1>>), Record(8, <<1, 1>>)>>),
   Mod(Folder("INTEGRAL", "INTEGRAL", 0), IntegralOne, FALSE, FALSE, FALSE, None,
       <<Record(2, <<1>>)>>),
   Mod(Folder("INTEGRAL", "INTEGRAL", 1), IntegralTwo, TRUE, FALSE, TRUE, None,
       <<Record(0, <<1, 1, 1>>)>>),
   Mod(Folder("INTEGRAL", None, 0), None, TRUE, FALSE, FALSE, None, <<Record(3, <<1>>)>>),
   Mod(Folder("INTEGRAL", "VR-DISK", None), VRDisk, TRUE, FALSE, FALSE, None,
       <<Record(3, <<1, 1, 1, 1>>)>>),
   Mod(Folder("MGS1_US", None, None), Usa, TRUE, TRUE, FALSE, 7, <<Record(4, <<1, 1>>), Record(2, <<1>>)>>)}

MCUpperHalves == {-1, 0, 1}
MCStrays == {Record(3, <<1>>), Record(9, <<0, 0>>)}
=============================================================================
