------------------------------- MODULE RamPatch -------------------------------
(***************************************************************************)
(* The filter of RAM patches (sqhook.cpp, SQNative_setRamValue).  The      *)
(* game's scripts have a list of patches and apply one by calling          *)
(* setRamValue for each of its elements, from its offset on; they set      *)
(* other values by the same function.  With the option DisableRAM the mod  *)
(* drops the calls of a patch.  It only sees the calls, and knows a patch  *)
(* by the offset of its first one.                                         *)
(***************************************************************************)
EXTENDS Integers, Sequences

CONSTANTS
  PatchLists,  \* What s_ram_patch_binary may be: sequences of patches,
  OtherOffsets,\* and the other values that scripts set.
  Segment,     \* The size of a segment, 0x1000000 in the code,
  Exempt       \* and 0x200000, the offset that is never filtered.

\* Faulty variant: the segment of the offset stays in it.
PatchOffsetInFull(patch) == patch.offset

PatchOffset(patch) == patch.offset % Segment

ASSUME RamPatchAssumption ==
  /\ Segment \in Nat \ {0} /\ Exempt \in Nat \ {0}
  /\ PatchLists \subseteq Seq([offset : Nat, length : Nat])
  /\ OtherOffsets \subseteq Nat

VARIABLES
  bPatchesDisableRAM,
  address, length, index,  \* The statics of the function.
  patches,                 \* The present s_ram_patch_binary.
  applied,                 \* The patch that is being applied, 0 for none,
  calls,                   \* and how many calls it has had.
  dropped, owner,          \* The last call: whether it was dropped, and its patch or 0.
  misled                   \* Whether a call was taken for one of a patch that it is not of, and
                           \* the filter and the scripts have not both been at rest since.

statics == <<address, length, index>>
ramVars == <<bPatchesDisableRAM, statics, patches, applied, calls, dropped, owner, misled>>

RamPatchInit ==
  /\ bPatchesDisableRAM \in BOOLEAN
  /\ address = 0 /\ length = 0 /\ index = 0
  /\ patches = <<>> /\ applied = 0 /\ calls = 0
  /\ dropped = FALSE /\ owner = 0 /\ misled = FALSE

-----------------------------------------------------------------------------
(* The first patch of the list that has the offset, 0 for none.            *)
Match(offset) ==
  LET hits == {i \in DOMAIN patches : PatchOffset(patches[i]) = offset}
  IN  IF hits = {} THEN 0 ELSE CHOOSE i \in hits : \A j \in hits : i <= j

\* The address and length the filter goes by in a call.
Address(offset) == IF address = 0 /\ Match(offset) # 0 THEN offset ELSE address
Length(offset) == IF address = 0 /\ Match(offset) # 0 THEN patches[Match(offset)].length ELSE length

\* Faulty variant: the patch is forgotten one call too early.
CountEarly(offset) ==
  LET a == Address(offset)
      n == Length(offset)
  IN  /\ dropped' = (a # 0 /\ bPatchesDisableRAM /\ a # Exempt)
      /\ IF a # 0 /\ n # 0 /\ index + 2 >= n THEN address' = 0 /\ length' = 0 /\ index' = 0
         ELSE /\ address' = a /\ length' = n
              /\ index' = IF a # 0 /\ n # 0 THEN index + 1 ELSE index

\* SQNative_setRamValue.  A patch at offset 0 leaves its length behind and is not filtered; one
\* without elements is never forgotten.
setRamValue(offset) ==
  LET a == Address(offset)
      n == Length(offset)
  IN  /\ dropped' = (a # 0 /\ bPatchesDisableRAM /\ a # Exempt)
      /\ IF a # 0 /\ n # 0 /\ index + 1 = n THEN address' = 0 /\ length' = 0 /\ index' = 0
         ELSE /\ address' = a /\ length' = n
              /\ index' = IF a # 0 /\ n # 0 THEN index + 1 ELSE index

-----------------------------------------------------------------------------
(* The scripts.                                                            *)

\* A script that is loaded, or a title that is started, brings another list.
DefinePatches(list) ==
  /\ applied = 0
  /\ patches' = list
  /\ owner' = 0 /\ dropped' = FALSE
  /\ UNCHANGED <<bPatchesDisableRAM, statics, applied, calls, misled>>

ApplyPatch(i) ==
  /\ applied = 0 /\ patches[i].length > 0
  /\ applied' = i /\ calls' = 0
  /\ UNCHANGED <<bPatchesDisableRAM, statics, patches, dropped, owner, misled>>

StillMisled == misled /\ (address # 0 \/ calls # 0)

\* What the filter goes by is the first call of a patch.  It is misled by another patch that is
\* at the same offset, comes first and has another length, and inside a patch at offset 0.
PatchCall ==
  /\ applied # 0
  /\ LET patch == patches[applied]
         offset == PatchOffset(patch) + calls
     IN  /\ setRamValue(offset)
         /\ misled' = (StillMisled \/ /\ Match(offset) # 0
                                      /\ IF PatchOffset(patch) = 0 THEN offset # 0
                                         ELSE calls = 0 /\ patches[Match(offset)].length # patch.length)
         /\ owner' = applied
         /\ IF calls + 1 = patch.length THEN applied' = 0 /\ calls' = 0
            ELSE calls' = calls + 1 /\ UNCHANGED applied
  /\ UNCHANGED <<bPatchesDisableRAM, patches>>

\* Another value is set, in the middle of a patch perhaps: taken for a patch if one begins there,
\* and for a call of the patch that the filter has.
OtherCall(offset) ==
  /\ setRamValue(offset)
  /\ misled' = (StillMisled \/ (Match(offset) # 0 /\ offset # 0) \/ (applied # 0 /\ address # 0))
  /\ owner' = 0
  /\ UNCHANGED <<bPatchesDisableRAM, patches, applied, calls>>

RamPatchNext ==
  \/ \E list \in PatchLists : DefinePatches(list)
  \/ \E i \in DOMAIN patches : ApplyPatch(i)
  \/ PatchCall
  \/ \E offset \in OtherOffsets : OtherCall(offset)

RamPatchSpec == RamPatchInit /\ [][RamPatchNext]_ramVars

-----------------------------------------------------------------------------
(* Properties.                                                             *)

RamPatchTypeOK ==
  /\ bPatchesDisableRAM \in BOOLEAN
  /\ address \in 0 .. Segment - 1 /\ length \in Nat /\ index \in Nat
  /\ patches \in PatchLists \cup {<<>>}
  /\ applied \in DOMAIN patches \cup {0} /\ calls \in Nat
  /\ dropped \in BOOLEAN /\ owner \in DOMAIN patches \cup {0} /\ misled \in BOOLEAN

Filtered(i) == i # 0 /\ PatchOffset(patches[i]) \notin {0, Exempt}

\* Over any sequence of patches and other calls, lists that change and calls inside a patch
\* included, exactly the calls of patches that are not at 0 or at the exempted offset are dropped
\* if the option is on, and none if it is not.  A filter that was misled, by a call that it has
\* counted for a patch it is not of or by one that is where a patch begins, is right again as
\* soon as it has forgotten what it took for a patch and no patch is being applied.  What it does
\* until then is not said, nor that it comes to it: a patch without data is never forgotten
\* (sqhook.cpp:479-514).
FilteredExactly ==
  /\ dropped => bPatchesDisableRAM
  /\ ~misled /\ bPatchesDisableRAM => (dropped <=> Filtered(owner))
=============================================================================
