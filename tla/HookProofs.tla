------------------------------ MODULE HookProofs ------------------------------
(* Proofs about three hooks that share no state: the filter of RAM patches *)
(* and the list of scripts for any patches, scripts and coroutines, and    *)
(* the look-up of a configuration value for any sizes and addresses.       *)
EXTENDS ScriptCallbacks, ConfigLookup, WellFoundedInduction, TLAPS

\* The least of some numbers.
LEMMA Least ==
  ASSUME NEW T \in SUBSET Nat, T # {}
  PROVE  \E n \in T : \A m \in T : n <= m
<1>1. PICK n \in T : \A m \in T : <<m, n>> \notin OpToRel(<, Nat)
  BY WFMin, NatLessThanWellFounded, Zenon
<1>2. \A m \in T : ~(m < n)
  BY <1>1, Zenon DEF OpToRel
<1>. QED
  BY <1>2

-----------------------------------------------------------------------------
(* The filter of RAM patches.                                              *)

\* The filter counts from nothing, and a patch that is being applied has calls left.
CallsInv ==
  /\ address = 0 => index = 0
  /\ IF applied = 0 THEN calls = 0 ELSE calls < patches[applied].length

\* A filter that is not misled has the patch that is being applied and counts its calls, from
\* the first one on and if it is not at 0; else it has none.
AlignedInv ==
  ~misled =>
    IF applied = 0 \/ calls = 0 \/ PatchOffset(patches[applied]) = 0
      THEN address = 0
      ELSE /\ address = PatchOffset(patches[applied]) /\ length = patches[applied].length
           /\ index = calls

RamInv == RamPatchTypeOK /\ CallsInv /\ AlignedInv /\ FilteredExactly

\* The elements of a list of patches, and where they begin in their segment.
LEMMA PatchType ==
  ASSUME RamPatchTypeOK, NEW i \in DOMAIN patches
  PROVE  /\ i \in Nat \ {0}
         /\ patches[i].offset \in Nat /\ patches[i].length \in Nat
         /\ PatchOffset(patches[i]) \in 0 .. Segment - 1
<1>1. patches \in Seq([offset : Nat, length : Nat])
  BY RamPatchAssumption DEF RamPatchTypeOK
<1>2. i \in Nat \ {0} /\ patches[i] \in [offset : Nat, length : Nat]
  <2> DEFINE Patch == [offset : Nat, length : Nat]
  <2> HIDE DEF Patch
  <2>1. patches \in Seq(Patch)
    BY <1>1 DEF Patch
  <2>2. i \in Nat \ {0} /\ patches[i] \in Patch
    BY <2>1
  <2>. QED
    BY <2>2 DEF Patch
<1>3. \A o \in Nat : o % Segment \in 0 .. Segment - 1
  BY RamPatchAssumption
<1>. QED
  BY <1>2, <1>3 DEF PatchOffset

\* What the filter finds is a patch at that offset, and it finds one if there is one.
LEMMA MatchFinds ==
  ASSUME RamPatchTypeOK, NEW offset
  PROVE  /\ Match(offset) # 0 => /\ Match(offset) \in DOMAIN patches
                                 /\ PatchOffset(patches[Match(offset)]) = offset
         /\ \A i \in DOMAIN patches : PatchOffset(patches[i]) = offset => Match(offset) # 0
<1> DEFINE hits == {i \in DOMAIN patches : PatchOffset(patches[i]) = offset}
<1>1. \A i \in hits : i \in Nat \ {0}
  BY PatchType
<1>2. CASE hits = {}
  BY <1>2, Zenon DEF Match
<1>3. CASE hits # {}
  <2>1. \E i \in hits : \A j \in hits : i <= j
    <3> HIDE DEF hits
    <3>. QED
      BY <1>1, <1>3, Least
  <2>2. Match(offset) = CHOOSE i \in hits : \A j \in hits : i <= j
    BY <1>3, Zenon DEF Match
  <2>3. Match(offset) \in hits
    BY <2>1, <2>2, Zenon
  <2>. QED
    BY <1>1, <2>3
<1>. QED
  BY <1>2, <1>3

\* The state that a call of the filter leaves has its types.
LEMMA FilterType ==
  ASSUME RamPatchTypeOK, NEW offset \in Nat, setRamValue(offset)
  PROVE  /\ address' \in 0 .. Segment - 1 /\ length' \in Nat /\ index' \in Nat
         /\ dropped' \in BOOLEAN
<1>1. Address(offset) \in 0 .. Segment - 1 /\ Length(offset) \in Nat
  BY MatchFinds, PatchType DEF Address, Length, RamPatchTypeOK
<1>. QED
  BY <1>1, RamPatchAssumption DEF setRamValue, RamPatchTypeOK

\* A filter at rest stays at rest in a call that it does not take for a patch.
LEMMA RestCall ==
  ASSUME RamPatchTypeOK, CallsInv, NEW offset \in Nat, setRamValue(offset),
         address = 0, Match(offset) = 0 \/ offset = 0
  PROVE  address' = 0 /\ index' = 0 /\ ~dropped'
<1>1. Address(offset) = 0
  BY DEF Address
<1>. QED
  BY <1>1 DEF setRamValue, CallsInv

LEMMA PatchCallStep ==
  ASSUME RamInv, PatchCall
  PROVE  RamInv'
<1> DEFINE patch == patches[applied]
           offset == PatchOffset(patch) + calls
<1>1. /\ applied \in DOMAIN patches /\ applied # 0 /\ owner' = applied
      /\ setRamValue(offset)
      /\ UNCHANGED <<bPatchesDisableRAM, patches>>
      /\ IF calls + 1 = patch.length THEN applied' = 0 /\ calls' = 0
         ELSE calls' = calls + 1 /\ UNCHANGED applied
      /\ misled' = (StillMisled \/ /\ Match(offset) # 0
                                   /\ IF PatchOffset(patch) = 0 THEN offset # 0
                                      ELSE calls = 0 /\ patches[Match(offset)].length
                                                           # patch.length)
  BY Zenon DEF PatchCall, RamInv, RamPatchTypeOK
<1>2. /\ calls \in Nat /\ patch.length \in Nat /\ calls < patch.length
      /\ PatchOffset(patch) \in Nat /\ offset \in Nat
  BY <1>1, PatchType, RamPatchAssumption DEF RamInv, RamPatchTypeOK, CallsInv
<1>3. RamPatchTypeOK'
  <2>1. misled' \in BOOLEAN
    BY <1>1 DEF StillMisled, RamInv, RamPatchTypeOK
  <2>2. /\ address' \in 0 .. Segment - 1 /\ length' \in Nat /\ index' \in Nat
        /\ dropped' \in BOOLEAN
    BY <1>1, <1>2, FilterType DEF RamInv
  <2>. QED
    BY <1>1, <1>2, <2>1, <2>2 DEF RamInv, RamPatchTypeOK
<1>4. CallsInv'
  <2>1. address' = 0 => index' = 0
    <3>1. Address(offset) = 0 => address = 0
      BY DEF Address
    <3>. QED
      BY <1>1, <3>1 DEF setRamValue, RamInv, CallsInv
  <2>. QED
    BY <1>1, <1>2, <2>1 DEF CallsInv
<1>5. dropped' => bPatchesDisableRAM'
  BY <1>1 DEF setRamValue
<1>6. ASSUME ~misled' PROVE AlignedInv' /\ (bPatchesDisableRAM' => (dropped' <=> Filtered(owner)'))
  <2>1. calls # 0 => ~misled
    BY <1>1, <1>6 DEF StillMisled
  <2>2. CASE PatchOffset(patch) = 0
    <3>1. address = 0 /\ (Match(offset) = 0 \/ offset = 0)
      <4>1. calls = 0 => address = 0
        BY <1>1, <1>6 DEF StillMisled, RamInv, AlignedInv
      <4>. QED
        BY <1>1, <1>6, <2>1, <2>2, <4>1 DEF RamInv, AlignedInv
    <3>2. address' = 0 /\ ~dropped'
      BY <1>1, <1>2, <3>1, RestCall DEF RamInv
    <3>. QED
      BY <1>1, <2>2, <3>2 DEF AlignedInv, Filtered, PatchOffset
  <2>3. CASE PatchOffset(patch) # 0
    <3>1. /\ Address(offset) = PatchOffset(patch) /\ Length(offset) = patch.length
          /\ index = calls
      <4>1. CASE calls = 0
        <5>1. address = 0 /\ index = 0
          BY <1>1, <1>6, <4>1 DEF StillMisled, RamInv, AlignedInv, CallsInv
        <5>2. offset = PatchOffset(patch) /\ Match(offset) # 0
          BY <1>1, <1>2, <4>1, MatchFinds DEF RamInv
        <5>. QED
          BY <1>1, <1>6, <2>3, <4>1, <5>1, <5>2 DEF Address, Length
      <4>2. CASE calls # 0
        BY <1>1, <2>1, <2>3, <4>2 DEF RamInv, AlignedInv, Address, Length
      <4>. QED
        BY <4>1, <4>2
    <3>2. dropped' = (bPatchesDisableRAM /\ PatchOffset(patch) # Exempt)
      BY <1>1, <2>3, <3>1 DEF setRamValue
    <3>3. AlignedInv'
      <4>1. CASE calls + 1 = patch.length
        BY <1>1, <1>2, <2>3, <3>1, <4>1 DEF setRamValue, AlignedInv
      <4>2. CASE calls + 1 # patch.length
        BY <1>1, <1>2, <2>3, <3>1, <4>2 DEF setRamValue, AlignedInv, PatchOffset
      <4>. QED
        BY <4>1, <4>2
    <3>. QED
      BY <1>1, <2>3, <3>2, <3>3 DEF Filtered, PatchOffset
  <2>. QED
    BY <2>2, <2>3
<1>. QED
  BY <1>3, <1>4, <1>5, <1>6 DEF RamInv, AlignedInv, FilteredExactly

LEMMA OtherCallStep ==
  ASSUME RamInv, NEW offset \in OtherOffsets, OtherCall(offset)
  PROVE  RamInv'
<1>1. /\ owner' = 0 /\ setRamValue(offset) /\ offset \in Nat
      /\ misled' = (StillMisled \/ (Match(offset) # 0 /\ offset # 0)
                                \/ (applied # 0 /\ address # 0))
      /\ UNCHANGED <<bPatchesDisableRAM, patches, applied, calls>>
  BY RamPatchAssumption DEF OtherCall
<1>2. RamPatchTypeOK'
  <2>1. misled' \in BOOLEAN
    BY <1>1 DEF StillMisled, RamInv, RamPatchTypeOK
  <2>2. /\ address' \in 0 .. Segment - 1 /\ length' \in Nat /\ index' \in Nat
        /\ dropped' \in BOOLEAN
    BY <1>1, FilterType DEF RamInv
  <2>. QED
    BY <1>1, <2>1, <2>2 DEF RamInv, RamPatchTypeOK
<1>3. CallsInv'
  <2>1. Address(offset) = 0 => address = 0
    BY DEF Address
  <2>. QED
    BY <1>1, <2>1 DEF setRamValue, RamInv, CallsInv
<1>4. ASSUME ~misled'
      PROVE  /\ address' = 0 /\ ~dropped'
             /\ applied = 0 \/ calls = 0 \/ PatchOffset(patches[applied]) = 0
  <2>1. address = 0 /\ (Match(offset) = 0 \/ offset = 0)
    BY <1>1, <1>4 DEF StillMisled, RamInv, AlignedInv
  <2>2. applied = 0 \/ calls = 0 \/ PatchOffset(patches[applied]) = 0
    BY <1>1, <1>4, <2>1 DEF StillMisled, RamInv, AlignedInv
  <2>. QED
    BY <1>1, <2>1, <2>2, RestCall DEF RamInv
<1>5. dropped' => bPatchesDisableRAM'
  BY <1>1 DEF setRamValue
<1>. QED
  BY <1>1, <1>2, <1>3, <1>4, <1>5 DEF RamInv, AlignedInv, FilteredExactly, Filtered, PatchOffset

LEMMA RamStep == RamInv /\ [RamPatchNext]_ramVars => RamInv'
<1> SUFFICES ASSUME RamInv, [RamPatchNext]_ramVars PROVE RamInv'
  OBVIOUS
<1>1. ASSUME NEW list \in PatchLists, DefinePatches(list) PROVE RamInv'
  BY <1>1 DEF DefinePatches, statics, RamInv, RamPatchTypeOK, CallsInv, AlignedInv,
              FilteredExactly, Filtered
<1>2. ASSUME NEW i \in DOMAIN patches, ApplyPatch(i) PROVE RamInv'
  <2>1. i # 0
    BY PatchType DEF RamInv
  <2>. QED
    BY <1>2, <2>1 DEF ApplyPatch, statics, RamInv, RamPatchTypeOK, CallsInv, AlignedInv,
                      FilteredExactly, Filtered, PatchOffset
<1>3. CASE UNCHANGED ramVars
  BY <1>3 DEF ramVars, statics, RamInv, RamPatchTypeOK, CallsInv, AlignedInv, FilteredExactly,
              Filtered, PatchOffset
<1>. QED
  BY <1>1, <1>2, <1>3, PatchCallStep, OtherCallStep DEF RamPatchNext

LEMMA RamInvariance == RamPatchSpec => []RamInv
<1>1. RamPatchInit => RamInv
  <2> SUFFICES ASSUME RamPatchInit PROVE RamInv
    OBVIOUS
  <2>1. RamPatchTypeOK
    <3>1. bPatchesDisableRAM \in BOOLEAN
      BY DEF RamPatchInit
    <3>2. 0 \in 0 .. Segment - 1
      BY RamPatchAssumption
    <3>. QED
      BY <3>1, <3>2, Zenon DEF RamPatchInit, RamPatchTypeOK
  <2>. QED
    BY <2>1 DEF RamPatchInit, RamInv, CallsInv, AlignedInv, FilteredExactly, Filtered
<1>. QED
  BY <1>1, RamStep, PTL DEF RamPatchSpec

-----------------------------------------------------------------------------
(* The list of scripts.                                                    *)

\* The names of an open call are in the list, unless another one has emptied it.
NotedInv ==
  \A v \in Coroutines : \A i \in DOMAIN open[v] :
    open[v][i].disturbed \/ open[v][i].scripts \subseteq LoadScript

LoadInv == LoadScriptTypeOK /\ NotedInv /\ HandlersRun

\* Some call is open that has loaded a script with the key.
Awaited(k, nested) ==
  \E v \in Coroutines : \E i \in DOMAIN nested[v] : k \in KeysOf(nested[v][i].scripts)

LEMMA KeysOfType ==
  ASSUME NEW scripts \in SUBSET Scripts
  PROVE  KeysOf(scripts) \subseteq Keys
BY LoadScriptAssumption DEF KeysOf

\* A disturbed call keeps all but its mark.
LEMMA DisturbedKeeps ==
  ASSUME NEW nested \in [Coroutines -> Seq(OpenCall)]
  PROVE  /\ Disturbed(nested) \in [Coroutines -> Seq(OpenCall)]
         /\ \A v \in Coroutines :
              /\ DOMAIN Disturbed(nested)[v] = DOMAIN nested[v]
              /\ \A i \in DOMAIN nested[v] :
                   /\ Disturbed(nested)[v][i].scripts = nested[v][i].scripts
                   /\ Disturbed(nested)[v][i].left = nested[v][i].left
                   /\ Disturbed(nested)[v][i].disturbed
<1>1. ASSUME NEW v \in Coroutines
      PROVE  /\ Disturbed(nested)[v] \in Seq(OpenCall)
             /\ DOMAIN Disturbed(nested)[v] = DOMAIN nested[v]
             /\ \A i \in DOMAIN nested[v] :
                  /\ Disturbed(nested)[v][i].scripts = nested[v][i].scripts
                  /\ Disturbed(nested)[v][i].left = nested[v][i].left
                  /\ Disturbed(nested)[v][i].disturbed
  <2> DEFINE s == nested[v]
             t == [i \in DOMAIN s |-> [s[i] EXCEPT !.disturbed = TRUE]]
  <2>1. s \in Seq(OpenCall) /\ Disturbed(nested)[v] = t
    BY DEF Disturbed
  <2> HIDE DEF s
  <2>2. DOMAIN s = 1 .. Len(s) /\ Len(s) \in Nat /\ \A i \in 1 .. Len(s) : s[i] \in OpenCall
    BY <2>1
  <2>3. \A i \in 1 .. Len(s) :
          /\ t[i] \in OpenCall /\ t[i].scripts = s[i].scripts /\ t[i].left = s[i].left
          /\ t[i].disturbed
    BY <2>2 DEF OpenCall
  <2>4. t \in Seq(OpenCall)
    BY <2>2, <2>3
  <2>. QED
    BY <2>1, <2>2, <2>3, <2>4 DEF s
<1>2. Disturbed(nested) = [v \in Coroutines |-> Disturbed(nested)[v]]
  BY DEF Disturbed
<1>. QED
  BY <1>1, <1>2

\* The open calls once one more has begun.
LEMMA Begun ==
  ASSUME NEW nested \in [Coroutines -> Seq(OpenCall)], NEW v \in Coroutines, NEW call \in OpenCall
  PROVE  LET after == [nested EXCEPT ![v] = Append(@, call)]
         IN  /\ after \in [Coroutines -> Seq(OpenCall)]
             /\ \A u \in Coroutines : \A i \in DOMAIN after[u] :
                  after[u][i] = call \/ (i \in DOMAIN nested[u] /\ after[u][i] = nested[u][i])
             /\ \A u \in Coroutines : \A i \in DOMAIN nested[u] :
                  i \in DOMAIN after[u] /\ after[u][i] = nested[u][i]
<1> DEFINE after == [nested EXCEPT ![v] = Append(@, call)]
<1>1. after[v] = Append(nested[v], call) /\ \A u \in Coroutines \ {v} : after[u] = nested[u]
  OBVIOUS
<1>2. /\ Append(nested[v], call) \in Seq(OpenCall)
      /\ \A i \in DOMAIN Append(nested[v], call) :
           \/ Append(nested[v], call)[i] = call
           \/ i \in DOMAIN nested[v] /\ Append(nested[v], call)[i] = nested[v][i]
      /\ \A i \in DOMAIN nested[v] :
           i \in DOMAIN Append(nested[v], call) /\ Append(nested[v], call)[i] = nested[v][i]
  <2>1. nested[v] \in Seq(OpenCall)
    OBVIOUS
  <2>. QED
    BY <2>1
<1>3. after \in [Coroutines -> Seq(OpenCall)]
  BY <1>2
<1>. QED
  BY <1>1, <1>2, <1>3

\* The open calls once the innermost of a coroutine is over.
LEMMA Ended ==
  ASSUME NEW nested \in [Coroutines -> Seq(OpenCall)], NEW v \in Coroutines, nested[v] # <<>>
  PROVE  LET after == [nested EXCEPT ![v] = Front(@)]
         IN  /\ after \in [Coroutines -> Seq(OpenCall)]
             /\ Last(nested[v]) \in OpenCall
             /\ \E i \in DOMAIN nested[v] : Last(nested[v]) = nested[v][i]
             /\ \A u \in Coroutines : \A i \in DOMAIN after[u] :
                  i \in DOMAIN nested[u] /\ after[u][i] = nested[u][i]
             /\ \A u \in Coroutines : \A i \in DOMAIN nested[u] :
                  \/ i \in DOMAIN after[u] /\ after[u][i] = nested[u][i]
                  \/ u = v /\ nested[u][i] = Last(nested[v])
<1> DEFINE after == [nested EXCEPT ![v] = Front(@)]
           s == nested[v]
<1>1. after[v] = Front(s) /\ \A u \in Coroutines \ {v} : after[u] = nested[u]
  OBVIOUS
<1>2. s \in Seq(OpenCall) /\ s # <<>>
  OBVIOUS
<1> HIDE DEF s
<1>3. Len(s) \in Nat \ {0} /\ DOMAIN s = 1 .. Len(s) /\ \A i \in 1 .. Len(s) : s[i] \in OpenCall
  BY <1>2
<1>4. /\ Front(s) \in Seq(OpenCall) /\ DOMAIN Front(s) = 1 .. Len(s) - 1
      /\ \A i \in 1 .. Len(s) - 1 : Front(s)[i] = s[i]
  BY <1>2, <1>3 DEF Front
<1>5. Last(s) = s[Len(s)] /\ Len(s) \in DOMAIN s
  BY <1>3 DEF Last
<1>6. after \in [Coroutines -> Seq(OpenCall)]
  BY <1>4 DEF s
<1>7. \A i \in DOMAIN s : i \in DOMAIN Front(s) \/ i = Len(s)
  BY <1>3, <1>4
<1>. QED
  BY <1>1, <1>3, <1>4, <1>5, <1>6, <1>7 DEF s

LEMMA CallStep ==
  ASSUME LoadInv, NEW v \in Coroutines, NEW array \in BOOLEAN, NEW scripts \in SUBSET Scripts,
         Call(v, array, scripts)
  PROVE  LoadInv'
<1> DEFINE call == [scripts |-> scripts, left |-> scripts, disturbed |-> FALSE]
           before == IF array THEN Disturbed(open) ELSE open
<1>1. /\ LoadScript' = IF array THEN scripts ELSE LoadScript \cup scripts
      /\ open' = [before EXCEPT ![v] = Append(@, call)]
      /\ UNCHANGED <<class, excused>>
  BY DEF Call
<1>2. call \in OpenCall /\ call.scripts = scripts /\ call.left = scripts /\ ~call.disturbed
  BY DEF OpenCall
<1> HIDE DEF call
<1>3. /\ before \in [Coroutines -> Seq(OpenCall)]
      /\ \A u \in Coroutines :
           /\ DOMAIN before[u] = DOMAIN open[u]
           /\ \A i \in DOMAIN open[u] :
                /\ before[u][i].scripts = open[u][i].scripts /\ before[u][i].left = open[u][i].left
                /\ array => before[u][i].disturbed
                /\ open[u][i].disturbed => before[u][i].disturbed
  BY DisturbedKeeps DEF LoadInv, LoadScriptTypeOK
<1> HIDE DEF before
<1>4. /\ open' \in [Coroutines -> Seq(OpenCall)]
      /\ \A u \in Coroutines : \A i \in DOMAIN open'[u] :
           open'[u][i] = call \/ (i \in DOMAIN before[u] /\ open'[u][i] = before[u][i])
      /\ \A u \in Coroutines : \A i \in DOMAIN before[u] :
           i \in DOMAIN open'[u] /\ open'[u][i] = before[u][i]
  BY <1>1, <1>2, <1>3, Begun
<1>5. LoadScriptTypeOK'
  <2>1. ASSUME NEW u \in Coroutines, NEW i \in DOMAIN open'[u]
        PROVE  open'[u][i].left \subseteq open'[u][i].scripts
    <3>1. CASE i \in DOMAIN before[u] /\ open'[u][i] = before[u][i]
      <4>1. /\ i \in DOMAIN open[u] /\ open'[u][i].scripts = open[u][i].scripts
            /\ open'[u][i].left = open[u][i].left
        BY <1>3, <3>1
      <4>. QED
        BY <4>1 DEF LoadInv, LoadScriptTypeOK
    <3>2. CASE open'[u][i] = call
      BY <1>2, <3>2
    <3>. QED
      BY <1>4, <3>1, <3>2
  <2>2. LoadScript' \subseteq Scripts
    BY <1>1 DEF LoadInv, LoadScriptTypeOK
  <2>. QED
    BY <1>1, <1>4, <2>1, <2>2 DEF LoadInv, LoadScriptTypeOK
<1>6. NotedInv'
  BY <1>1, <1>2, <1>3, <1>4 DEF LoadInv, NotedInv
<1>7. HandlersRun'
  <2>1. \A k : Awaited(k, open) => Awaited(k, open')
    BY <1>3, <1>4 DEF Awaited
  <2>. QED
    BY <1>1, <2>1 DEF LoadInv, HandlersRun, Awaited
<1>. QED
  BY <1>5, <1>6, <1>7 DEF LoadInv

LEMMA RunScriptStep ==
  ASSUME LoadInv, NEW v \in Coroutines, NEW s \in Scripts, RunScript(v, s)
  PROVE  LoadInv'
<1> DEFINE n == Len(open[v])
           call == open[v][n]
<1>1. /\ open[v] # <<>> /\ s \in call.left
      /\ open' = [open EXCEPT ![v] = [@ EXCEPT ![n] = [call EXCEPT !.left = @ \ {s}]]]
      /\ class' = [k \in Keys |-> IF k \in Names[s] THEN "plain" ELSE class[k]]
      /\ excused' = excused \ Names[s]
      /\ UNCHANGED LoadScript
  BY DEF RunScript, Last, LoadInv, LoadScriptTypeOK
<1>2. /\ open[v] \in Seq(OpenCall) /\ n \in DOMAIN open[v] /\ call \in OpenCall
      /\ call.left \subseteq call.scripts
  <2>1. open[v] \in Seq(OpenCall)
    BY DEF LoadInv, LoadScriptTypeOK
  <2>2. n \in 1 .. Len(open[v]) /\ DOMAIN open[v] = 1 .. Len(open[v])
    BY <1>1, <2>1
  <2>3. call \in OpenCall
    BY <2>1, <2>2
  <2>. QED
    BY <2>1, <2>2, <2>3 DEF LoadInv, LoadScriptTypeOK
<1>3. /\ open' \in [Coroutines -> Seq(OpenCall)]
      /\ \A u \in Coroutines :
           /\ DOMAIN open'[u] = DOMAIN open[u]
           /\ \A i \in DOMAIN open[u] :
                /\ open'[u][i].scripts = open[u][i].scripts
                /\ open'[u][i].left \subseteq open[u][i].left
                /\ open'[u][i].disturbed = open[u][i].disturbed
  <2>1. /\ [call EXCEPT !.left = @ \ {s}] \in OpenCall
        /\ [call EXCEPT !.left = @ \ {s}].scripts = call.scripts
        /\ [call EXCEPT !.left = @ \ {s}].left \subseteq call.left
        /\ [call EXCEPT !.left = @ \ {s}].disturbed = call.disturbed
    BY <1>2 DEF OpenCall
  <2> DEFINE ran == [call EXCEPT !.left = @ \ {s}]
  <2> HIDE DEF ran
  <2>2. [open[v] EXCEPT ![n] = ran] \in Seq(OpenCall)
    BY <1>2, <2>1 DEF ran
  <2>3. open' = [open EXCEPT ![v] = [open[v] EXCEPT ![n] = ran]]
    BY <1>1 DEF ran
  <2>4. open \in [Coroutines -> Seq(OpenCall)]
    BY DEF LoadInv, LoadScriptTypeOK
  <2>. QED
    BY <1>2, <2>1, <2>2, <2>3, <2>4 DEF ran
<1>4. LoadScriptTypeOK'
  <2>1. class' \in [Keys -> {"absent", "plain", "hooked"}] /\ excused' \subseteq Keys
    BY <1>1 DEF LoadInv, LoadScriptTypeOK
  <2>2. \A u \in Coroutines : \A i \in DOMAIN open'[u] :
          open'[u][i].left \subseteq open'[u][i].scripts
    BY <1>3 DEF LoadInv, LoadScriptTypeOK
  <2>. QED
    BY <1>1, <1>3, <2>1, <2>2 DEF LoadInv, LoadScriptTypeOK
<1>5. NotedInv'
  BY <1>1, <1>3 DEF LoadInv, NotedInv
<1>6. \A k : Awaited(k, open) => Awaited(k, open')
  BY <1>3 DEF Awaited
<1>7. \A k \in Names[s] : Awaited(k, open)
  <2>1. s \in call.scripts
    BY <1>1, <1>2
  <2>. QED
    BY <1>2, <2>1 DEF Awaited, KeysOf
<1>8. HandlersRun'
  BY <1>1, <1>6, <1>7 DEF LoadInv, HandlersRun, Awaited
<1>. QED
  BY <1>4, <1>5, <1>8 DEF LoadInv

LEMMA ReturnStep ==
  ASSUME LoadInv, NEW v \in Coroutines, Return(v)
  PROVE  LoadInv'
<1> DEFINE call == Last(open[v])
           handled == KeysOf(LoadScript)
           after == [open EXCEPT ![v] = Front(@)]
<1>1. /\ open[v] # <<>>
      /\ class' = [k \in Keys |->
           IF k \in handled /\ class[k] # "absent" THEN "hooked" ELSE class[k]]
      /\ excused' = (IF call.disturbed THEN excused \cup KeysOf(call.scripts) ELSE excused) \ handled
      /\ LoadScript' = {}
      /\ open' = Disturbed(after)
  BY DEF Return
<1>2. open \in [Coroutines -> Seq(OpenCall)]
  BY DEF LoadInv, LoadScriptTypeOK
<1>3. /\ after \in [Coroutines -> Seq(OpenCall)]
      /\ call \in OpenCall
      /\ \E i \in DOMAIN open[v] : call = open[v][i]
      /\ \A u \in Coroutines : \A i \in DOMAIN after[u] :
           i \in DOMAIN open[u] /\ after[u][i] = open[u][i]
      /\ \A u \in Coroutines : \A i \in DOMAIN open[u] :
           \/ i \in DOMAIN after[u] /\ after[u][i] = open[u][i]
           \/ u = v /\ open[u][i] = call
  BY <1>1, <1>2, Ended
<1> HIDE DEF after, call
<1>4. /\ open' \in [Coroutines -> Seq(OpenCall)]
      /\ \A u \in Coroutines :
           /\ DOMAIN open'[u] = DOMAIN after[u]
           /\ \A i \in DOMAIN after[u] :
                /\ open'[u][i].scripts = after[u][i].scripts /\ open'[u][i].left = after[u][i].left
                /\ open'[u][i].disturbed
  BY <1>1, <1>3, DisturbedKeeps
<1>5. call.scripts \subseteq Scripts /\ (call.disturbed \/ KeysOf(call.scripts) \subseteq handled)
  <2>1. call.disturbed \/ call.scripts \subseteq LoadScript
    BY <1>3 DEF LoadInv, NotedInv
  <2>. QED
    BY <1>3, <2>1 DEF OpenCall, KeysOf
<1>6. LoadScriptTypeOK'
  <2>1. class' \in [Keys -> {"absent", "plain", "hooked"}]
    BY <1>1 DEF LoadInv, LoadScriptTypeOK
  <2>2. excused' \subseteq Keys
    BY <1>1, <1>5, KeysOfType DEF LoadInv, LoadScriptTypeOK
  <2>3. ASSUME NEW u \in Coroutines, NEW i \in DOMAIN open'[u]
        PROVE  open'[u][i].left \subseteq open'[u][i].scripts
    <3>1. i \in DOMAIN after[u]
      BY <1>4
    <3>2. /\ open'[u][i].scripts = open[u][i].scripts /\ open'[u][i].left = open[u][i].left
          /\ i \in DOMAIN open[u]
      BY <1>3, <1>4, <3>1
    <3>. QED
      BY <3>2 DEF LoadInv, LoadScriptTypeOK
  <2>. QED
    BY <1>1, <1>4, <2>1, <2>2, <2>3 DEF LoadScriptTypeOK
<1>7. NotedInv'
  BY <1>4 DEF NotedInv
<1>8. ASSUME NEW k \in Keys, class'[k] = "plain", k \notin excused'
      PROVE  Awaited(k, open')
  <2>1. class[k] = "plain" /\ k \notin handled
    BY <1>1, <1>8 DEF LoadInv, LoadScriptTypeOK
  <2>2. k \notin excused /\ k \notin KeysOf(call.scripts)
    BY <1>1, <1>5, <1>8, <2>1
  <2>3. Awaited(k, open)
    BY <2>1, <2>2 DEF LoadInv, HandlersRun, Awaited
  <2>4. Awaited(k, after)
    BY <1>3, <2>2, <2>3 DEF Awaited
  <2>. QED
    BY <1>4, <2>4 DEF Awaited
<1>. QED
  BY <1>6, <1>7, <1>8 DEF LoadInv, HandlersRun, Awaited

LEMMA ThrowStep ==
  ASSUME LoadInv, NEW v \in Coroutines, Throw(v)
  PROVE  LoadInv'
<1> DEFINE call == Last(open[v])
<1>1. /\ open[v] # <<>>
      /\ open' = [open EXCEPT ![v] = Front(@)]
      /\ excused' = excused \cup KeysOf(call.scripts)
      /\ UNCHANGED <<LoadScript, class>>
  BY DEF Throw
<1>2. open \in [Coroutines -> Seq(OpenCall)]
  BY DEF LoadInv, LoadScriptTypeOK
<1>3. /\ open' \in [Coroutines -> Seq(OpenCall)]
      /\ call \in OpenCall
      /\ \A u \in Coroutines : \A i \in DOMAIN open'[u] :
           i \in DOMAIN open[u] /\ open'[u][i] = open[u][i]
      /\ \A u \in Coroutines : \A i \in DOMAIN open[u] :
           \/ i \in DOMAIN open'[u] /\ open'[u][i] = open[u][i]
           \/ u = v /\ open[u][i] = call
  BY <1>1, <1>2, Ended
<1> HIDE DEF call
<1>4. LoadScriptTypeOK'
  <2>1. excused' \subseteq Keys
    BY <1>1, <1>3, KeysOfType DEF OpenCall, LoadInv, LoadScriptTypeOK
  <2>2. \A u \in Coroutines : \A i \in DOMAIN open'[u] :
          open'[u][i].left \subseteq open'[u][i].scripts
    BY <1>3 DEF LoadInv, LoadScriptTypeOK
  <2>. QED
    BY <1>1, <1>3, <2>1, <2>2 DEF LoadInv, LoadScriptTypeOK
<1>5. NotedInv'
  BY <1>1, <1>3 DEF LoadInv, NotedInv
<1>6. ASSUME NEW k \in Keys, class'[k] = "plain", k \notin excused'
      PROVE  Awaited(k, open')
  <2>1. Awaited(k, open) /\ k \notin KeysOf(call.scripts)
    BY <1>1, <1>6 DEF LoadInv, HandlersRun, Awaited
  <2>. QED
    BY <1>3, <2>1 DEF Awaited
<1>. QED
  BY <1>4, <1>5, <1>6 DEF LoadInv, HandlersRun, Awaited

LEMMA LoadStep == LoadInv /\ [LoadScriptNext]_loadVars => LoadInv'
<1> SUFFICES ASSUME LoadInv, [LoadScriptNext]_loadVars PROVE LoadInv'
  OBVIOUS
<1>1. ASSUME NEW v \in Coroutines, NEW scripts \in SUBSET Scripts, Call(v, TRUE, scripts)
      PROVE  LoadInv'
  BY <1>1, CallStep
<1>2. ASSUME NEW v \in Coroutines, NEW s \in Scripts, Call(v, FALSE, {s})
      PROVE  LoadInv'
  BY <1>2, CallStep, {s} \in SUBSET Scripts
<1>3. CASE UNCHANGED loadVars
  <2>1. UNCHANGED <<LoadScript, open, class, excused>>
    BY <1>3 DEF loadVars
  <2>2. HandlersRun'
    BY <2>1 DEF LoadInv, HandlersRun, Awaited
  <2>. QED
    BY <2>1, <2>2 DEF LoadInv, LoadScriptTypeOK, NotedInv
<1>. QED
  BY <1>1, <1>2, <1>3, RunScriptStep, ReturnStep, ThrowStep DEF LoadScriptNext

LEMMA LoadInvariance == LoadScriptSpec => []LoadInv
<1>1. LoadScriptInit => LoadInv
  <2> SUFFICES ASSUME LoadScriptInit PROVE LoadInv
    OBVIOUS
  <2>1. LoadScriptTypeOK
    BY DEF LoadScriptInit, LoadScriptTypeOK
  <2>. QED
    BY <2>1 DEF LoadScriptInit, LoadInv, NotedInv, HandlersRun
<1>. QED
  BY <1>1, LoadStep, PTL DEF LoadScriptSpec

-----------------------------------------------------------------------------
(* The index of GetCfgValueEx.                                             *)

\* Division with a remainder.
LEMMA Division ==
  ASSUME NEW a \in Nat, NEW n \in Nat \ {0}
  PROVE  /\ a \div n \in Nat /\ (a % n) \in Nat
         /\ a = n * (a \div n) + (a % n) /\ (a % n) < n
OBVIOUS

\* A multiple has no remainder, and its quotient is the factor.
LEMMA Multiple ==
  ASSUME NEW n \in Nat \ {0}, NEW q \in Nat
  PROVE  (n * q) \div n = q /\ (n * q) % n = 0
OBVIOUS

\* An address is its own remainder.
LEMMA Small ==
  ASSUME NEW w \in Nat \ {0}, NEW a \in Nat, a < w
  PROVE  a % w = a
OBVIOUS

\* A difference below zero, or a sum that is too large, wraps around once.
LEMMA Wraps ==
  ASSUME NEW w \in Nat \ {0}, NEW a \in Nat, a < w
  PROVE  (a + w) % w = a /\ (a - w) % w = a
OBVIOUS

LEMMA Sizes ==
  /\ Stride \in Nat \ {0} /\ TableSize \in Nat \ {0} /\ BufferSize \in Nat
  /\ BufferSize = TableSize + Stride - 1 /\ Stride > Addend
BY ConfigAssumption DEF Stride, TableSize, BufferSize

\* Where the game's first entry is.
BaseType == base \in Addend .. Word - Stride + Addend

-----------------------------------------------------------------------------
\* The distance of an address from the game's table, which may be on either side.
LEMMA DistanceIs ==
  ASSUME BaseType, NEW a \in 0 .. Word - 1
  PROVE  Distance(a) = IF a < base THEN a - base + Word ELSE a - base
<1>1. base \in Nat /\ base < Word /\ Word \in Nat \ {0} /\ a \in Nat
  BY ConfigAssumption, Sizes DEF BaseType
<1>2. CASE a < base
  <2>1. a - base + Word \in Nat /\ a - base + Word < Word
    BY <1>1, <1>2
  <2>2. a - base = (a - base + Word) - Word
    BY <1>1
  <2>. QED
    BY <1>1, <1>2, <2>1, <2>2, Wraps DEF Distance, Minus
<1>3. CASE ~(a < base)
  <2>1. a - base \in Nat /\ a - base < Word
    BY <1>1, <1>3
  <2>. QED
    BY <1>1, <1>3, <2>1, Small DEF Distance, Minus
<1>. QED
  BY <1>2, <1>3

\* What is added to the address of a buffer makes its distance a multiple of the stride.
LEMMA Aligned ==
  ASSUME NEW a, Distance(a) \in Nat
  PROVE  /\ Offset(a) \in 0 .. Stride - 1
         /\ \E q \in Nat : Distance(a) + Offset(a) = Stride * q
<1>. DEFINE d == Distance(a)
            q == d \div Stride
            r == d % Stride
<1>1. q \in Nat /\ r \in Nat /\ d = Stride * q + r /\ r < Stride /\ Stride \in Nat \ {0}
  BY Sizes, Division
<1>2. Offset(a) = IF Stride - r = Stride THEN 0 ELSE Stride - r
  BY DEF Offset, Distance
<1>. HIDE DEF q, r
<1>3. CASE r = 0
  BY <1>1, <1>2, <1>3
<1>4. CASE r # 0
  <2>1. Offset(a) = Stride - r
    BY <1>1, <1>2, <1>4
  <2>2. Stride * (q + 1) = Stride * q + Stride
    BY <1>1
  <2>3. d + Offset(a) = Stride * (q + 1)
    BY <1>1, <2>1, <2>2
  <2>. QED
    BY <1>1, <1>4, <2>1, <2>3
<1>. QED
  BY <1>1, <1>3, <1>4

\* The entry that is made in a buffer has an index, and the index leads to it.
LEMMA EntryExact ==
  ASSUME BaseType, NEW b \in Places(BufferSize), NEW t, t = b + Offset(b)
  PROVE  /\ t \in Nat /\ b <= t /\ t + TableSize <= b + BufferSize
         /\ Distance(t) % Stride = 0 /\ Distance(t) \div Stride \in Nat
         /\ Entry(Distance(t) \div Stride) = t
<1>1. /\ base \in Nat /\ base < Word /\ Word \in Nat \ {0}
      /\ b \in Nat /\ b + BufferSize <= Word
      /\ b + BufferSize <= base - Addend \/ base - Addend + Stride <= b
  BY ConfigAssumption, Sizes DEF BaseType, Places, Apart
<1>2. b \in 0 .. Word - 1
  BY <1>1, Sizes
<1>3. Distance(b) = IF b < base THEN b - base + Word ELSE b - base
  BY <1>2, DistanceIs
<1>4. Distance(b) \in Nat
  BY <1>1, <1>2, <1>3
<1>5. Offset(b) \in 0 .. Stride - 1
  BY <1>4, Aligned
<1>6. PICK q \in Nat : Distance(b) + Offset(b) = Stride * q
  BY <1>4, Aligned
<1>7. t \in Nat /\ b <= t /\ t + TableSize <= b + BufferSize /\ t \in 0 .. Word - 1
  BY <1>1, <1>5, Sizes
<1>8. t < base <=> b < base
  BY <1>1, <1>5, <1>7, Sizes, ConfigAssumption
<1>9. Distance(t) = IF t < base THEN t - base + Word ELSE t - base
  BY <1>7, DistanceIs
<1>10. Distance(t) = Stride * q
  BY <1>1, <1>3, <1>5, <1>6, <1>8, <1>9
<1>11. Distance(t) % Stride = 0 /\ Distance(t) \div Stride = q
  BY <1>10, Multiple, Sizes
<1>12. base + Distance(t) = IF t < base THEN t + Word ELSE t
  BY <1>1, <1>7, <1>9
<1>13. (base + Distance(t)) % Word = t
  BY <1>1, <1>7, <1>12, Small, Wraps
<1>. QED
  BY <1>7, <1>10, <1>11, <1>13 DEF Entry

-----------------------------------------------------------------------------
ConfigInv == BaseType /\ IndexExact

LEMMA ConfigStart == ConfigInit => ConfigInv
BY DEF ConfigInit, ConfigInv, BaseType, IndexExact

LEMMA ConfigStep == ConfigInv /\ [ConfigNext]_configVars => ConfigInv'
<1>. SUFFICES ASSUME ConfigInv, [ConfigNext]_configVars PROVE ConfigInv'
  OBVIOUS
<1>1. BaseType' /\ base' = base
  BY DEF ConfigInv, BaseType, ConfigNext, GetCfgValueEx, LookUpOverridden, LookUpOther, configVars
<1>2. ASSUME NEW key \in ConfigKeys, LookUpOverridden(key) PROVE IndexExact'
  <2>1. PICK s \in Places(Addend), b \in Places(BufferSize) :
          /\ Apart(s, Addend, b, BufferSize)
          /\ result' = s /\ text' = key
          /\ buffer' = b /\ table' = b + Offset(b)
          /\ answer' = Distance(table') \div Stride
          /\ asked' = key
    BY <1>2 DEF LookUpOverridden
  <2>2. /\ table' \in Nat /\ b <= table' /\ table' + TableSize <= b + BufferSize
        /\ Distance(table') % Stride = 0 /\ Distance(table') \div Stride \in Nat
        /\ Entry(Distance(table') \div Stride) = table'
    BY <2>1, EntryExact DEF ConfigInv
  <2>3. Apart(s, Addend, table', TableSize)
    <3>1. s \in Nat /\ b \in Nat
      BY Sizes, ConfigAssumption DEF Places
    <3>. QED
      BY <2>1, <2>2, <3>1, Sizes, ConfigAssumption DEF Apart
  <2>4. /\ answer' # None
        /\ Entry(answer)' = table' /\ (Distance(table) % Stride)' = 0
    BY <1>1, <2>1, <2>2, ConfigAssumption DEF Entry, Distance, Minus
  <2>. QED
    BY <2>1, <2>2, <2>3, <2>4 DEF IndexExact, Apart
<1>3. ASSUME NEW key \in ConfigKeys, LookUpOther(key) PROVE IndexExact'
  BY <1>3 DEF LookUpOther, IndexExact
<1>4. ASSUME UNCHANGED configVars PROVE IndexExact'
  BY <1>4 DEF configVars, ConfigInv, IndexExact, Entry, Distance, Minus, Apart
<1>. QED
  BY <1>1, <1>2, <1>3, <1>4 DEF ConfigInv, ConfigNext, GetCfgValueEx

-----------------------------------------------------------------------------
(* Theorems.                                                               *)

LEMMA Parts == Spec => RamPatchSpec /\ LoadScriptSpec
<1>1. Init => RamPatchInit /\ LoadScriptInit
  BY DEF Init
<1>2. [Next]_vars => [RamPatchNext]_ramVars /\ [LoadScriptNext]_loadVars
  BY DEF Next, vars
<1>. QED
  BY <1>1, <1>2, PTL DEF Spec, RamPatchSpec, LoadScriptSpec

\* The statics of setRamValue, the list of scripts and the open calls keep their types.
THEOREM TypeCorrect == Spec => []TypeOK
<1>1. RamInv /\ LoadInv => TypeOK
  BY DEF RamInv, LoadInv, TypeOK
<1>. QED
  BY <1>1, Parts, RamInvariance, LoadInvariance, PTL

\* Whatever patches the scripts define and in whatever order they apply them and set other
\* values, a filter that has not been misled drops the calls of patches and no others, if the
\* option is on (SQHook::SQNative_setRamValue).
THEOREM FilteredTheorem == Spec => []FilteredExactly
<1>1. RamInv => FilteredExactly
  BY DEF RamInv
<1>. QED
  BY <1>1, Parts, RamInvariance, PTL

\* For any scripts, keys and coroutines, and calls that nest to any depth, no class stays plain
\* whose call has returned undisturbed (SQHook::SQCall_util_load_script,
\* SQReturn_util_load_script).
THEOREM HandlersTheorem == Spec => []HandlersRun
<1>1. LoadInv => HandlersRun
  BY DEF LoadInv
<1>. QED
  BY <1>1, Parts, LoadInvariance, PTL

\* Wherever the game's table and the mod's buffers are, whatever the sizes, the index that the
\* mod returns takes the game to the entry of the key it has asked for, and a look-up that is not
\* overridden leaves nothing allocated (Config::GetCfgValueEx).
THEOREM IndexIsExact == ConfigSpec => []IndexExact
<1>1. ConfigInv => IndexExact
  BY DEF ConfigInv
<1>. QED
  BY <1>1, ConfigStart, ConfigStep, PTL DEF ConfigSpec
=============================================================================
