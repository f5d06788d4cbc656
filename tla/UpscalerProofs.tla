---------------------------- MODULE UpscalerProofs ----------------------------
(* Proofs about Upscaler, for any number of addresses and textures.        *)
EXTENDS Upscaler, TLAPS

\* A pass queues the state it draws and the state it saves, and no more.
QueueInv == Len(upscalerDraws) <= 2

\* Every view in the maps has a place in all of them, and its target, if nothing has failed.
MapsInv ==
  /\ \A v \in View : srvVramRemastered[v] = Absent => rtvVramRemastered[v] = Null
  /\ \A t \in Texture : srvVram[t] # Absent =>
       /\ srvVramRemastered[srvVram[t]] # Absent
       /\ failed \/ rtvVramRemastered[srvVram[t]] # Null

\* The loop of Upscale goes through elements of srvVram.
TodoInv == \A t \in todo : srvVram[t] # Absent

\* Nothing fails before Load, and a device is hooked without shaders only if that did.
HooksInv == /\ pc = "load" => ~failed
            /\ pc = "hooked" => blobs \/ failed

RefInv == QueueInv /\ MapsInv /\ TodoInv /\ ReferencesBalance
IInv == TypeOK /\ RefInv /\ HooksInv /\ CrashOnlyAfterFailure

-----------------------------------------------------------------------------
(* Lemmas.                                                                 *)

LEMMA Addresses ==
  /\ Null \notin Texture /\ Null \notin View /\ Null \notin Target
  /\ Absent \notin Texture /\ Absent \notin View /\ Absent \notin Target
  /\ Null # Absent
BY UpscalerAssumption DEF Null, Absent, Texture, View, Target

\* The references and what they are taken for.
refs == <<viewRefs, targetRefs, srvVram, srvVramRemastered, rtvVramRemastered, queue>>

LEMMA RefFrame ==
  ASSUME RefInv, UNCHANGED refs, failed => failed'
  PROVE  RefInv'
BY DEF RefInv, refs, queue, QueueInv, MapsInv, TodoInv, ReferencesBalance, HeldViews, HeldTargets, QueuedView,
       QueuedTarget

\* One reference more or less.
LEMMA AddRefLemma ==
  ASSUME NEW S, NEW r \in [S -> Nat], NEW a
  PROVE  /\ AddRef(r, a) \in [S -> Nat]
         /\ \A b \in S : AddRef(r, a)[b] = r[b] + (IF a = b THEN 1 ELSE 0)
BY DEF AddRef

LEMMA ReleaseLemma ==
  ASSUME NEW S, NEW r \in [S -> Nat], NEW a, a \in S => r[a] > 0
  PROVE  /\ Release(r, a) \in [S -> Nat]
         /\ \A b \in S : Release(r, a)[b] = r[b] - (IF a = b THEN 1 ELSE 0)
BY DEF Release

\* The balance bounds what is counted in it.
LEMMA Counted ==
  ASSUME TypeOK, ReferencesBalance, NEW v \in View
  PROVE  /\ srvVramRemastered[v] # Absent => viewRefs[v] > 0
         /\ \A u \in View : srvVramRemastered[u] = v => viewRefs[v] > 0
         /\ \A i \in {1, 2} : i \in DOMAIN upscalerDraws /\ upscalerDraws[i].view = v => viewRefs[v] > 0
<1>1. viewRefs[v] = HeldViews(v)
  BY DEF ReferencesBalance
<1>2. QueuedView(1, v) \in {0, 1} /\ QueuedView(2, v) \in {0, 1}
  BY DEF QueuedView
<1>3. \A i \in {1, 2} : i \in DOMAIN upscalerDraws /\ upscalerDraws[i].view = v => QueuedView(i, v) = 1
  BY DEF QueuedView
<1> QED
  BY <1>1, <1>2, <1>3 DEF HeldViews

LEMMA CountedTargets ==
  ASSUME TypeOK, ReferencesBalance, NEW n \in Target
  PROVE  /\ \A u \in View : rtvVramRemastered[u] = n => targetRefs[n] > 0
         /\ \A i \in {1, 2} : i \in DOMAIN upscalerDraws /\ upscalerDraws[i].target = n => targetRefs[n] > 0
<1>1. targetRefs[n] = HeldTargets(n)
  BY DEF ReferencesBalance
<1>2. QueuedTarget(1, n) \in {0, 1} /\ QueuedTarget(2, n) \in {0, 1}
  BY DEF QueuedTarget
<1>3. \A i \in {1, 2} : i \in DOMAIN upscalerDraws /\ upscalerDraws[i].target = n => QueuedTarget(i, n) = 1
  BY DEF QueuedTarget
<1> QED
  BY <1>1, <1>2, <1>3 DEF HeldTargets

LEMMA InitLemma == Init => IInv
<1> SUFFICES ASSUME Init PROVE IInv
  OBVIOUS
<1>1. TypeOK
  <2>1. /\ texVram \in Seq(Texture \cup {Null}) /\ texVramRemastered \in Seq(Texture \cup {Null})
        /\ upscalerDraws \in Seq(State) /\ Len(texVram) = Len(texVramRemastered)
    BY DEF Init
  <2>2. /\ viewOf \in [View -> Texture \cup {Null, Absent}]
        /\ targetOf \in [Target -> Texture \cup {Null, Absent}]
        /\ viewRefs \in [View -> Nat] /\ targetRefs \in [Target -> Nat]
    BY DEF Init
  <2>3. /\ srvVram \in [Texture -> View \cup {Absent}]
        /\ srvVramRemastered \in [View -> View \cup {Null, Absent}]
        /\ rtvVramRemastered \in [View -> Target \cup {Null}]
    BY DEF Init
  <2>4. /\ origin \in [Texture -> Texture \cup {Null, Absent}]
        /\ image \in [Texture -> Texture \cup {Null, Absent}]
        /\ pipe \in Pipe
    BY DEF Init, Pipe
  <2> QED
    BY <2>1, <2>2, <2>3, <2>4 DEF Init, TypeOK
<1>2. QueueInv /\ MapsInv /\ TodoInv
  BY DEF Init, QueueInv, MapsInv, TodoInv
<1>3. ReferencesBalance
  BY Addresses DEF Init, ReferencesBalance, HeldViews, HeldTargets, QueuedView, QueuedTarget
<1>4. HooksInv /\ CrashOnlyAfterFailure
  BY DEF Init, HooksInv, CrashOnlyAfterFailure
<1> QED
  BY <1>1, <1>2, <1>3, <1>4 DEF IInv, RefInv

-----------------------------------------------------------------------------
(* The steps that count no reference.                                      *)

LEMMA LoadLemma ==
  ASSUME IInv, NEW enabled \in BOOLEAN, NEW compiled \in BOOLEAN, NEW loaded \in BOOLEAN,
         Load(enabled, compiled, loaded)
  PROVE  IInv'
<1>1. TypeOK'
  BY DEF IInv, TypeOK, Load, heap, maps, queue
<1>2. RefInv'
  BY RefFrame DEF IInv, HooksInv, Load, refs, heap, maps, queue
<1>3. HooksInv' /\ CrashOnlyAfterFailure'
  BY DEF Load, HooksInv, CrashOnlyAfterFailure
<1> QED
  BY <1>1, <1>2, <1>3 DEF IInv

LEMMA CrashLemma ==
  ASSUME IInv, Crash, failed' = TRUE
  PROVE  IInv'
<1>1. TypeOK'
  BY DEF IInv, TypeOK, Crash, heap, maps, queue
<1>2. RefInv'
  BY RefFrame DEF IInv, Crash, refs, heap, maps, queue
<1>3. HooksInv' /\ CrashOnlyAfterFailure'
  BY DEF Crash, HooksInv, CrashOnlyAfterFailure
<1> QED
  BY <1>1, <1>2, <1>3 DEF IInv

LEMMA CreateDeviceLemma ==
  ASSUME IInv, CreateDevice
  PROVE  IInv'
<1>1. CASE pc' = "running" /\ UNCHANGED <<blobs, upscalerDisabled, heap, maps, pipe, queue, ghosts>>
  <2>1. TypeOK'
    BY <1>1 DEF IInv, TypeOK, heap, maps, queue, ghosts
  <2>2. RefInv'
    BY <1>1, RefFrame DEF IInv, refs, heap, maps, queue, ghosts
  <2>3. HooksInv' /\ CrashOnlyAfterFailure'
    BY <1>1 DEF HooksInv, CrashOnlyAfterFailure
  <2> QED
    BY <2>1, <2>2, <2>3 DEF IInv
<1>2. CASE Crash /\ failed' = TRUE
  BY <1>2, CrashLemma
<1>3. CASE ~blobs /\ Crash /\ UNCHANGED failed
  <2>1. failed' = TRUE
    BY <1>3 DEF IInv, HooksInv, TypeOK, CreateDevice
  <2> QED
    BY <1>3, <2>1, CrashLemma
<1> QED
  BY <1>1, <1>2, <1>3 DEF CreateDevice

\* A step that leaves the mod's references alone while the upscaler runs.
LEMMA RunningFrame ==
  ASSUME IInv, pc = "running", UNCHANGED pc, UNCHANGED refs, failed => failed'
  PROVE  RefInv' /\ HooksInv' /\ CrashOnlyAfterFailure'
<1>1. RefInv'
  BY RefFrame DEF IInv
<1> QED
  BY <1>1 DEF HooksInv, CrashOnlyAfterFailure

LEMMA CreateTextureLemma ==
  ASSUME IInv, NEW t \in Texture, CreateTexture(t)
  PROVE  IInv'
<1>1. TypeOK'
  <2>1. origin' \in [Texture -> Texture \cup {Null, Absent}]
    BY DEF IInv, TypeOK, CreateTexture
  <2>2. orphaned' \in BOOLEAN
    BY DEF IInv, TypeOK, CreateTexture, Reuse
  <2> QED
    BY <2>1, <2>2 DEF IInv, TypeOK, CreateTexture, maps, queue
<1>2. RefInv' /\ HooksInv' /\ CrashOnlyAfterFailure'
  BY RunningFrame DEF CreateTexture, Sound, Ready, refs, maps, queue
<1> QED
  BY <1>1, <1>2 DEF IInv

LEMMA CreateVramLemma ==
  ASSUME IInv, NEW t \in Texture \cup {Null}, NEW r \in Texture \cup {Null}, CreateVram(t, r)
  PROVE  IInv'
<1>1. TypeOK'
  <2>1. origin' \in [Texture -> Texture \cup {Null, Absent}]
    BY DEF IInv, TypeOK, CreateVram
  <2>2. orphaned' \in BOOLEAN /\ failed' \in BOOLEAN
    BY DEF IInv, TypeOK, CreateVram, Reuse
  <2>3. /\ texVram' \in Seq(Texture \cup {Null}) /\ texVramRemastered' \in Seq(Texture \cup {Null})
        /\ Len(texVram') = Len(texVramRemastered')
    BY DEF IInv, TypeOK, CreateVram
  <2>4. gameTextures' \subseteq Texture
    BY DEF IInv, TypeOK, CreateVram
  <2> QED
    BY <2>1, <2>2, <2>3, <2>4 DEF IInv, TypeOK, CreateVram, queue
<1>2. RefInv' /\ HooksInv' /\ CrashOnlyAfterFailure'
  BY RunningFrame DEF CreateVram, Sound, Ready, refs, queue
<1> QED
  BY <1>1, <1>2 DEF IInv

LEMMA ReleaseTextureLemma ==
  ASSUME IInv, NEW t \in Texture, ReleaseTexture(t)
  PROVE  IInv'
<1>1. TypeOK'
  BY DEF IInv, TypeOK, ReleaseTexture, maps, queue, ghosts
<1>2. RefInv' /\ HooksInv' /\ CrashOnlyAfterFailure'
  BY RunningFrame DEF ReleaseTexture, Sound, Ready, refs, maps, queue, ghosts
<1> QED
  BY <1>1, <1>2 DEF IInv

LEMMA CreateViewLemma ==
  ASSUME IInv, NEW t \in Texture, NEW v \in View, CreateView(t, v)
  PROVE  IInv'
<1>1. TypeOK'
  BY DEF IInv, TypeOK, CreateView, maps, queue, ghosts
<1>2. RefInv' /\ HooksInv' /\ CrashOnlyAfterFailure'
  BY RunningFrame DEF CreateView, Sound, Ready, refs, maps, queue, ghosts
<1> QED
  BY <1>1, <1>2 DEF IInv

LEMMA ReleaseViewLemma ==
  ASSUME IInv, NEW v \in View, ReleaseView(v)
  PROVE  IInv'
<1>1. TypeOK'
  <2>1. viewOf' \in [View -> Texture \cup {Null, Absent}]
    BY DEF IInv, TypeOK, ReleaseView, Bury
  <2> QED
    BY <2>1 DEF IInv, TypeOK, ReleaseView, maps, queue, ghosts
<1>2. RefInv' /\ HooksInv' /\ CrashOnlyAfterFailure'
  BY RunningFrame DEF ReleaseView, Sound, Ready, refs, maps, queue, ghosts
<1> QED
  BY <1>1, <1>2 DEF IInv

\* The hook passes on a view or none.
LEMMA SubstituteType ==
  ASSUME TypeOK, NEW v \in View \cup {Null}
  PROVE  Substitute(v) \in View \cup {Null}
BY DEF TypeOK, Substitute

LEMMA PSSetShaderResourcesLemma ==
  ASSUME IInv, NEW v \in View \cup {Null}, PSSetShaderResources(v)
  PROVE  IInv'
<1>1. TypeOK'
  <2>1. viewOf' \in [View -> Texture \cup {Null, Absent}]
    BY DEF IInv, TypeOK, PSSetShaderResources, Bury
  <2>2. pipe' \in Pipe
    BY SubstituteType DEF IInv, TypeOK, PSSetShaderResources, Pipe
  <2>3. misdirected' \in BOOLEAN
    BY DEF IInv, TypeOK, PSSetShaderResources
  <2> QED
    BY <2>1, <2>2, <2>3 DEF IInv, TypeOK, PSSetShaderResources, maps, queue
<1>2. RefInv' /\ HooksInv' /\ CrashOnlyAfterFailure'
  BY RunningFrame DEF PSSetShaderResources, Ready, refs, maps, queue
<1> QED
  BY <1>1, <1>2 DEF IInv

LEMMA CopySubresourceRegionLemma ==
  ASSUME IInv, NEW t \in Texture, CopySubresourceRegion(t)
  PROVE  IInv'
<1>1. TypeOK'
  BY DEF IInv, TypeOK, CopySubresourceRegion, heap, maps, queue
<1>2. RefInv' /\ HooksInv' /\ CrashOnlyAfterFailure'
  BY RunningFrame DEF CopySubresourceRegion, Ready, refs, heap, maps, queue
<1> QED
  BY <1>1, <1>2 DEF IInv

LEMMA FailVramViewLemma ==
  ASSUME IInv, NEW t \in Texture, FailVramView(t)
  PROVE  IInv'
BY CrashLemma DEF FailVramView

LEMMA BeginUpscaleLemma ==
  ASSUME IInv, BeginUpscale
  PROVE  IInv'
<1>1. TypeOK'
  BY DEF IInv, TypeOK, BeginUpscale, heap, maps, ghosts
<1>2. TodoInv'
  BY DEF BeginUpscale, TodoInv, maps
<1>3. QueueInv' /\ MapsInv' /\ ReferencesBalance'
  BY DEF IInv, RefInv, BeginUpscale, heap, maps, ghosts, QueueInv, MapsInv, ReferencesBalance,
         HeldViews, HeldTargets, QueuedView, QueuedTarget
<1>4. HooksInv' /\ CrashOnlyAfterFailure'
  BY DEF IInv, BeginUpscale, Ready, HooksInv, CrashOnlyAfterFailure
<1> QED
  BY <1>1, <1>2, <1>3, <1>4 DEF IInv, RefInv

-----------------------------------------------------------------------------
(* The steps that take references and give them back.                      *)

\* A new view or target is not counted anywhere, so that the counts of the others stay.
LEMMA CreateVramViewLemma ==
  ASSUME IInv, NEW t \in Texture, NEW v \in View, NEW n \in Target \cup {Null},
         NEW w \in View \cup {Null}, CreateVramView(t, v, n, w)
  PROVE  IInv'
<1> USE Addresses
<1> PICK r \in Remastered(t) :
      /\ n # Null => n \in NewTarget
      /\ w # Null => w # v /\ ~LiveView(w)
      /\ viewOf' = [u \in View |-> IF u = v THEN t ELSE IF u = w THEN r ELSE viewOf[u]]
      /\ targetOf' = [u \in Target |-> IF u = n THEN r ELSE targetOf[u]]
      /\ misdirected' = (misdirected \/ Foreign(t, r))
  BY DEF CreateVramView
<1>1. /\ TypeOK /\ RefInv /\ upscalerDraws = <<>> /\ todo = {}
      /\ UNCHANGED queue
  BY DEF IInv, CreateVramView, Ready, InPass
<1>0. viewRefs \in [View -> Nat] /\ targetRefs \in [Target -> Nat]
  BY <1>1 DEF TypeOK
<1>2. /\ viewRefs[v] = 0 /\ (w # Null => viewRefs[w] = 0)
      /\ (n # Null => targetRefs[n] = 0)
  BY <1>1 DEF CreateVramView, TypeOK, NewView, NewTarget, LiveView, LiveTarget
<1>3. \A x \in {v, w} \cap View : srvVramRemastered[x] = Absent /\ \A u \in View : srvVramRemastered[u] # x
  BY <1>1, <1>2, Counted DEF RefInv
<1>4. rtvVramRemastered[v] = Null /\ (n # Null => \A u \in View : rtvVramRemastered[u] # n)
  BY <1>1, <1>2, <1>3, CountedTargets DEF RefInv, MapsInv
<1>5. /\ AddRef(viewRefs, v) \in [View -> Nat] /\ viewRefs' \in [View -> Nat]
      /\ \A x \in View : viewRefs'[x] =
           viewRefs[x] + (IF v = x THEN 1 ELSE 0) + (IF w = x THEN 1 ELSE 0)
  <2>1. viewRefs' = AddRef(AddRef(viewRefs, v), w)
    BY DEF CreateVramView, KeepViews
  <2>2. AddRef(viewRefs, v) \in [View -> Nat]
        /\ \A x \in View : AddRef(viewRefs, v)[x] = viewRefs[x] + (IF v = x THEN 1 ELSE 0)
    BY <1>0, AddRefLemma
  <2> QED
    BY <2>1, <2>2, AddRefLemma
<1>6. /\ targetRefs' \in [Target -> Nat]
      /\ \A x \in Target : targetRefs'[x] = targetRefs[x] + (IF n = x THEN 1 ELSE 0)
  <2>1. targetRefs' = AddRef(targetRefs, n)
    BY DEF CreateVramView
  <2> QED
    BY <1>0, <2>1, AddRefLemma
<1>7. /\ srvVramRemastered' = [srvVramRemastered EXCEPT ![v] = w]
      /\ rtvVramRemastered' = [rtvVramRemastered EXCEPT ![v] = n]
      /\ srvVram' = [srvVram EXCEPT ![t] = v]
      /\ failed' = (failed \/ n = Null \/ w = Null)
  BY DEF CreateVramView, ByView
<1>8. TypeOK'
  <2>1. r \in Texture \cup {Null}
    BY <1>1 DEF Remastered, TypeOK
  <2>2. /\ viewOf' \in [View -> Texture \cup {Null, Absent}]
        /\ targetOf' \in [Target -> Texture \cup {Null, Absent}]
    BY <1>1, <2>1 DEF TypeOK
  <2>3. /\ srvVram' \in [Texture -> View \cup {Absent}]
        /\ srvVramRemastered' \in [View -> View \cup {Null, Absent}]
        /\ rtvVramRemastered' \in [View -> Target \cup {Null}]
    BY <1>1, <1>7 DEF TypeOK
  <2>4. misdirected' \in BOOLEAN /\ failed' \in BOOLEAN
    BY <1>1, <1>7 DEF TypeOK
  <2> QED
    BY <1>1, <1>5, <1>6, <2>2, <2>3, <2>4 DEF TypeOK, CreateVramView, queue
<1>9. QueueInv' /\ TodoInv'
  BY <1>1 DEF QueueInv, TodoInv, queue
<1>10. MapsInv'
  BY <1>1, <1>7 DEF TypeOK, RefInv, MapsInv
<1>11. \A x \in View : viewRefs'[x] = HeldViews(x)'
  <2> SUFFICES ASSUME NEW x \in View PROVE viewRefs'[x] = HeldViews(x)'
    OBVIOUS
  <2>1. /\ QueuedView(1, x) = 0 /\ QueuedView(2, x) = 0
        /\ QueuedView(1, x)' = 0 /\ QueuedView(2, x)' = 0
    BY <1>1 DEF QueuedView, queue
  <2>2. viewRefs[x] = HeldViews(x)
    BY <1>1 DEF RefInv, ReferencesBalance
  <2>3. CASE x = v
    BY <1>1, <1>2, <1>3, <1>5, <1>7, <2>1, <2>3 DEF TypeOK, HeldViews
  <2>4. CASE x # v /\ x = w
    <3>1. srvVramRemastered'[x] = Absent /\ srvVramRemastered'[v] = x
      BY <1>1, <1>3, <1>7, <2>4 DEF TypeOK
    <3>2. viewRefs'[x] = 1
      BY <1>2, <1>5, <2>4
    <3> QED
      BY <2>1, <3>1, <3>2 DEF HeldViews
  <2>5. CASE x # v /\ x # w
    <3>1. srvVramRemastered'[x] = srvVramRemastered[x]
      BY <1>1, <1>7, <2>5 DEF TypeOK
    <3>2. (\E u \in View : srvVramRemastered'[u] = x) <=> \E u \in View : srvVramRemastered[u] = x
      BY <1>1, <1>3, <1>7, <2>5 DEF TypeOK
    <3>3. viewRefs'[x] = viewRefs[x]
      BY <1>1, <1>5, <2>5 DEF TypeOK
    <3> QED
      BY <2>1, <2>2, <3>1, <3>2, <3>3 DEF HeldViews
  <2> QED
    BY <2>3, <2>4, <2>5
<1>12. \A x \in Target : targetRefs'[x] = HeldTargets(x)'
  <2> SUFFICES ASSUME NEW x \in Target PROVE targetRefs'[x] = HeldTargets(x)'
    OBVIOUS
  <2>1. /\ QueuedTarget(1, x) = 0 /\ QueuedTarget(2, x) = 0
        /\ QueuedTarget(1, x)' = 0 /\ QueuedTarget(2, x)' = 0
    BY <1>1 DEF QueuedTarget, queue
  <2>2. targetRefs[x] = HeldTargets(x)
    BY <1>1 DEF RefInv, ReferencesBalance
  <2>3. CASE x = n
    BY <1>1, <1>2, <1>4, <1>6, <1>7, <2>1, <2>3 DEF TypeOK, HeldTargets
  <2>4. CASE x # n
    <3>1. (\E u \in View : rtvVramRemastered'[u] = x) <=> \E u \in View : rtvVramRemastered[u] = x
      BY <1>1, <1>4, <1>7, <2>4 DEF TypeOK
    <3>2. targetRefs'[x] = targetRefs[x]
      BY <1>1, <1>6, <2>4 DEF TypeOK
    <3> QED
      BY <2>1, <2>2, <3>1, <3>2 DEF HeldTargets
  <2> QED
    BY <2>3, <2>4
<1>13. HooksInv' /\ CrashOnlyAfterFailure'
  BY DEF CreateVramView, Ready, HooksInv, CrashOnlyAfterFailure
<1> QED
  BY <1>8, <1>9, <1>10, <1>11, <1>12, <1>13 DEF IInv, RefInv, ReferencesBalance

\* The two states of the queue count what Acquire takes; a dead view or a missing target would
\* have had to be counted.
LEMMA UpscaleLemma ==
  ASSUME IInv, NEW t \in Texture, NEW blank \in BOOLEAN, Upscale(t, blank)
  PROVE  IInv'
<1> USE Addresses
<1> DEFINE src == srvVram[t]
           dst == rtvVramRemastered[src]
           drawn == Present(src, dst, blank)
<1>1. /\ TypeOK /\ RefInv /\ pc = "running" /\ upscalerDraws = <<>> /\ t \in todo
  BY DEF IInv, Upscale
<1>0. viewRefs \in [View -> Nat] /\ targetRefs \in [Target -> Nat]
  BY <1>1 DEF TypeOK
<1>2. src \in View /\ srvVramRemastered[src] # Absent /\ (failed \/ dst # Null)
  BY <1>1 DEF RefInv, TodoInv, MapsInv, TypeOK
<1>3. LiveView(src)
  BY <1>1, <1>2, Counted DEF LiveView, RefInv
<1>4. dst \in Target \cup {Null}
  BY <1>1, <1>2 DEF TypeOK
<1>5. CASE dst = Null
  <2>1. Crash /\ failed' = TRUE
    BY <1>1, <1>2, <1>5 DEF Upscale, TypeOK
  <2> QED
    BY <2>1, CrashLemma
<1>6. CASE dst # Null
  <2>1. /\ upscalerDraws' = <<drawn, Saved>>
        /\ viewRefs' = AddRef(AddRef(viewRefs, pipe.view), drawn.view)
        /\ targetRefs' = AddRef(AddRef(targetRefs, pipe.target), dst)
        /\ upscalerDisabled' = TRUE
        /\ todo' = todo \ {t}
        /\ UNCHANGED <<blobs, pc, gameTextures, gameViews, viewOf, targetOf, maps, pipe, ghosts>>
    BY <1>3, <1>6 DEF Upscale, Queued, Acquire
  <2>2. drawn \in State /\ Saved \in State /\ drawn.target = dst
    BY <1>1, <1>2, <1>4 DEF TypeOK, Pipe, Present, Saved, State
  <2>3. /\ viewRefs' \in [View -> Nat]
        /\ \A x \in View : viewRefs'[x] =
             viewRefs[x] + (IF pipe.view = x THEN 1 ELSE 0) + (IF drawn.view = x THEN 1 ELSE 0)
    <3>1. AddRef(viewRefs, pipe.view) \in [View -> Nat]
          /\ \A x \in View : AddRef(viewRefs, pipe.view)[x] = viewRefs[x] + (IF pipe.view = x THEN 1 ELSE 0)
      BY <1>0, AddRefLemma
    <3> HIDE DEF drawn
    <3> QED
      BY <2>1, <3>1, AddRefLemma
  <2>4. /\ targetRefs' \in [Target -> Nat]
        /\ \A x \in Target : targetRefs'[x] =
             targetRefs[x] + (IF pipe.target = x THEN 1 ELSE 0) + (IF dst = x THEN 1 ELSE 0)
    <3>1. AddRef(targetRefs, pipe.target) \in [Target -> Nat]
          /\ \A x \in Target : AddRef(targetRefs, pipe.target)[x] = targetRefs[x] + (IF pipe.target = x THEN 1 ELSE 0)
      BY <1>0, AddRefLemma
    <3> HIDE DEF dst
    <3> QED
      BY <2>1, <3>1, AddRefLemma
  <2>5. TypeOK'
    <3>1. upscalerDraws' \in Seq(State)
      BY <2>1, <2>2
    <3> QED
      BY <1>1, <2>1, <2>3, <2>4, <3>1 DEF TypeOK, maps, ghosts
  <2>6. QueueInv' /\ MapsInv' /\ TodoInv'
    <3>1. QueueInv'
      BY <2>1 DEF QueueInv
    <3>2. MapsInv' /\ TodoInv'
      BY <1>1, <2>1 DEF RefInv, MapsInv, TodoInv, maps, ghosts
    <3> QED
      BY <3>1, <3>2
  <2>7. ReferencesBalance'
    <3> HIDE DEF drawn, dst
    <3>1. \A x \in View : viewRefs'[x] = HeldViews(x)'
      <4> SUFFICES ASSUME NEW x \in View PROVE viewRefs'[x] = HeldViews(x)'
        OBVIOUS
      <4>1. QueuedView(1, x) = 0 /\ QueuedView(2, x) = 0
        BY <1>1 DEF QueuedView
      <4>2. /\ QueuedView(1, x)' = (IF drawn.view = x THEN 1 ELSE 0)
            /\ QueuedView(2, x)' = (IF pipe.view = x THEN 1 ELSE 0)
        BY <2>1 DEF QueuedView, Saved
      <4>3. viewRefs[x] = HeldViews(x) /\ UNCHANGED srvVramRemastered
        BY <1>1, <2>1 DEF RefInv, ReferencesBalance, maps
      <4> QED
        BY <2>3, <4>1, <4>2, <4>3 DEF HeldViews
    <3>2. \A x \in Target : targetRefs'[x] = HeldTargets(x)'
      <4> SUFFICES ASSUME NEW x \in Target PROVE targetRefs'[x] = HeldTargets(x)'
        OBVIOUS
      <4>1. QueuedTarget(1, x) = 0 /\ QueuedTarget(2, x) = 0
        BY <1>1 DEF QueuedTarget
      <4>2. /\ QueuedTarget(1, x)' = (IF dst = x THEN 1 ELSE 0)
            /\ QueuedTarget(2, x)' = (IF pipe.target = x THEN 1 ELSE 0)
        BY <2>1, <2>2 DEF QueuedTarget, Saved
      <4>3. targetRefs[x] = HeldTargets(x) /\ UNCHANGED rtvVramRemastered
        BY <1>1, <2>1 DEF RefInv, ReferencesBalance, maps
      <4> QED
        BY <2>4, <4>1, <4>2, <4>3 DEF HeldTargets
    <3> QED
      BY <3>1, <3>2 DEF ReferencesBalance
  <2>8. HooksInv' /\ CrashOnlyAfterFailure'
    BY <1>1, <2>1 DEF HooksInv, CrashOnlyAfterFailure
  <2> QED
    BY <2>5, <2>6, <2>7, <2>8 DEF IInv, RefInv
<1> QED
  BY <1>5, <1>6

\* What is released was counted, and the rest of the queue moves up.
LEMMA ServeLemma ==
  ASSUME IInv, Serve
  PROVE  IInv'
<1> USE Addresses
<1> DEFINE st == Head(upscalerDraws)
<1>1. TypeOK /\ RefInv /\ pc = "running" /\ upscalerDraws # <<>> /\ Len(upscalerDraws) \in {1, 2}
  <2>1. TypeOK /\ RefInv /\ pc = "running" /\ upscalerDraws # <<>>
    BY DEF IInv, Serve
  <2>2. upscalerDraws \in Seq(State) /\ Len(upscalerDraws) <= 2
    BY <2>1 DEF RefInv, QueueInv, TypeOK
  <2>3. Len(upscalerDraws) \in Nat /\ Len(upscalerDraws) # 0
    BY <2>1, <2>2
  <2>4. \A k \in Nat : k # 0 /\ k <= 2 => k \in {1, 2}
    OBVIOUS
  <2> QED
    BY <2>1, <2>2, <2>3, <2>4
<1>2. /\ upscalerDraws' = Tail(upscalerDraws)
      /\ pipe' = SetState(st)
      /\ viewRefs' = Release(viewRefs, st.view)
      /\ targetRefs' = Release(targetRefs, st.target)
      /\ upscalerDisabled' = (Len(upscalerDraws) > 1)
      /\ UNCHANGED <<blobs, pc, gameTextures, gameViews, viewOf, targetOf, maps, todo,
                     origin, orphaned, failed>>
  BY DEF Serve
<1>3. /\ st \in State /\ 1 \in DOMAIN upscalerDraws /\ upscalerDraws[1] = st
      /\ upscalerDraws' \in Seq(State) /\ Len(upscalerDraws') = Len(upscalerDraws) - 1
      /\ viewRefs \in [View -> Nat] /\ targetRefs \in [Target -> Nat]
  BY <1>1, <1>2 DEF TypeOK
<1>4. \A i \in {1, 2} : i \in DOMAIN upscalerDraws' =>
        i = 1 /\ 2 \in DOMAIN upscalerDraws /\ upscalerDraws'[i] = upscalerDraws[2]
  <2>1. upscalerDraws \in Seq(State)
    BY <1>1 DEF TypeOK
  <2>2. CASE Len(upscalerDraws) = 1
    BY <1>3, <2>1, <2>2
  <2>3. CASE Len(upscalerDraws) = 2
    <3>1. Len(upscalerDraws') = 1 /\ upscalerDraws'[1] = upscalerDraws[2]
      BY <1>2, <2>1, <2>3
    <3>2. DOMAIN upscalerDraws' = {1} /\ 2 \in DOMAIN upscalerDraws
      BY <1>3, <2>1, <2>3, <3>1
    <3> QED
      BY <3>1, <3>2
  <2> QED
    BY <1>1, <2>2, <2>3
<1>5. 2 \in DOMAIN upscalerDraws => 1 \in DOMAIN upscalerDraws'
  BY <1>1, <1>2, <1>3 DEF TypeOK
<1>6. (st.view \in View => viewRefs[st.view] > 0) /\ (st.target \in Target => targetRefs[st.target] > 0)
  BY <1>1, <1>3, Counted, CountedTargets DEF RefInv
<1>7. /\ viewRefs' \in [View -> Nat]
      /\ \A x \in View : viewRefs'[x] = viewRefs[x] - (IF st.view = x THEN 1 ELSE 0)
  <2> HIDE DEF st
  <2>1. viewRefs \in [View -> Nat] /\ viewRefs' = Release(viewRefs, st.view)
    BY <1>2, <1>3
  <2> QED
    BY <1>6, <2>1, ReleaseLemma
<1>8. /\ targetRefs' \in [Target -> Nat]
      /\ \A x \in Target : targetRefs'[x] = targetRefs[x] - (IF st.target = x THEN 1 ELSE 0)
  <2> HIDE DEF st
  <2>1. targetRefs \in [Target -> Nat] /\ targetRefs' = Release(targetRefs, st.target)
    BY <1>2, <1>3
  <2> QED
    BY <1>6, <2>1, ReleaseLemma
<1>9. TypeOK'
  <2>1. SetState(st) \in Pipe
    <3>1. st.view \in View \cup {Null, Absent} /\ st.target \in Target \cup {Null}
          /\ st.rest \in {"game", "upscaler", "blank"}
      BY <1>3 DEF State
    <3>2. pipe.view \in View \cup {Null}
      BY <1>1 DEF TypeOK, Pipe
    <3>3. st.view # Absent => Substitute(st.view) \in View \cup {Null}
      BY <1>1, <3>1, SubstituteType
    <3> HIDE DEF st
    <3> QED
      BY <3>1, <3>2, <3>3 DEF SetState, Pipe
  <2>2. image' \in [Texture -> Texture \cup {Null, Absent}]
    <3>1. SetState(st).view \in View \cup {Null}
      BY <2>1 DEF Pipe
    <3>2. image' = [r \in Texture |->
            IF Len(upscalerDraws) = 1 /\ todo = {} THEN Absent
            ELSE IF st.target = Null \/ r # targetOf[st.target] THEN image[r]
            ELSE IF st.draw /\ SetState(st).view # Null THEN viewOf[SetState(st).view]
            ELSE IF st.clear THEN Null ELSE image[r]]
      BY DEF Serve
    <3> HIDE DEF st
    <3> QED
      BY <1>1, <3>1, <3>2 DEF TypeOK
  <2>3. misdirected' \in BOOLEAN
    BY <1>1 DEF Serve, TypeOK
  <2>4. upscalerDisabled' \in BOOLEAN
    BY <1>2
  <2> HIDE DEF st
  <2> QED
    BY <1>1, <1>2, <1>3, <1>7, <1>8, <2>1, <2>2, <2>3, <2>4 DEF TypeOK, maps
<1>10. QueueInv' /\ MapsInv' /\ TodoInv'
  <2>1. QueueInv'
    BY <1>1, <1>3 DEF QueueInv
  <2>2. MapsInv' /\ TodoInv'
    BY <1>1, <1>2 DEF RefInv, MapsInv, TodoInv, maps
  <2> QED
    BY <2>1, <2>2
<1>11. ReferencesBalance'
  <2>1. \A x \in View : viewRefs'[x] = HeldViews(x)'
    <3> SUFFICES ASSUME NEW x \in View PROVE viewRefs'[x] = HeldViews(x)'
      OBVIOUS
    <3>1. /\ QueuedView(1, x) = (IF st.view = x THEN 1 ELSE 0)
          /\ QueuedView(2, x)' = 0
      BY <1>3, <1>4 DEF QueuedView
    <3>2. QueuedView(1, x)' = QueuedView(2, x)
      BY <1>4, <1>5 DEF QueuedView
    <3>3. viewRefs[x] = HeldViews(x) /\ UNCHANGED srvVramRemastered
      BY <1>1, <1>2 DEF RefInv, ReferencesBalance, maps
    <3>4. QueuedView(2, x) \in {0, 1}
      BY DEF QueuedView
    <3> HIDE DEF st
    <3> QED
      BY <1>7, <3>1, <3>2, <3>3, <3>4 DEF HeldViews
  <2>2. \A x \in Target : targetRefs'[x] = HeldTargets(x)'
    <3> SUFFICES ASSUME NEW x \in Target PROVE targetRefs'[x] = HeldTargets(x)'
      OBVIOUS
    <3>1. /\ QueuedTarget(1, x) = (IF st.target = x THEN 1 ELSE 0)
          /\ QueuedTarget(2, x)' = 0
      BY <1>3, <1>4 DEF QueuedTarget
    <3>2. QueuedTarget(1, x)' = QueuedTarget(2, x)
      BY <1>4, <1>5 DEF QueuedTarget
    <3>3. targetRefs[x] = HeldTargets(x) /\ UNCHANGED rtvVramRemastered
      BY <1>1, <1>2 DEF RefInv, ReferencesBalance, maps
    <3>4. QueuedTarget(2, x) \in {0, 1}
      BY DEF QueuedTarget
    <3> HIDE DEF st
    <3> QED
      BY <1>8, <3>1, <3>2, <3>3, <3>4 DEF HeldTargets
  <2> QED
    BY <2>1, <2>2 DEF ReferencesBalance
<1>12. HooksInv' /\ CrashOnlyAfterFailure'
  BY <1>1, <1>2 DEF HooksInv, CrashOnlyAfterFailure
<1> QED
  BY <1>9, <1>10, <1>11, <1>12 DEF IInv, RefInv

LEMMA NextLemma == IInv /\ [Next]_vars => IInv'
<1> SUFFICES ASSUME IInv, [Next]_vars PROVE IInv'
  OBVIOUS
<1>1. CASE UNCHANGED vars
  <2>1. TypeOK'
    BY <1>1 DEF IInv, TypeOK, vars, heap, maps, queue, ghosts
  <2>2. RefInv'
    BY <1>1, RefFrame DEF IInv, refs, vars, heap, maps, queue, ghosts
  <2>3. HooksInv' /\ CrashOnlyAfterFailure'
    BY <1>1 DEF IInv, HooksInv, CrashOnlyAfterFailure, vars, ghosts
  <2> QED
    BY <2>1, <2>2, <2>3 DEF IInv
<1>2. CASE Next
  BY <1>2, LoadLemma, CreateDeviceLemma, CreateTextureLemma, CreateVramLemma, ReleaseTextureLemma,
     CreateViewLemma, CreateVramViewLemma, FailVramViewLemma, ReleaseViewLemma,
     PSSetShaderResourcesLemma, CopySubresourceRegionLemma, BeginUpscaleLemma, UpscaleLemma,
     ServeLemma DEF Next
<1> QED
  BY <1>1, <1>2

LEMMA Invariance == Spec => []IInv
BY InitLemma, NextLemma, PTL DEF Spec

-----------------------------------------------------------------------------
(* What a pass does to the context.                                        *)

\* No pass is under way before there is a device; in a pass the hooks substitute nothing, and
\* the last of the queue is the state that the game has left.
PassInv ==
  /\ pc \in {"load", "hooked"} => ~InPass
  /\ upscalerDraws # <<>> => upscalerDisabled /\ Last(upscalerDraws).view # Absent

\* The steps, but for those that a pass takes, come while no pass is under way.
LEMMA StepLemma ==
  ASSUME Next
  PROVE  \/ \E enabled, compiled, loaded \in BOOLEAN : Load(enabled, compiled, loaded)
         \/ CreateDevice
         \/ Ready /\ (Crash \/ UNCHANGED <<pc, queue>>)
         \/ BeginUpscale
         \/ \E t \in Texture, blank \in BOOLEAN : Upscale(t, blank)
         \/ Serve
<1> DEFINE Outside == Ready /\ (Crash \/ UNCHANGED <<pc, queue>>)
<1>1. ASSUME NEW t \in Texture, CreateTexture(t) \/ ReleaseTexture(t)
      PROVE  Outside
  BY <1>1 DEF CreateTexture, ReleaseTexture, Sound, queue
<1>2. ASSUME NEW t \in Texture, NEW v \in View, CreateView(t, v)
      PROVE  Outside
  BY <1>2 DEF CreateView, Sound, queue
<1>3. ASSUME NEW t \in Texture, NEW v \in View, NEW n \in Target \cup {Null},
             NEW w \in View \cup {Null}, CreateVramView(t, v, n, w)
      PROVE  Outside
  BY <1>3 DEF CreateVramView, queue
<1>4. ASSUME NEW t \in Texture, FailVramView(t) \/ CopySubresourceRegion(t)
      PROVE  Outside
  BY <1>4 DEF FailVramView, CopySubresourceRegion, queue
<1>5. ASSUME NEW t \in Texture \cup {Null}, NEW r \in Texture \cup {Null}, CreateVram(t, r)
      PROVE  Outside
  BY <1>5 DEF CreateVram, Sound, queue
<1>6. ASSUME NEW v \in View, ReleaseView(v)
      PROVE  Outside
  BY <1>6 DEF ReleaseView, Sound, queue
<1>7. ASSUME NEW v \in View \cup {Null}, PSSetShaderResources(v)
      PROVE  Outside
  BY <1>7 DEF PSSetShaderResources, queue
<1> HIDE DEF Outside
<1>8. \/ \E enabled, compiled, loaded \in BOOLEAN : Load(enabled, compiled, loaded)
      \/ CreateDevice \/ Outside \/ BeginUpscale
      \/ \E t \in Texture, blank \in BOOLEAN : Upscale(t, blank)
      \/ Serve
  BY <1>1, <1>2, <1>3, <1>4, <1>5, <1>6, <1>7 DEF Next
<1> QED
  BY <1>8 DEF Outside

LEMMA PassLemma == Spec => []PassInv
<1>1. Init => PassInv
  BY DEF Init, PassInv, InPass
<1>2. IInv /\ PassInv /\ [Next]_vars => PassInv'
  <2> SUFFICES ASSUME IInv, PassInv, [Next]_vars PROVE PassInv'
    OBVIOUS
  <2> USE DEF PassInv, InPass
  <2>1. CASE UNCHANGED vars
    BY <2>1 DEF vars, queue
  <2>2. CASE Crash
    BY <2>2 DEF Crash, queue
  <2>3. ASSUME NEW enabled \in BOOLEAN, NEW compiled \in BOOLEAN, NEW loaded \in BOOLEAN,
               Load(enabled, compiled, loaded)
        PROVE  PassInv'
    BY <2>3 DEF Load, queue
  <2>4. CASE CreateDevice
    BY <2>2, <2>4 DEF CreateDevice, queue
  <2>5. CASE (Ready /\ UNCHANGED <<pc, queue>>) \/ BeginUpscale
    BY <2>5 DEF Ready, BeginUpscale, queue
  <2>6. ASSUME NEW t \in Texture, NEW blank \in BOOLEAN, Upscale(t, blank)
        PROVE  PassInv'
    <3>1. pipe.view # Absent
      BY Addresses DEF IInv, TypeOK, Pipe
    <3>2. CASE ~Crash
      <4> DEFINE drawn == Present(srvVram[t], rtvVramRemastered[srvVram[t]], blank)
      <4>1. pc' = "running" /\ upscalerDisabled' /\ upscalerDraws' = <<drawn, Saved>>
        BY <2>6, <3>2 DEF Upscale, Queued
      <4>2. Last(upscalerDraws').view = pipe.view
        <5> HIDE DEF drawn
        <5> QED
          BY <4>1 DEF Last, Saved
      <4> QED
        BY <3>1, <4>1, <4>2
    <3> QED
      BY <2>2, <3>2
  <2>7. CASE Serve
    <3>1. /\ pc' = "running" /\ upscalerDraws # <<>> /\ upscalerDraws' = Tail(upscalerDraws)
          /\ upscalerDisabled' = (Len(upscalerDraws) > 1) /\ upscalerDraws \in Seq(State)
      BY <2>7 DEF Serve, IInv, TypeOK
    <3>2. upscalerDraws' # <<>> => Len(upscalerDraws) > 1 /\ Last(upscalerDraws') = Last(upscalerDraws)
      BY <3>1 DEF Last
    <3> QED
      BY <3>1, <3>2
  <2> QED
    BY <2>1, <2>2, <2>3, <2>4, <2>5, <2>6, <2>7, StepLemma
<1> QED
  BY <1>1, <1>2, Invariance, PTL DEF Spec

-----------------------------------------------------------------------------
(* Whose remastered textures the maps have.                                *)

\* The element of texVram that std::find gives.
First(i) == \A j \in 1 .. i - 1 : texVram[j] # texVram[i]

\* What is in the maps is alive: views of textures, and targets.
ViewsInv ==
  /\ \A t \in Texture : srvVram[t] # Absent => viewOf[srvVram[t]] = t
  /\ \A v \in View : srvVramRemastered[v] # Absent => viewOf[v] \in Texture
  /\ \A v \in View : srvVramRemastered[v] \in View => viewOf[srvVramRemastered[v]] \in Texture
  /\ \A v \in View : rtvVramRemastered[v] \in Target => targetOf[rtvVramRemastered[v]] \in Texture

\* No two elements of texVram have one remastered texture, and the target that is found for a
\* texture is one of that of its first element.
PairsInv ==
  /\ \A i, j \in DOMAIN texVramRemastered :
       texVramRemastered[i] = texVramRemastered[j] /\ texVramRemastered[i] # Null => i = j
  /\ \A t \in Texture : srvVram[t] # Absent /\ rtvVramRemastered[srvVram[t]] # Null =>
       \E i \in DOMAIN texVram :
         /\ texVram[i] = t /\ First(i) /\ texVramRemastered[i] # Null
         /\ targetOf[rtvVramRemastered[srvVram[t]]] = texVramRemastered[i]

\* What a first element, a view and a target lead to was made for their texture.
OriginInv == ~orphaned =>
  /\ \A i \in DOMAIN texVram :
       First(i) /\ texVram[i] # Null /\ texVramRemastered[i] # Null =>
         origin[texVramRemastered[i]] = texVram[i]
  /\ \A v \in View : srvVramRemastered[v] \in View =>
       origin[viewOf[srvVramRemastered[v]]] = viewOf[v]
  /\ \A v \in View : rtvVramRemastered[v] \in Target =>
       origin[targetOf[rtvVramRemastered[v]]] = viewOf[v]

ObjectInv == ViewsInv /\ PairsInv /\ OriginInv

\* Each view and target in the maps has a reference.
LEMMA Held ==
  ASSUME IInv
  PROVE  /\ \A v \in View : srvVramRemastered[v] # Absent => viewRefs[v] > 0
         /\ \A v \in View : srvVramRemastered[v] \in View => viewRefs[srvVramRemastered[v]] > 0
         /\ \A v \in View : rtvVramRemastered[v] # Null =>
              /\ viewRefs[v] > 0 /\ srvVramRemastered[v] # Absent
              /\ rtvVramRemastered[v] \in Target /\ targetRefs[rtvVramRemastered[v]] > 0
         /\ \A t \in Texture : srvVram[t] # Absent =>
              /\ srvVram[t] \in View /\ viewRefs[srvVram[t]] > 0
              /\ srvVramRemastered[srvVram[t]] # Absent
<1>1. TypeOK /\ ReferencesBalance /\ MapsInv
  BY DEF IInv, RefInv
<1>2. \A v \in View : srvVramRemastered[v] # Absent => viewRefs[v] > 0
  BY <1>1, Counted
<1>3. \A v \in View : srvVramRemastered[v] \in View => viewRefs[srvVramRemastered[v]] > 0
  BY <1>1, Counted
<1>4. ASSUME NEW v \in View, rtvVramRemastered[v] # Null
      PROVE  /\ viewRefs[v] > 0 /\ srvVramRemastered[v] # Absent
             /\ rtvVramRemastered[v] \in Target /\ targetRefs[rtvVramRemastered[v]] > 0
  <2>1. srvVramRemastered[v] # Absent /\ rtvVramRemastered[v] \in Target
    BY <1>1, <1>4 DEF MapsInv, TypeOK
  <2> QED
    BY <1>1, <1>2, <2>1, CountedTargets
<1>5. ASSUME NEW t \in Texture, srvVram[t] # Absent
      PROVE  /\ srvVram[t] \in View /\ viewRefs[srvVram[t]] > 0
             /\ srvVramRemastered[srvVram[t]] # Absent
  <2>1. srvVram[t] \in View /\ srvVramRemastered[srvVram[t]] # Absent
    BY <1>1, <1>5 DEF MapsInv, TypeOK
  <2> QED
    BY <1>2, <2>1
<1> QED
  BY <1>2, <1>3, <1>4, <1>5

\* A step that leaves the maps, their views and their targets as they are.
LEMMA ObjectFrame ==
  ASSUME IInv, ObjectInv, UNCHANGED <<maps, targetOf, origin, orphaned>>,
         \A v \in View : viewRefs[v] > 0 => viewOf'[v] = viewOf[v]
  PROVE  ObjectInv'
<1>1. ViewsInv'
  BY Held DEF ObjectInv, ViewsInv, maps
<1>2. PairsInv'
  BY DEF ObjectInv, PairsInv, First, maps
<1>3. OriginInv'
  <2>1. UNCHANGED <<texVram, texVramRemastered, srvVramRemastered, rtvVramRemastered>>
    BY DEF maps
  <2>2. \A v \in View : srvVramRemastered[v] \in View =>
          viewOf'[srvVramRemastered[v]] = viewOf[srvVramRemastered[v]] /\ viewOf'[v] = viewOf[v]
    BY Held, Addresses
  <2>3. \A v \in View : rtvVramRemastered[v] \in Target => viewOf'[v] = viewOf[v]
    BY Held, Addresses
  <2> QED
    BY <2>1, <2>2, <2>3 DEF ObjectInv, OriginInv, First
<1> QED
  BY <1>1, <1>2, <1>3 DEF ObjectInv

\* A view that has a reference is not buried.
LEMMA BuryFrame ==
  ASSUME Bury, UNCHANGED viewRefs, NEW v \in View, viewRefs[v] > 0
  PROVE  viewOf'[v] = viewOf[v]
BY DEF Bury, LiveView

\* A texture that is dead is none that the maps lead to.
LEMMA DeadTexture ==
  ASSUME IInv, ObjectInv, NEW x \in Texture, ~LiveTexture(x)
  PROVE  /\ srvVram[x] = Absent
         /\ \A v \in View : srvVramRemastered[v] # Absent => viewOf[v] # x
         /\ \A v \in View : srvVramRemastered[v] \in View => viewOf[srvVramRemastered[v]] # x
         /\ \A v \in View : rtvVramRemastered[v] \in Target =>
              viewOf[v] # x /\ targetOf[rtvVramRemastered[v]] # x
         /\ \A i \in DOMAIN texVramRemastered : texVramRemastered[i] # x
<1>1. \A v \in View : viewRefs[v] > 0 => viewOf[v] # x
  BY DEF LiveTexture, LiveView
<1>2. \A n \in Target : targetRefs[n] > 0 => targetOf[n] # x
  BY DEF LiveTexture, LiveTarget
<1>3. \A i \in DOMAIN texVramRemastered : texVramRemastered[i] # x
  BY DEF LiveTexture, Elements
<1>4. srvVram[x] = Absent
  BY <1>1, Held DEF ObjectInv, ViewsInv
<1>5. \A v \in View : rtvVramRemastered[v] \in Target =>
        viewOf[v] # x /\ targetOf[rtvVramRemastered[v]] # x
  BY <1>1, <1>2, Held, Addresses
<1>6. \A v \in View : srvVramRemastered[v] \in View => viewOf[srvVramRemastered[v]] # x
  BY <1>1, Held
<1> QED
  BY <1>1, <1>3, <1>4, <1>5, <1>6, Held

\* std::find leads to the texture that was made for t.
LEMMA FoundOwn ==
  ASSUME TypeOK, OriginInv, ~orphaned, NEW t \in Texture, NEW r \in Remastered(t)
  PROVE  (r # Null => origin[r] = t) /\ ~Foreign(t, r)
<1>1. PICK i \in DOMAIN texVram : texVramRemastered[i] = r /\ texVram[i] = t /\ First(i)
  BY DEF Remastered, First
<1> QED
  BY <1>1, Addresses DEF OriginInv, Foreign

LEMMA CreateTextureOwn ==
  ASSUME IInv, ObjectInv, NEW t \in Texture, CreateTexture(t)
  PROVE  ObjectInv'
<1>1. TypeOK /\ ~LiveTexture(t) /\ UNCHANGED <<viewOf, targetOf, maps>>
  BY DEF IInv, CreateTexture, NewTexture
<1>2. ViewsInv' /\ PairsInv'
  BY <1>1 DEF ObjectInv, ViewsInv, PairsInv, First, maps
<1>3. OriginInv'
  <2> SUFFICES ASSUME ~orphaned' PROVE OriginInv'
    BY DEF OriginInv
  <2>1. ~orphaned /\ t \notin Elements(texVram)
    BY DeadTexture, <1>1 DEF CreateTexture, Reuse
  <2>2. origin' = [r \in Texture |-> IF r = t \/ origin[r] = t THEN Null ELSE origin[r]]
    BY DEF CreateTexture
  <2>3. ASSUME NEW i \in DOMAIN texVram, First(i), texVram[i] # Null, texVramRemastered[i] # Null
        PROVE  origin'[texVramRemastered[i]] = texVram[i]
    <3>1. texVramRemastered[i] \in Texture /\ texVramRemastered[i] # t
      BY <1>1, <2>3, DeadTexture DEF TypeOK
    <3>2. texVram[i] # t
      BY <2>1 DEF Elements
    <3> QED
      BY <2>1, <2>2, <2>3, <3>1, <3>2 DEF ObjectInv, OriginInv
  <2>4. ASSUME NEW v \in View, srvVramRemastered[v] \in View
        PROVE  origin'[viewOf[srvVramRemastered[v]]] = viewOf[v]
    <3>1. /\ viewOf[srvVramRemastered[v]] \in Texture \ {t}
          /\ viewOf[v] # t
      BY <1>1, <2>4, DeadTexture, Addresses DEF ObjectInv, ViewsInv
    <3> QED
      BY <2>1, <2>2, <2>4, <3>1 DEF ObjectInv, OriginInv
  <2>5. ASSUME NEW v \in View, rtvVramRemastered[v] \in Target
        PROVE  origin'[targetOf[rtvVramRemastered[v]]] = viewOf[v]
    <3>1. targetOf[rtvVramRemastered[v]] \in Texture \ {t} /\ viewOf[v] # t
      BY <1>1, <2>5, DeadTexture DEF ObjectInv, ViewsInv
    <3> QED
      BY <2>1, <2>2, <2>5, <3>1 DEF ObjectInv, OriginInv
  <2> QED
    BY <1>1, <2>3, <2>4, <2>5 DEF OriginInv, First, maps
<1> QED
  BY <1>2, <1>3 DEF ObjectInv

\* The new element is the first with its texture, or the texture of an element has died.
LEMMA CreateVramOwn ==
  ASSUME IInv, ObjectInv, NEW t \in Texture \cup {Null}, NEW r \in Texture \cup {Null},
         CreateVram(t, r)
  PROVE  ObjectInv'
<1> USE Addresses
<1> DEFINE n == Len(texVram)
<1>1. /\ TypeOK /\ \A x \in {t, r} \ {Null} : x \in Texture /\ ~LiveTexture(x)
      /\ UNCHANGED <<viewOf, targetOf, srvVram, srvVramRemastered, rtvVramRemastered>>
  BY DEF IInv, CreateVram, NewTexture
<1>2. /\ n \in Nat /\ DOMAIN texVram = 1 .. n /\ DOMAIN texVramRemastered = 1 .. n
      /\ DOMAIN texVram' = 1 .. n + 1 /\ DOMAIN texVramRemastered' = 1 .. n + 1
      /\ texVram'[n + 1] = t /\ texVramRemastered'[n + 1] = r
      /\ \A i \in 1 .. n : texVram'[i] = texVram[i] /\ texVramRemastered'[i] = texVramRemastered[i]
  BY <1>1 DEF TypeOK, CreateVram
<1>3. \A i \in 1 .. n : First(i)' <=> First(i)
  <2> SUFFICES ASSUME NEW i \in 1 .. n PROVE First(i)' <=> First(i)
    OBVIOUS
  <2>1. \A j \in 1 .. i - 1 : j \in 1 .. n
    BY <1>2
  <2> QED
    BY <1>2, <2>1 DEF First
<1>4. ViewsInv'
  BY <1>1 DEF ObjectInv, ViewsInv
<1>5. PairsInv'
  <2>1. r # Null => \A i \in 1 .. n : texVramRemastered[i] # r
    BY <1>1, <1>2, DeadTexture
  <2>2. ASSUME NEW i \in 1 .. n + 1, NEW j \in 1 .. n + 1,
               texVramRemastered'[i] = texVramRemastered'[j], texVramRemastered'[i] # Null
        PROVE  i = j
    <3>1. (i \in 1 .. n \/ i = n + 1) /\ (j \in 1 .. n \/ j = n + 1)
      BY <1>2
    <3>2. CASE i \in 1 .. n /\ j \in 1 .. n
      BY <1>2, <2>2, <3>2 DEF ObjectInv, PairsInv
    <3> HIDE DEF n
    <3> QED
      BY <1>2, <2>1, <2>2, <3>1, <3>2
  <2>3. ASSUME NEW u \in Texture, srvVram[u] # Absent, rtvVramRemastered[srvVram[u]] # Null
        PROVE  \E i \in 1 .. n + 1 :
                 /\ texVram'[i] = u /\ First(i)' /\ texVramRemastered'[i] # Null
                 /\ targetOf[rtvVramRemastered[srvVram[u]]] = texVramRemastered'[i]
    <3>1. PICK i \in 1 .. n :
            /\ texVram[i] = u /\ First(i) /\ texVramRemastered[i] # Null
            /\ targetOf[rtvVramRemastered[srvVram[u]]] = texVramRemastered[i]
      BY <1>2, <2>3 DEF ObjectInv, PairsInv
    <3>2. i \in 1 .. n + 1
      BY <1>2
    <3> QED
      BY <1>2, <1>3, <3>1, <3>2
  <2> QED
    BY <1>1, <1>2, <2>2, <2>3 DEF PairsInv
<1>6. OriginInv'
  <2> SUFFICES ASSUME ~orphaned' PROVE OriginInv'
    BY DEF OriginInv
  <2>1. ~orphaned /\ \A x \in {t, r} \ {Null} : x \notin Elements(texVram)
    BY DeadTexture, <1>1 DEF CreateVram, Reuse
  <2>2. origin' = [s \in Texture |-> IF s = r THEN t
                     ELSE IF s = t \/ origin[s] \in {t, r} THEN Null ELSE origin[s]]
    BY DEF CreateVram
  <2>3. ASSUME NEW i \in 1 .. n + 1, First(i)', texVram'[i] # Null, texVramRemastered'[i] # Null
        PROVE  origin'[texVramRemastered'[i]] = texVram'[i]
    <3>1. CASE i = n + 1
      BY <1>1, <1>2, <2>2, <2>3, <3>1
    <3>2. CASE i \in 1 .. n
      <4>1. texVramRemastered[i] \in Texture \ {t, r} /\ texVram[i] \notin {t, r}
        <5>1. texVram[i] # Null /\ texVramRemastered[i] # Null /\ i \in DOMAIN texVramRemastered
          BY <1>2, <2>3, <3>2
        <5>2. texVramRemastered[i] \in Texture
          BY <1>1, <5>1 DEF TypeOK
        <5>3. \A x \in {t, r} \ {Null} : texVramRemastered[i] # x
          BY <1>1, <5>1, DeadTexture
        <5>4. texVram[i] \in Elements(texVram)
          BY <1>2, <3>2 DEF Elements
        <5> QED
          BY <2>1, <5>1, <5>2, <5>3, <5>4
      <4>2. origin[texVramRemastered[i]] = texVram[i]
        BY <1>2, <1>3, <2>1, <2>3, <3>2 DEF ObjectInv, OriginInv
      <4> QED
        BY <1>2, <2>2, <3>2, <4>1, <4>2
    <3> QED
      BY <1>2, <3>1, <3>2
  <2>4. ASSUME NEW v \in View, srvVramRemastered[v] \in View
        PROVE  origin'[viewOf[srvVramRemastered[v]]] = viewOf[v]
    <3>1. viewOf[srvVramRemastered[v]] \in Texture \ {t, r} /\ viewOf[v] \in Texture \ {t, r}
      BY <1>1, <2>4, DeadTexture DEF ObjectInv, ViewsInv
    <3> QED
      BY <2>1, <2>2, <2>4, <3>1 DEF ObjectInv, OriginInv
  <2>5. ASSUME NEW v \in View, rtvVramRemastered[v] \in Target
        PROVE  origin'[targetOf[rtvVramRemastered[v]]] = viewOf[v]
    <3>1. targetOf[rtvVramRemastered[v]] \in Texture \ {t, r} /\ viewOf[v] \in Texture \ {t, r}
      <4>1. srvVramRemastered[v] # Absent
        BY <2>5, Held
      <4> QED
        BY <1>1, <2>5, <4>1, DeadTexture DEF ObjectInv, ViewsInv
    <3> QED
      BY <2>1, <2>2, <2>5, <3>1 DEF ObjectInv, OriginInv
  <2> QED
    BY <1>1, <1>2, <2>3, <2>4, <2>5 DEF OriginInv
<1> QED
  BY <1>4, <1>5, <1>6 DEF ObjectInv

\* The new view, its remastered view and target are in no map before, and get a texture and what
\* was made for it.
LEMMA CreateVramViewOwn ==
  ASSUME IInv, ObjectInv, NEW t \in Texture, NEW v \in View, NEW n \in Target \cup {Null},
         NEW w \in View \cup {Null}, CreateVramView(t, v, n, w)
  PROVE  ObjectInv'
<1> USE Addresses
<1>1. PICK r \in Remastered(t) :
      /\ n # Null => r # Null /\ n \in NewTarget
      /\ w # Null => r # Null /\ w # v /\ ~LiveView(w)
      /\ viewOf' = [u \in View |-> IF u = v THEN t ELSE IF u = w THEN r ELSE viewOf[u]]
      /\ targetOf' = [u \in Target |-> IF u = n THEN r ELSE targetOf[u]]
  BY DEF CreateVramView
<1>2. TypeOK /\ OriginInv /\ ViewsInv /\ PairsInv
  BY DEF IInv, ObjectInv
<1>3. r \in Texture \cup {Null}
  BY <1>2 DEF Remastered, TypeOK
<1>4. viewRefs[v] = 0 /\ (w # Null => viewRefs[w] = 0) /\ (n # Null => targetRefs[n] = 0)
  BY <1>1, <1>2 DEF CreateVramView, TypeOK, NewView, NewTarget, LiveView, LiveTarget
<1>5. /\ UNCHANGED <<texVram, texVramRemastered, origin, orphaned>>
      /\ srvVram' = [srvVram EXCEPT ![t] = v]
      /\ srvVramRemastered' = [srvVramRemastered EXCEPT ![v] = w]
      /\ rtvVramRemastered' = [rtvVramRemastered EXCEPT ![v] = n]
  BY DEF CreateVramView, ByView
<1>6. /\ viewOf'[v] = t /\ (w # Null => viewOf'[w] = r) /\ (n # Null => targetOf'[n] = r)
      /\ srvVram'[t] = v /\ srvVramRemastered'[v] = w /\ rtvVramRemastered'[v] = n
  BY <1>1, <1>2, <1>5 DEF TypeOK
<1>7. \A u \in View : viewRefs[u] > 0 => u # v /\ viewOf'[u] = viewOf[u]
  <2> SUFFICES ASSUME NEW u \in View, viewRefs[u] > 0 PROVE u # v /\ viewOf'[u] = viewOf[u]
    OBVIOUS
  <2>1. u # v /\ u # w
    BY <1>4
  <2> QED
    BY <1>1, <2>1
<1>8. \A m \in Target : targetRefs[m] > 0 => targetOf'[m] = targetOf[m]
  <2> SUFFICES ASSUME NEW m \in Target, targetRefs[m] > 0 PROVE targetOf'[m] = targetOf[m]
    OBVIOUS
  <2>1. m # n
    BY <1>4
  <2> QED
    BY <1>1, <2>1
<1>9. \A u \in View : u # v => /\ srvVramRemastered'[u] = srvVramRemastered[u]
                               /\ rtvVramRemastered'[u] = rtvVramRemastered[u]
  BY <1>2, <1>5 DEF TypeOK
<1>10. \A x \in Texture : x # t => srvVram'[x] = srvVram[x]
  BY <1>2, <1>5 DEF TypeOK
<1>11. ViewsInv'
  <2>1. ASSUME NEW x \in Texture, srvVram'[x] # Absent
        PROVE  viewOf'[srvVram'[x]] = x
    <3>1. CASE x = t
      BY <1>6, <3>1
    <3>2. CASE x # t
      BY <1>2, <1>7, <1>10, <2>1, <3>2, Held DEF ViewsInv
    <3> QED
      BY <3>1, <3>2
  <2>2. ASSUME NEW u \in View, srvVramRemastered'[u] # Absent
        PROVE  viewOf'[u] \in Texture
    BY <1>2, <1>6, <1>7, <1>9, <2>2, Held DEF ViewsInv
  <2>3. ASSUME NEW u \in View, srvVramRemastered'[u] \in View
        PROVE  viewOf'[srvVramRemastered'[u]] \in Texture
    BY <1>1, <1>2, <1>3, <1>6, <1>7, <1>9, <2>3, Held DEF ViewsInv
  <2>4. ASSUME NEW u \in View, rtvVramRemastered'[u] \in Target
        PROVE  targetOf'[rtvVramRemastered'[u]] \in Texture
    BY <1>1, <1>2, <1>3, <1>6, <1>8, <1>9, <2>4, Held DEF ViewsInv
  <2> QED
    BY <2>1, <2>2, <2>3, <2>4 DEF ViewsInv
<1>12. PairsInv'
  <2>1. ASSUME NEW x \in Texture, srvVram'[x] # Absent, rtvVramRemastered'[srvVram'[x]] # Null
        PROVE  \E i \in DOMAIN texVram :
                 /\ texVram[i] = x /\ First(i) /\ texVramRemastered[i] # Null
                 /\ targetOf'[rtvVramRemastered'[srvVram'[x]]] = texVramRemastered[i]
    <3>1. CASE x = t
      <4>1. \E i \in DOMAIN texVram : texVram[i] = t /\ First(i) /\ texVramRemastered[i] = r
        BY DEF Remastered, First
      <4> QED
        BY <1>1, <1>6, <2>1, <3>1, <4>1
    <3>2. CASE x # t
      <4>1. /\ srvVram'[x] = srvVram[x] /\ srvVram[x] \in View /\ srvVram[x] # v
            /\ rtvVramRemastered'[srvVram[x]] = rtvVramRemastered[srvVram[x]]
        BY <1>7, <1>9, <1>10, <2>1, <3>2, Held
      <4>2. targetOf'[rtvVramRemastered[srvVram[x]]] = targetOf[rtvVramRemastered[srvVram[x]]]
        BY <1>8, <2>1, <4>1, Held
      <4> QED
        BY <1>2, <2>1, <4>1, <4>2 DEF PairsInv
    <3> QED
      BY <3>1, <3>2
  <2> QED
    BY <1>2, <1>5, <2>1 DEF PairsInv, First
<1>13. OriginInv'
  <2> SUFFICES ASSUME ~orphaned' PROVE OriginInv'
    BY DEF OriginInv
  <2>0. ~orphaned
    BY <1>5
  <2>1. r # Null => origin[r] = t
    BY <1>2, <2>0, FoundOwn
  <2>2. ASSUME NEW u \in View, srvVramRemastered'[u] \in View
        PROVE  origin[viewOf'[srvVramRemastered'[u]]] = viewOf'[u]
    <3>1. CASE u = v
      BY <1>1, <1>6, <2>1, <2>2, <3>1
    <3>2. CASE u # v
      BY <1>2, <1>7, <1>9, <2>0, <2>2, <3>2, Held DEF OriginInv
    <3> QED
      BY <3>1, <3>2
  <2>3. ASSUME NEW u \in View, rtvVramRemastered'[u] \in Target
        PROVE  origin[targetOf'[rtvVramRemastered'[u]]] = viewOf'[u]
    <3>1. CASE u = v
      BY <1>1, <1>6, <2>1, <2>3, <3>1
    <3>2. CASE u # v
      BY <1>2, <1>7, <1>8, <1>9, <2>0, <2>3, <3>2, Held DEF OriginInv
    <3> QED
      BY <3>1, <3>2
  <2> QED
    BY <1>2, <1>5, <2>0, <2>2, <2>3 DEF OriginInv, First
<1> QED
  BY <1>11, <1>12, <1>13 DEF ObjectInv

-----------------------------------------------------------------------------
(* What a pass draws.                                                      *)

\* The state that a pass pushes to the front draws a texture to its target or clears that, and
\* the last of the queue does neither.
Drawn(st) ==
  \E t \in Texture \ todo, blank \in BOOLEAN :
    /\ srvVram[t] # Absent /\ rtvVramRemastered[srvVram[t]] # Null
    /\ st = Present(srvVram[t], rtvVramRemastered[srvVram[t]], blank)

DrawInv ==
  /\ Len(upscalerDraws) = 2 => Drawn(upscalerDraws[1])
  /\ upscalerDraws # <<>> => ~Last(upscalerDraws).draw /\ ~Last(upscalerDraws).clear

\* What a pass has come past has a target, and shows itself or will when the queue is served.
ShownInv ==
  InPass => \A t \in Texture \ todo : srvVram[t] # Absent =>
    /\ rtvVramRemastered[srvVram[t]] # Null
    /\ \/ Len(upscalerDraws) = 2 /\ upscalerDraws[1].target = rtvVramRemastered[srvVram[t]]
       \/ image[targetOf[rtvVramRemastered[srvVram[t]]]] \in {t, Null}

\* Each texture has a target of its own.
LEMMA OwnTarget ==
  ASSUME PairsInv, NEW t \in Texture, NEW u \in Texture,
         srvVram[t] # Absent, rtvVramRemastered[srvVram[t]] # Null,
         srvVram[u] # Absent, rtvVramRemastered[srvVram[u]] # Null,
         targetOf[rtvVramRemastered[srvVram[t]]] = targetOf[rtvVramRemastered[srvVram[u]]],
         DOMAIN texVram = DOMAIN texVramRemastered
  PROVE  t = u
<1>1. PICK i \in DOMAIN texVram :
        /\ texVram[i] = t /\ texVramRemastered[i] # Null
        /\ targetOf[rtvVramRemastered[srvVram[t]]] = texVramRemastered[i]
  BY DEF PairsInv
<1>2. PICK j \in DOMAIN texVram :
        /\ texVram[j] = u /\ texVramRemastered[j] # Null
        /\ targetOf[rtvVramRemastered[srvVram[u]]] = texVramRemastered[j]
  BY DEF PairsInv
<1> QED
  BY <1>1, <1>2 DEF PairsInv

-----------------------------------------------------------------------------
(* Every step keeps what the maps lead to, and misdirects nothing.         *)

OwnInv == ObjectInv /\ OwnRemastered

LEMMA SubstituteOwn ==
  ASSUME TypeOK, OriginInv, ~orphaned, NEW v \in View, Substitute(v) # Null
  PROVE  ~Foreign(viewOf[v], viewOf[Substitute(v)])
<1>1. Substitute(v) = v \/ (Substitute(v) = srvVramRemastered[v] /\ srvVramRemastered[v] \in View)
  BY DEF Substitute, TypeOK
<1> QED
  BY <1>1 DEF OriginInv, Foreign

\* What a pass draws into a target is the texture that the target was made for.
LEMMA ServeOwn ==
  ASSUME IInv, PassInv, DrawInv, OwnInv, Serve
  PROVE  OwnInv'
<1> USE Addresses
<1> DEFINE st == Head(upscalerDraws)
           set == SetState(st)
<1>1. /\ UNCHANGED <<viewOf, targetOf, maps, origin, orphaned>>
      /\ misdirected' = (misdirected \/ (st.draw /\ set.view # Null
                                           /\ Foreign(viewOf[set.view], targetOf[st.target])))
      /\ upscalerDraws # <<>> /\ upscalerDisabled
  BY DEF Serve, PassInv
<1>2. ObjectInv'
  BY <1>1, ObjectFrame DEF OwnInv
<1>3. ASSUME ~orphaned, st.draw, set.view # Null
      PROVE  ~Foreign(viewOf[set.view], targetOf[st.target])
  <2>1. upscalerDraws \in Seq(State) /\ Len(upscalerDraws) \in {1, 2} /\ st = upscalerDraws[1]
    <3>1. upscalerDraws \in Seq(State) /\ Len(upscalerDraws) <= 2
      BY DEF IInv, TypeOK, RefInv, QueueInv
    <3>2. Len(upscalerDraws) \in Nat /\ Len(upscalerDraws) # 0
      BY <1>1, <3>1
    <3>3. \A k \in Nat : k # 0 /\ k <= 2 => k \in {1, 2}
      OBVIOUS
    <3>4. st = upscalerDraws[1]
      BY <1>1, <3>1
    <3>5. Len(upscalerDraws) \in {1, 2}
      BY <3>1, <3>2, <3>3
    <3> HIDE DEF st
    <3> QED
      BY <3>1, <3>4, <3>5
  <2>2. Len(upscalerDraws) = 2
    BY <1>1, <1>3, <2>1 DEF DrawInv, Last
  <2>3. PICK t \in Texture, blank \in BOOLEAN :
          /\ srvVram[t] # Absent /\ rtvVramRemastered[srvVram[t]] # Null
          /\ st = Present(srvVram[t], rtvVramRemastered[srvVram[t]], blank)
    BY <2>1, <2>2 DEF DrawInv, Drawn
  <2>4. st.view = srvVram[t] /\ st.target = rtvVramRemastered[srvVram[t]]
    <3> HIDE DEF st
    <3> QED
      BY <1>3, <2>3 DEF Present
  <2>5. set.view = srvVram[t] /\ srvVram[t] \in View /\ rtvVramRemastered[srvVram[t]] \in Target
    <3>1. srvVram[t] \in View /\ rtvVramRemastered[srvVram[t]] \in Target
      BY <2>3, Held
    <3> HIDE DEF st
    <3> QED
      BY <1>1, <2>4, <3>1 DEF SetState, Substitute
  <2>6. origin[targetOf[rtvVramRemastered[srvVram[t]]]] = viewOf[srvVram[t]]
    BY <1>3, <2>5 DEF OwnInv, ObjectInv, OriginInv
  <2> HIDE DEF st, set
  <2> QED
    BY <2>4, <2>5, <2>6 DEF Foreign
<1> HIDE DEF st, set
<1>4. OwnRemastered'
  BY <1>1, <1>3 DEF OwnInv, OwnRemastered
<1> QED
  BY <1>2, <1>4 DEF OwnInv

LEMMA OwnStep ==
  ASSUME IInv, PassInv, DrawInv, OwnInv, [Next]_vars
  PROVE  OwnInv'
<1> USE DEF OwnInv
<1>1. ASSUME UNCHANGED <<viewOf, targetOf, maps, origin, orphaned, misdirected>>
      PROVE  OwnInv'
  BY <1>1, ObjectFrame DEF OwnRemastered
<1>2. CASE UNCHANGED vars
  BY <1>1, <1>2 DEF vars, heap, ghosts
<1>3. ASSUME Crash PROVE OwnInv'
  BY <1>1, <1>3 DEF Crash, heap
<1>4. ASSUME NEW enabled \in BOOLEAN, NEW compiled \in BOOLEAN, NEW loaded \in BOOLEAN,
             Load(enabled, compiled, loaded)
      PROVE  OwnInv'
  BY <1>1, <1>4 DEF Load, heap
<1>5. CASE CreateDevice
  BY <1>1, <1>3, <1>5 DEF CreateDevice, heap, ghosts
<1>6. ASSUME NEW t \in Texture, CreateTexture(t) PROVE OwnInv'
  BY <1>6, CreateTextureOwn DEF CreateTexture, Sound, OwnRemastered
<1>7. ASSUME NEW t \in Texture, ReleaseTexture(t) PROVE OwnInv'
  BY <1>1, <1>7 DEF ReleaseTexture, ghosts
<1>8. ASSUME NEW t \in Texture, NEW v \in View, CreateView(t, v) PROVE OwnInv'
  <2>1. /\ UNCHANGED <<targetOf, maps, ghosts>> /\ viewOf' = [viewOf EXCEPT ![v] = t]
        /\ viewRefs \in [View -> Nat] /\ viewOf \in [View -> Texture \cup {Null, Absent}]
        /\ ~LiveView(v)
    BY <1>8 DEF CreateView, NewView, IInv, TypeOK
  <2>2. \A u \in View : viewRefs[u] > 0 => viewOf'[u] = viewOf[u]
    BY <2>1 DEF LiveView
  <2> QED
    BY <2>1, <2>2, ObjectFrame DEF OwnRemastered, ghosts
<1>9. ASSUME NEW t \in Texture, NEW v \in View, NEW n \in Target \cup {Null},
             NEW w \in View \cup {Null}, CreateVramView(t, v, n, w)
      PROVE  OwnInv'
  <2>1. PICK r \in Remastered(t) : misdirected' = (misdirected \/ Foreign(t, r))
    BY <1>9 DEF CreateVramView
  <2>2. UNCHANGED orphaned /\ TypeOK
    BY <1>9 DEF CreateVramView, IInv
  <2> QED
    BY <1>9, <2>1, <2>2, CreateVramViewOwn, FoundOwn DEF ObjectInv, OwnRemastered
<1>10. ASSUME NEW t \in Texture, FailVramView(t) PROVE OwnInv'
  BY <1>3, <1>10 DEF FailVramView
<1>11. ASSUME NEW t \in Texture, CopySubresourceRegion(t) PROVE OwnInv'
  <2>1. /\ UNCHANGED <<heap, maps, origin, orphaned>> /\ TypeOK
        /\ misdirected' = (misdirected \/ (Registered(t) /\ \E r \in Remastered(t) : Foreign(t, r)))
    BY <1>11 DEF CopySubresourceRegion, IInv
  <2>2. ObjectInv'
    BY <2>1, ObjectFrame DEF heap
  <2> QED
    BY <2>1, <2>2, FoundOwn DEF ObjectInv, OwnRemastered
<1>12. ASSUME NEW t \in Texture, NEW blank \in BOOLEAN, Upscale(t, blank) PROVE OwnInv'
  BY <1>1, <1>3, <1>12 DEF Upscale, ghosts
<1>13. ASSUME NEW t \in Texture \cup {Null}, NEW r \in Texture \cup {Null}, CreateVram(t, r)
       PROVE  OwnInv'
  BY <1>13, CreateVramOwn DEF CreateVram, Sound, OwnRemastered
<1>14. ASSUME NEW v \in View, ReleaseView(v) PROVE OwnInv'
  <2>1. Bury /\ UNCHANGED <<viewRefs, targetOf, maps, ghosts>>
    BY <1>14 DEF ReleaseView
  <2>2. \A u \in View : viewRefs[u] > 0 => viewOf'[u] = viewOf[u]
    BY <2>1, BuryFrame
  <2> QED
    BY <2>1, <2>2, ObjectFrame DEF OwnRemastered, ghosts
<1>15. ASSUME NEW v \in View \cup {Null}, PSSetShaderResources(v) PROVE OwnInv'
  <2>1. /\ Bury /\ UNCHANGED <<viewRefs, targetOf, maps, origin, orphaned>> /\ TypeOK
        /\ misdirected' = (misdirected \/ (v # Null /\ Substitute(v) # Null
                                             /\ Foreign(viewOf[v], viewOf[Substitute(v)])))
    BY <1>15 DEF PSSetShaderResources, IInv
  <2>2. \A u \in View : viewRefs[u] > 0 => viewOf'[u] = viewOf[u]
    BY <2>1, BuryFrame
  <2>3. ObjectInv'
    BY <2>1, <2>2, ObjectFrame
  <2>4. OwnRemastered'
    BY <2>1, SubstituteOwn DEF ObjectInv, OwnRemastered
  <2> QED
    BY <2>3, <2>4
<1>16. CASE BeginUpscale
  BY <1>1, <1>16 DEF BeginUpscale, heap, ghosts
<1>17. CASE Serve
  BY <1>17, ServeOwn
<1> QED
  BY <1>2, <1>4, <1>5, <1>6, <1>7, <1>8, <1>9, <1>10, <1>11, <1>12, <1>13, <1>14, <1>15, <1>16, <1>17
  DEF Next

\* A step of a pass keeps what has been shown, for each texture has a target of its own.
LEMMA ServeShown ==
  ASSUME IInv, PassInv, ObjectInv, DrawInv, ShownInv, Serve
  PROVE  DrawInv' /\ ShownInv'
<1> USE Addresses
<1> DEFINE st == Head(upscalerDraws)
           set == SetState(st)
<1>1. /\ UNCHANGED <<viewOf, targetOf, maps, todo>> /\ upscalerDraws' = Tail(upscalerDraws)
      /\ image' = [r \in Texture |->
           IF Len(upscalerDraws) = 1 /\ todo = {} THEN Absent
           ELSE IF st.target = Null \/ r # targetOf[st.target] THEN image[r]
           ELSE IF st.draw /\ set.view # Null THEN viewOf[set.view]
           ELSE IF st.clear THEN Null ELSE image[r]]
      /\ upscalerDraws # <<>> /\ upscalerDisabled
  BY DEF Serve, PassInv
<1>2. /\ upscalerDraws \in Seq(State) /\ st = upscalerDraws[1]
      /\ DOMAIN texVram = DOMAIN texVramRemastered
  BY <1>1 DEF IInv, TypeOK
<1>3. Len(upscalerDraws) \in {1, 2} /\ Len(upscalerDraws') = Len(upscalerDraws) - 1
  <2>1. Len(upscalerDraws) \in Nat /\ Len(upscalerDraws) # 0 /\ Len(upscalerDraws) <= 2
    BY <1>1, <1>2 DEF IInv, RefInv, QueueInv
  <2>2. \A k \in Nat : k # 0 /\ k <= 2 => k \in {1, 2}
    OBVIOUS
  <2>3. Len(upscalerDraws') = Len(upscalerDraws) - 1
    BY <1>1, <1>2
  <2> QED
    BY <2>1, <2>2, <2>3
<1>4. DrawInv'
  <2>1. Len(upscalerDraws') # 2
    BY <1>3
  <2>2. upscalerDraws' # <<>> => Last(upscalerDraws') = Last(upscalerDraws)
    BY <1>1, <1>2, <1>3 DEF Last
  <2> QED
    BY <1>1, <2>1, <2>2 DEF DrawInv
<1>5. ASSUME InPass', NEW t \in Texture \ todo, srvVram[t] # Absent
      PROVE  /\ rtvVramRemastered[srvVram[t]] # Null
             /\ image'[targetOf[rtvVramRemastered[srvVram[t]]]] \in {t, Null}
  <2> DEFINE r == targetOf[rtvVramRemastered[srvVram[t]]]
  <2>1. InPass /\ rtvVramRemastered[srvVram[t]] # Null
    BY <1>1, <1>5 DEF InPass, ShownInv
  <2>2. r \in Texture /\ srvVram[t] \in View
    BY <1>5, <2>1, Held DEF ObjectInv, ViewsInv
  <2>3. CASE Len(upscalerDraws) = 1
    <3>1. todo # {}
      <4>1. upscalerDraws' = <<>>
        BY <1>1, <1>2, <2>3
      <4> QED
        BY <1>1, <1>5, <4>1 DEF InPass
    <3>2. ~st.draw /\ ~st.clear
      BY <1>1, <1>2, <2>3 DEF DrawInv, Last
    <3>3. image[r] \in {t, Null}
      BY <1>5, <2>1, <2>3 DEF ShownInv
    <3> HIDE DEF st, set, r
    <3>4. image'[r] = image[r]
      BY <1>1, <2>2, <3>1, <3>2
    <3> QED
      BY <2>1, <3>3, <3>4 DEF r
  <2>4. CASE Len(upscalerDraws) = 2
    <3>1. PICK u \in Texture \ todo, blank \in BOOLEAN :
            /\ srvVram[u] # Absent /\ rtvVramRemastered[srvVram[u]] # Null
            /\ st = Present(srvVram[u], rtvVramRemastered[srvVram[u]], blank)
      BY <1>2, <2>4 DEF DrawInv, Drawn
    <3>2. /\ st.target = rtvVramRemastered[srvVram[u]] /\ st.clear
          /\ st.draw => st.view = srvVram[u]
      <4> HIDE DEF st
      <4> QED
        BY <3>1 DEF Present
    <3>3. st.draw => set.view = srvVram[u] /\ viewOf[set.view] = u
      <4>1. srvVram[u] \in View /\ viewOf[srvVram[u]] = u
        BY <3>1, Held DEF ObjectInv, ViewsInv
      <4> HIDE DEF st
      <4> QED
        BY <1>1, <3>2, <4>1 DEF SetState, Substitute
    <3>4. CASE r = targetOf[st.target]
      <4>1. t = u
        <5> HIDE DEF st
        <5> QED
          BY <1>2, <1>5, <2>1, <3>1, <3>2, <3>4, OwnTarget DEF ObjectInv
      <4>2. image'[r] = IF st.draw /\ set.view # Null THEN viewOf[set.view] ELSE Null
        <5>1. st.target # Null
          BY <3>1, <3>2
        <5> HIDE DEF st, set, r
        <5> QED
          BY <1>1, <2>2, <2>4, <3>2, <3>4, <5>1
      <4> HIDE DEF st, set
      <4> QED
        BY <2>1, <3>3, <4>1, <4>2
    <3>5. CASE r # targetOf[st.target]
      <4>1. image[r] \in {t, Null}
        <5>1. upscalerDraws[1].target # rtvVramRemastered[srvVram[t]]
          BY <1>2, <3>5
        <5> QED
          BY <1>5, <2>1, <5>1 DEF ShownInv
      <4>2. image'[r] = image[r]
        <5> HIDE DEF st, set, r
        <5> QED
          BY <1>1, <2>2, <2>4, <3>5
      <4> QED
        BY <2>1, <4>1, <4>2
    <3> QED
      BY <3>4, <3>5
  <2> QED
    BY <1>3, <2>3, <2>4
<1>6. ShownInv'
  BY <1>1, <1>5 DEF ShownInv, maps
<1> QED
  BY <1>4, <1>6

LEMMA ShownStep ==
  ASSUME IInv, PassInv, ObjectInv, DrawInv, ShownInv, [Next]_vars
  PROVE  DrawInv' /\ ShownInv'
<1> USE Addresses
<1>1. ASSUME UNCHANGED <<queue, targetOf, maps, image>>
      PROVE  DrawInv' /\ ShownInv'
  BY <1>1 DEF queue, maps, DrawInv, Drawn, ShownInv, InPass
<1>2. CASE UNCHANGED vars
  BY <1>1, <1>2 DEF vars, heap, ghosts
<1>3. ASSUME Crash PROVE DrawInv' /\ ShownInv'
  BY <1>1, <1>3 DEF Crash, heap
<1>4. ASSUME ~InPass, UNCHANGED queue
      PROVE  DrawInv' /\ ShownInv'
  BY <1>4 DEF InPass, queue, DrawInv, ShownInv
<1>5. ASSUME NEW enabled \in BOOLEAN, NEW compiled \in BOOLEAN, NEW loaded \in BOOLEAN,
             Load(enabled, compiled, loaded)
      PROVE  DrawInv' /\ ShownInv'
  BY <1>4, <1>5 DEF Load, PassInv
<1>6. CASE CreateDevice
  BY <1>3, <1>4, <1>6 DEF CreateDevice, PassInv
<1>7. CASE Ready /\ (Crash \/ UNCHANGED <<pc, queue>>)
  BY <1>3, <1>4, <1>7 DEF Ready
<1>8. CASE BeginUpscale
  <2>1. upscalerDraws' = <<>> /\ todo' = {t \in Texture : srvVram[t] # Absent} /\ UNCHANGED maps
    BY <1>8 DEF BeginUpscale, Ready, InPass
  <2> QED
    BY <2>1 DEF DrawInv, ShownInv, maps
<1>9. ASSUME NEW t \in Texture, NEW blank \in BOOLEAN, Upscale(t, blank)
      PROVE  DrawInv' /\ ShownInv'
  <2> DEFINE src == srvVram[t]
             dst == rtvVramRemastered[src]
             drawn == Present(src, dst, blank)
  <2>1. CASE ~Crash
    <3>1. /\ upscalerDraws = <<>> /\ t \in todo /\ dst # Null
          /\ upscalerDraws' = <<drawn, Saved>> /\ todo' = todo \ {t}
          /\ UNCHANGED <<targetOf, maps, ghosts>>
      BY <1>9, <2>1 DEF Upscale, Queued
    <3>2. src # Absent
      BY <3>1 DEF IInv, RefInv, TodoInv
    <3>3. drawn.target = dst
      BY DEF Present
    <3>4. \E u \in Texture \ todo', b \in BOOLEAN :
            /\ srvVram'[u] # Absent /\ rtvVramRemastered'[srvVram'[u]] # Null
            /\ drawn = Present(srvVram'[u], rtvVramRemastered'[srvVram'[u]], b)
      BY <3>1, <3>2 DEF maps
    <3>5. DrawInv'
      <4>1. upscalerDraws'[1] = drawn /\ Last(upscalerDraws') = Saved
        <5> HIDE DEF drawn
        <5> QED
          BY <3>1 DEF Last
      <4>2. ~Saved.draw /\ ~Saved.clear
        BY DEF Saved
      <4>3. Drawn(upscalerDraws[1])'
        <5> HIDE DEF drawn
        <5> QED
          BY <3>4, <4>1 DEF Drawn
      <4> HIDE DEF drawn
      <4> QED
        BY <4>1, <4>2, <4>3 DEF DrawInv
    <3>6. ASSUME NEW u \in Texture \ todo', srvVram[u] # Absent
          PROVE  /\ rtvVramRemastered[srvVram[u]] # Null
                 /\ \/ Len(upscalerDraws') = 2 /\ upscalerDraws'[1].target = rtvVramRemastered[srvVram[u]]
                    \/ image[targetOf[rtvVramRemastered[srvVram[u]]]] \in {u, Null}
      <4>1. CASE u = t
        <5> HIDE DEF drawn
        <5> QED
          BY <3>1, <3>3, <4>1
      <4>2. CASE u # t
        <5>1. InPass /\ u \notin todo /\ Len(upscalerDraws) # 2
          BY <3>1, <4>2 DEF InPass
        <5> QED
          BY <3>6, <5>1 DEF ShownInv
      <4> QED
        BY <4>1, <4>2
    <3>7. ShownInv'
      <4> HIDE DEF drawn
      <4> QED
        BY <3>1, <3>6 DEF ShownInv, maps, ghosts
    <3> QED
      BY <3>5, <3>7
  <2> QED
    BY <1>3, <2>1
<1>10. CASE Serve
  BY <1>10, ServeShown
<1> QED
  BY <1>2, <1>5, <1>6, <1>7, <1>8, <1>9, <1>10, StepLemma

LEMMA ShownLemma == Spec => [](OwnInv /\ DrawInv /\ ShownInv)
<1>1. Init => OwnInv /\ DrawInv /\ ShownInv
  <2> SUFFICES ASSUME Init PROVE OwnInv /\ DrawInv /\ ShownInv
    OBVIOUS
  <2>1. ViewsInv /\ PairsInv /\ OriginInv /\ OwnRemastered
    BY Addresses DEF Init, ViewsInv, PairsInv, OriginInv, OwnRemastered
  <2>2. DrawInv /\ ShownInv
    BY DEF Init, DrawInv, ShownInv, InPass
  <2> QED
    BY <2>1, <2>2 DEF OwnInv, ObjectInv
<1>2. IInv /\ PassInv /\ (OwnInv /\ DrawInv /\ ShownInv) /\ [Next]_vars
        => (OwnInv /\ DrawInv /\ ShownInv)'
  BY OwnStep, ShownStep DEF OwnInv
<1> QED
  BY <1>1, <1>2, Invariance, PassLemma, PTL DEF Spec

-----------------------------------------------------------------------------
(* Theorems.                                                               *)

\* The variables keep their types: the maps only hold what is an address of its kind, and no
\* count of references falls below zero.
THEOREM TypeCorrect == Spec => []TypeOK
<1>1. IInv => TypeOK
  BY DEF IInv
<1> QED
  BY <1>1, Invariance, PTL

\* Over any number of passes, textures and views what Queue and Upscale take, Serve gives back,
\* once (d3d11.cpp:1254-1285).
THEOREM ReferencesKept == Spec => []ReferencesBalance
<1>1. IInv => ReferencesBalance
  BY DEF IInv, RefInv
<1> QED
  BY <1>1, Invariance, PTL

\* The upscaler only dereferences a null pointer, a dead view or a missing target if Direct3D
\* has failed to compile or to create something (d3d11.cpp:1784-1825).
THEOREM NoCrash == Spec => []CrashOnlyAfterFailure
<1>1. IInv => CrashOnlyAfterFailure
  BY DEF IInv
<1> QED
  BY <1>1, Invariance, PTL

\* A pass takes nothing from the game: the context has the game's state again when it is over,
\* and only then do the hooks substitute again (d3d11.cpp:1131-1289, 1827-1829).
THEOREM PassTransparent == Spec => Transparent
<1>1. IInv /\ PassInv /\ [Next]_vars =>
        [InPass /\ pc' = "running" =>
           /\ Seen' = Seen
           /\ upscalerDraws' = <<>> => ~upscalerDisabled']_vars
  <2> SUFFICES ASSUME IInv, PassInv, Next, InPass, pc' = "running"
               PROVE  Seen' = Seen /\ (upscalerDraws' = <<>> => ~upscalerDisabled')
    OBVIOUS
  <2>1. ASSUME NEW t \in Texture, NEW blank \in BOOLEAN, Upscale(t, blank)
        PROVE  Seen' = Seen /\ upscalerDraws' # <<>>
    <3> DEFINE drawn == Present(srvVram[t], rtvVramRemastered[srvVram[t]], blank)
    <3>1. upscalerDraws = <<>> /\ upscalerDraws' = <<drawn, Saved>>
      BY <2>1 DEF Upscale, Queued, Crash
    <3>2. pipe = [target |-> pipe.target, view |-> pipe.view, rest |-> pipe.rest]
      BY DEF IInv, TypeOK, Pipe
    <3>3. upscalerDraws' # <<>> /\ Last(upscalerDraws)' = Saved
      <4> HIDE DEF drawn
      <4> QED
        BY <3>1 DEF Last
    <3> QED
      BY <3>1, <3>2, <3>3 DEF Seen, Saved
  <2>2. CASE Serve
    <3>1. /\ upscalerDraws # <<>> /\ upscalerDraws' = Tail(upscalerDraws)
          /\ pipe' = SetState(Head(upscalerDraws))
          /\ upscalerDisabled' = (Len(upscalerDraws) > 1) /\ upscalerDraws \in Seq(State)
      BY <2>2 DEF IInv, TypeOK, Serve
    <3>2. CASE upscalerDraws' # <<>>
      <4>1. Last(upscalerDraws)' = Last(upscalerDraws)
        BY <3>1, <3>2 DEF Last
      <4> QED
        BY <3>1, <3>2, <4>1 DEF Seen
    <3>3. CASE upscalerDraws' = <<>>
      <4>1. Len(upscalerDraws) = 1 /\ Last(upscalerDraws) = Head(upscalerDraws)
        <5>1. Len(Tail(upscalerDraws)) = Len(upscalerDraws) - 1
          BY <3>1
        <5>2. Len(Tail(upscalerDraws)) = 0 /\ Len(upscalerDraws) \in Nat
          <6>1. Tail(upscalerDraws) = <<>>
            BY <3>1, <3>3, Zenon
          <6>2. Len(<<>>) = 0
            OBVIOUS
          <6>3. Len(upscalerDraws) \in Nat
            BY <3>1
          <6> QED
            BY <6>1, <6>2, <6>3, Zenon
        <5>3. Len(upscalerDraws) = 1
          BY <5>1, <5>2
        <5> QED
          BY <3>1, <5>3 DEF Last
      <4>2. SetState(Last(upscalerDraws)) =
              [target |-> Last(upscalerDraws).target, view |-> Last(upscalerDraws).view,
               rest |-> Last(upscalerDraws).rest]
        BY <3>1 DEF PassInv, SetState, Substitute
      <4>3. Seen' = pipe' /\ pipe' = SetState(Last(upscalerDraws))
        BY <3>1, <3>3, <4>1 DEF Seen
      <4>4. Seen' = Seen
        BY <3>1, <4>2, <4>3 DEF Seen
      <4>5. ~upscalerDisabled'
        <5>1. ~(Len(upscalerDraws) > 1)
          BY <4>1
        <5> QED
          BY <3>1, <5>1, Zenon
      <4> QED
        BY <4>4, <4>5
    <3> QED
      BY <3>2, <3>3
  <2>3. CASE Ready \/ BeginUpscale
    BY <2>3 DEF Ready, BeginUpscale
  <2>4. ~CreateDevice /\ \A enabled, compiled, loaded \in BOOLEAN : ~Load(enabled, compiled, loaded)
    BY DEF PassInv, CreateDevice, Load
  <2> QED
    BY <2>1, <2>2, <2>3, <2>4, StepLemma
<1>2. Spec => [][Next]_vars
  BY DEF Spec
<1> QED
  BY <1>1, <1>2, Invariance, PassLemma, PTL DEF Transparent

\* However addresses are reused, a texture is only replaced by the one that was made for it,
\* unless one has died without a view: the reference that CreateShaderResourceView takes to the
\* game's view keeps alive, and so in place, whatever the maps lead to (d3d11.cpp:573-608).
THEOREM OwnRemasteredTheorem == Spec => []OwnRemastered
<1>1. OwnInv => OwnRemastered
  BY DEF OwnInv
<1> QED
  BY <1>1, ShownLemma, PTL

\* In a pass, each texture that the loop has come past is shown by its remastered one as soon as
\* Serve has drawn it, and no pass draws the target of another texture over it
\* (d3d11.cpp:1784-1829).
THEOREM RefreshedTheorem == Spec => []Refreshed
<1>1. ShownInv => Refreshed
  BY DEF ShownInv, Refreshed
<1> QED
  BY <1>1, ShownLemma, PTL
=============================================================================
