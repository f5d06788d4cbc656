------------------------------- MODULE Upscaler -------------------------------
(***************************************************************************)
(* The upscaler (d3d11.cpp).  For every texture of the game that looks     *)
(* like the video memory of the PlayStation the mod makes a second one of  *)
(* another size, for every view of the first a view and a target of the    *)
(* second, and puts the second in the place of the first in the game's     *)
(* calls.  Once in a while (ClearDepthStencilView or CopySubresourceRegion)*)
(* it draws each first texture into its second with the game's own         *)
(* context, whose state it queues before and serves after; the calls that  *)
(* Serve makes come back to the mod's hooks, which upscalerDisabled keeps  *)
(* out meanwhile.                                                          *)
(*                                                                         *)
(* The textures and views are known by address, and a new object may get   *)
(* the address of a dead one.  The calls of the game come one at a time,   *)
(* on one context.                                                         *)
(***************************************************************************)
EXTENDS Integers, Sequences

CONSTANTS
  Textures, Views, Targets,  \* How many addresses of textures, shader resource views, targets,
  MaxVram                    \* and of texVram's elements.

Null == 0
Absent == -1   \* No element of a map, or nothing to set.

ASSUME UpscalerAssumption ==
  /\ Textures \in Nat /\ Views \in Nat /\ Targets \in Nat
  /\ MaxVram \in Nat

Texture == 1 .. Textures
View == 1 .. Views
Target == 1 .. Targets

\* The state of a context: render target (Null is a target of the game's), the pixel shader's
\* resource, and all the rest.
Pipe == [target : Target \cup {Null}, view : View \cup {Null}, rest : {"game", "upscaler", "blank"}]

\* A State of the queue: what of it is set, whether the target is cleared and whether it is drawn to.
State ==
  [target : Target \cup {Null}, view : View \cup {Null, Absent},
   rest : {"game", "upscaler", "blank"}, clear : BOOLEAN, draw : BOOLEAN]

VARIABLES
  pc,          \* "load", "hooked", "running", "crashed"; "off" if nothing was hooked.
  blobs,       \* The upscaler's shaders were compiled.
  upscalerDisabled,
  gameTextures, gameViews,   \* What the game has references to.
  viewRefs, targetRefs,      \* How many references the mod has to each view and target.
  viewOf, targetOf,          \* The texture of each view and target; Null if it is dead, Absent if
                             \* no view had the address.
  texVram, texVramRemastered, srvVram, srvVramRemastered, rtvVramRemastered,
  pipe,                      \* The state of the context.
  upscalerDraws,
  todo,                      \* The elements of srvVram for which the loop of Upscale is still to run.
  origin,      \* The texture that each remastered one was made for, while it is alive; Absent for
               \* an address that no texture has had.
  image,       \* What the pass has made a texture show: the texture that was drawn into it, Null if
               \* it was cleared, Absent if nothing was done to it.
  orphaned,    \* An element of texVram died before there was a view of it.
  misdirected, \* The game was given the remastered texture of another one.
  failed       \* Direct3D failed to compile or to create something.

heap == <<gameTextures, gameViews, viewRefs, targetRefs, viewOf, targetOf>>
maps == <<texVram, texVramRemastered, srvVram, srvVramRemastered, rtvVramRemastered>>
queue == <<upscalerDraws, todo>>
ghosts == <<origin, image, orphaned, misdirected, failed>>
vars == <<blobs, pc, upscalerDisabled, heap, maps, pipe, queue, ghosts>>

Init ==
  /\ pc = "load" /\ blobs = FALSE /\ upscalerDisabled = TRUE
  /\ gameTextures = {} /\ gameViews = {}
  /\ viewRefs = [v \in View |-> 0] /\ targetRefs = [n \in Target |-> 0]
  /\ viewOf = [v \in View |-> Absent] /\ targetOf = [n \in Target |-> Absent]
  /\ texVram = <<>> /\ texVramRemastered = <<>>
  /\ srvVram = [t \in Texture |-> Absent]
  /\ srvVramRemastered = [v \in View |-> Absent]
  /\ rtvVramRemastered = [v \in View |-> Null]
  /\ pipe = [target |-> Null, view |-> Null, rest |-> "game"]
  /\ upscalerDraws = <<>> /\ todo = {}
  /\ origin = [t \in Texture |-> Absent] /\ image = [t \in Texture |-> Absent]
  /\ orphaned = FALSE /\ misdirected = FALSE /\ failed = FALSE

-----------------------------------------------------------------------------
(* Direct3D's objects.  A view is kept by references and by the context    *)
(* it is bound to, a texture by references and by its views and targets.   *)

Elements(s) == {s[i] : i \in DOMAIN s}

LiveView(v) == v \in gameViews \/ viewRefs[v] > 0 \/ pipe.view = v
LiveTarget(n) == targetRefs[n] > 0

LiveTexture(t) ==
  \/ t \in gameTextures \/ t \in Elements(texVramRemastered)
  \/ \E v \in View : LiveView(v) /\ viewOf[v] = t
  \/ \E n \in Target : LiveTarget(n) /\ targetOf[n] = t

\* New objects get the addresses of dead ones or, in their order, addresses nobody has had.
NewTexture ==
  {t \in Texture : ~LiveTexture(t) /\ \A u \in 1 .. t - 1 : origin[u] # Absent}
NewView == {v \in View : ~LiveView(v) /\ \A u \in 1 .. v - 1 : viewOf[u] # Absent}
NewTarget == {n \in Target : ~LiveTarget(n) /\ \A u \in 1 .. n - 1 : targetOf[u] # Absent}

\* The references after one more to a, or one less, if a is an object.
AddRef(refs, a) == IF a \in DOMAIN refs THEN [refs EXCEPT ![a] = @ + 1] ELSE refs
NoRelease(refs, a) == refs
Release(refs, a) == IF a \in DOMAIN refs THEN [refs EXCEPT ![a] = @ - 1] ELSE refs

Crash ==
  /\ pc' = "crashed"
  /\ UNCHANGED <<blobs, upscalerDisabled, heap, maps, pipe, queue,
                 origin, image, orphaned, misdirected>>

\* What happens to a view that the step takes the last reference to, or the last binding, from.
Bury == viewOf' = [v \in View |-> IF LiveView(v) /\ ~LiveView(v)' THEN Null ELSE viewOf[v]]

-----------------------------------------------------------------------------
(* D3D11::Load and CreateDevice.                                           *)

\* Without the option upscalerDisabled stays set, and the hooks only pass on the game's calls.
\* A compilation that fails leaves the upscaler enabled.
Load(enabled, compiled, loaded) ==
  /\ pc = "load"
  /\ pc' = IF enabled /\ loaded THEN "hooked" ELSE "off"
  /\ upscalerDisabled' = ~enabled
  /\ blobs' = (enabled /\ compiled)
  /\ failed' = (enabled /\ ~compiled)
  /\ UNCHANGED <<heap, maps, pipe, queue, origin, image, orphaned, misdirected>>

\* The hooks of the device and its contexts, then the upscaler's own shaders and sampler.
\* Later devices are not hooked.
CreateDevice ==
  /\ pc = "hooked"
  /\ \/ /\ blobs
        /\ pc' = "running"
        /\ UNCHANGED <<blobs, upscalerDisabled, heap, maps, pipe, queue, ghosts>>
     \/ /\ blobs
        /\ failed' = TRUE
        /\ Crash
     \/ /\ ~blobs
        /\ Crash
        /\ UNCHANGED failed

-----------------------------------------------------------------------------
(* The game's calls, which come while no pass of Upscale is under way.     *)

InPass == todo # {} \/ upscalerDraws # <<>>
Ready == pc = "running" /\ ~InPass

\* Bounds of the model: at most one creation fails, besides those that fail for want of what the
\* first was to create.  From then on, or once a texture was misdirected, the game goes on drawing
\* and getting views of its video memory, but makes and releases nothing else.  It has no more than
\* one ordinary texture and one ordinary view at a time.
Sound == Ready /\ ~failed /\ ~misdirected
OneFails(a, b) == a # Null \/ b # Null

\* What happens to the history when the addresses ts are given out once more.
Reuse(ts) ==
  orphaned' = (orphaned \/ \E t \in ts : t \in Elements(texVram) /\ srvVram[t] = Absent)

CreateTexture(t) ==
  /\ Sound
  /\ gameTextures \subseteq Elements(texVram)
  /\ t \in NewTexture
  /\ gameTextures' = gameTextures \cup {t}
  /\ Reuse({t})
  /\ origin' = [r \in Texture |-> IF r = t \/ origin[r] = t THEN Null ELSE origin[r]]
  /\ UNCHANGED <<blobs, pc, upscalerDisabled, gameViews, viewRefs, targetRefs, viewOf, targetOf,
                 maps, pipe, queue, image, misdirected, failed>>

\* A texture of the size of the video memory.  Either of the two may fail to be created.
CreateVram(t, r) ==
  /\ Sound /\ ~upscalerDisabled
  /\ Len(texVram) < MaxVram
  /\ t \in NewTexture \cup {Null} /\ OneFails(t, r)
  /\ r # Null => r # t /\ ~LiveTexture(r) /\ \A u \in 1 .. r - 1 : origin[u] # Absent \/ u = t
  /\ gameTextures' = gameTextures \cup ({t} \ {Null})
  /\ texVram' = Append(texVram, t)
  /\ texVramRemastered' = Append(texVramRemastered, r)
  /\ Reuse({t, r} \ {Null})
  /\ origin' = [s \in Texture |-> IF s = r THEN t
                                  ELSE IF s = t \/ origin[s] \in {t, r} THEN Null ELSE origin[s]]
  /\ failed' = (t = Null \/ r = Null)
  /\ UNCHANGED <<blobs, pc, upscalerDisabled, gameViews, viewRefs, targetRefs, viewOf, targetOf,
                 srvVram, srvVramRemastered, rtvVramRemastered, pipe, queue, image, misdirected>>

ReleaseTexture(t) ==
  /\ Sound
  /\ t \in gameTextures
  /\ gameTextures' = gameTextures \ {t}
  /\ UNCHANGED <<blobs, pc, upscalerDisabled, gameViews, viewRefs, targetRefs, viewOf, targetOf,
                 maps, pipe, queue, ghosts>>

Registered(t) == t \in Elements(texVram) /\ ~upscalerDisabled

\* The remastered texture (in a set of one): std::find gives the first element.
Remastered(t) ==
  {texVramRemastered[i] : i \in {k \in DOMAIN texVram :
                                   texVram[k] = t /\ \A j \in 1 .. k - 1 : texVram[j] # t}}

Foreign(t, r) == t # r /\ r # Null /\ origin[r] # t

CreateView(t, v) ==
  /\ Sound
  /\ t \in gameTextures /\ ~Registered(t)
  /\ \A u \in gameViews : viewRefs[u] > 0
  /\ v \in NewView
  /\ gameViews' = gameViews \cup {v}
  /\ viewOf' = [viewOf EXCEPT ![v] = t]
  /\ UNCHANGED <<blobs, pc, upscalerDisabled, gameTextures, viewRefs, targetRefs, targetOf,
                 maps, pipe, queue, ghosts>>

\* The mod's reference to the game's view, and to the view it makes.
NoViewRef(refs, v, w) == AddRef(refs, w)
KeepViews(refs, v, w) == AddRef(AddRef(refs, v), w)

\* The target is found under the game's view.
ByRemastered(map, v, w, n) == IF w \in View THEN [map EXCEPT ![w] = n] ELSE map
ByView(map, v, w, n) == [map EXCEPT ![v] = n]

\* v is the game's view, n the target and w the view of the remastered texture.
CreateVramView(t, v, n, w) ==
  /\ Ready
  /\ t \in gameTextures /\ Registered(t)
  /\ failed => srvVram[t] = Absent
  /\ v \in NewView
  /\ \E r \in Remastered(t) :
     /\ r # Null => OneFails(n, w) /\ (failed => n # Null /\ w # Null)
     /\ n # Null => r # Null /\ n \in NewTarget
     /\ w # Null => /\ r # Null /\ w # v /\ ~LiveView(w)
                    /\ \A u \in 1 .. w - 1 : viewOf[u] # Absent \/ u = v
     /\ viewOf' = [u \in View |-> IF u = v THEN t ELSE IF u = w THEN r ELSE viewOf[u]]
     /\ targetOf' = [u \in Target |-> IF u = n THEN r ELSE targetOf[u]]
     /\ misdirected' = (misdirected \/ Foreign(t, r))
  /\ gameViews' = gameViews \cup {v}
  /\ srvVram' = [srvVram EXCEPT ![t] = v]
  /\ rtvVramRemastered' = ByView(rtvVramRemastered, v, w, n)
  /\ srvVramRemastered' = [srvVramRemastered EXCEPT ![v] = w]
  /\ viewRefs' = KeepViews(viewRefs, v, w)
  /\ targetRefs' = AddRef(targetRefs, n)
  /\ failed' = (failed \/ n = Null \/ w = Null)
  /\ UNCHANGED <<blobs, pc, upscalerDisabled, gameTextures, texVram, texVramRemastered, pipe,
                 queue, origin, image, orphaned>>

\* The game's view fails to be created: the mod counts a reference to it all the same.
FailVramView(t) ==
  /\ Ready
  /\ t \in gameTextures /\ Registered(t)
  /\ ~failed
  /\ failed' = TRUE
  /\ Crash

ReleaseView(v) ==
  /\ Sound
  /\ v \in gameViews
  /\ gameViews' = gameViews \ {v}
  /\ UNCHANGED <<blobs, pc, upscalerDisabled, gameTextures, viewRefs, targetRefs, targetOf,
                 maps, pipe, queue, ghosts>>
  /\ Bury

-----------------------------------------------------------------------------
(* The calls of a context.                                                 *)

\* The view that the hook passes on.
SubstituteAlways(v) ==
  IF v \in View /\ srvVramRemastered[v] # Absent THEN srvVramRemastered[v] ELSE v
Substitute(v) ==
  IF v \in View /\ srvVramRemastered[v] # Absent /\ ~upscalerDisabled
  THEN srvVramRemastered[v] ELSE v

\* The array of views is the caller's, so that it may hold a remastered view the next time.
PSSetShaderResources(v) ==
  /\ Ready
  /\ v # Null => LiveView(v)
  /\ pipe' = [pipe EXCEPT !.view = Substitute(v)]
  /\ misdirected' = (misdirected \/ (v # Null /\ Substitute(v) # Null
                                       /\ Foreign(viewOf[v], viewOf[Substitute(v)])))
  /\ UNCHANGED <<blobs, pc, upscalerDisabled, gameTextures, gameViews, viewRefs, targetRefs, targetOf,
                 maps, queue, origin, image, orphaned, failed>>
  /\ Bury

\* Copies from t (with less height than the game's) or to it (with more) are copies from or to the
\* remastered texture.
CopySubresourceRegion(t) ==
  /\ Ready
  /\ t \in gameTextures
  /\ misdirected' = (misdirected \/ (Registered(t) /\ \E r \in Remastered(t) : Foreign(t, r)))
  /\ UNCHANGED <<blobs, pc, upscalerDisabled, heap, maps, pipe, queue, origin, image, orphaned, failed>>

\* With more height than the game's a pass begins before each ClearDepthStencilView, with less
\* before each CopySubresourceRegion, which has found its textures by then.
BeginUpscale ==
  /\ Ready /\ ~upscalerDisabled
  /\ todo' = {t \in Texture : srvVram[t] # Absent}
  /\ UNCHANGED <<blobs, pc, upscalerDisabled, heap, maps, pipe, upscalerDraws, ghosts>>

-----------------------------------------------------------------------------
(* A pass of Upscale.                                                      *)

Last(s) == s[Len(s)]

\* The state of the context, to each part of which Queue gets a reference.
Saved ==
  [target |-> pipe.target, view |-> pipe.view, rest |-> pipe.rest,
   clear |-> FALSE, draw |-> FALSE]

\* The state that draws src into dst, or only clears it.
Present(src, dst, blank) ==
  IF blank
  THEN [target |-> dst, view |-> Absent, rest |-> "blank",
        clear |-> TRUE, draw |-> FALSE]
  ELSE [target |-> dst, view |-> src, rest |-> "upscaler",
        clear |-> TRUE, draw |-> TRUE]

\* Queue pushes to the back, Upscale to the front.
PushedBack(src, dst, blank) == <<Saved, Present(src, dst, blank)>>
Queued(src, dst, blank) == <<Present(src, dst, blank), Saved>>

\* The references to what is bound, which Queue gets, and to b, which the upscaler adds itself.
NoOwnRef(refs, bound, b) == AddRef(refs, bound)
Acquire(refs, bound, b) == AddRef(AddRef(refs, bound), b)

\* One element of srvVram.  blank is the answer of GWBlank.
Upscale(t, blank) ==
  /\ pc = "running" /\ upscalerDraws = <<>>
  /\ t \in todo
  /\ LET src == srvVram[t]
         dst == rtvVramRemastered[src]
     IN
     IF dst = Null \/ (~blank /\ ~LiveView(src)) THEN Crash /\ UNCHANGED failed
     ELSE /\ upscalerDraws' = Queued(src, dst, blank)
          /\ viewRefs' = Acquire(viewRefs, pipe.view, Present(src, dst, blank).view)
          /\ targetRefs' = Acquire(targetRefs, pipe.target, dst)
          /\ upscalerDisabled' = TRUE
          /\ todo' = todo \ {t}
          /\ UNCHANGED <<blobs, pc, gameTextures, gameViews, viewOf, targetOf, maps, pipe,
                         ghosts>>

\* The context after a State is set: Serve's calls come through the hooks.
SetState(st) ==
  [target |-> st.target, rest |-> st.rest,
   view |-> IF st.view = Absent THEN pipe.view ELSE Substitute(st.view)]

\* One State of the queue: it is set and drawn, and its references are released.
Serve ==
  /\ pc = "running" /\ upscalerDraws # <<>>
  /\ LET st == Head(upscalerDraws)
         set == SetState(st)
     IN
     /\ pipe' = set
     /\ image' = [r \in Texture |->
          IF Len(upscalerDraws) = 1 /\ todo = {} THEN Absent
          ELSE IF st.target = Null \/ r # targetOf[st.target] THEN image[r]
          ELSE IF st.draw /\ set.view # Null THEN viewOf[set.view]
          ELSE IF st.clear THEN Null ELSE image[r]]
     /\ misdirected' = (misdirected \/ (st.draw /\ set.view # Null
                                          /\ Foreign(viewOf[set.view], targetOf[st.target])))
     /\ viewRefs' = Release(viewRefs, st.view)
     /\ targetRefs' = Release(targetRefs, st.target)
  /\ upscalerDraws' = Tail(upscalerDraws)
  /\ upscalerDisabled' = (Len(upscalerDraws) > 1)
  /\ UNCHANGED <<blobs, pc, gameTextures, gameViews, viewOf, targetOf, maps, todo,
                 origin, orphaned, failed>>

Next ==
  \/ \E enabled, compiled, loaded \in BOOLEAN : Load(enabled, compiled, loaded)
  \/ CreateDevice
  \/ \E t \in Texture :
       \/ CreateTexture(t) \/ ReleaseTexture(t)
       \/ \E v \in View : CreateView(t, v)
       \/ \E v \in View, n \in Target \cup {Null}, w \in View \cup {Null} : CreateVramView(t, v, n, w)
       \/ FailVramView(t)
       \/ CopySubresourceRegion(t)
       \/ \E blank \in BOOLEAN : Upscale(t, blank)
  \/ \E t, r \in Texture \cup {Null} : CreateVram(t, r)
  \/ \E v \in View : ReleaseView(v)
  \/ \E v \in View \cup {Null} : PSSetShaderResources(v)
  \/ BeginUpscale
  \/ Serve

Spec == Init /\ [][Next]_vars

-----------------------------------------------------------------------------
(* Properties.                                                             *)

\* The types of the variables.
TypeOK ==
  /\ blobs \in BOOLEAN /\ upscalerDisabled \in BOOLEAN
  /\ pc \in {"load", "hooked", "running", "crashed", "off"}
  /\ gameTextures \subseteq Texture /\ gameViews \subseteq View
  /\ viewRefs \in [View -> Nat] /\ targetRefs \in [Target -> Nat]
  /\ viewOf \in [View -> Texture \cup {Null, Absent}]
  /\ targetOf \in [Target -> Texture \cup {Null, Absent}]
  /\ texVram \in Seq(Texture \cup {Null}) /\ texVramRemastered \in Seq(Texture \cup {Null})
  /\ Len(texVram) = Len(texVramRemastered)
  /\ srvVram \in [Texture -> View \cup {Absent}]
  /\ srvVramRemastered \in [View -> View \cup {Null, Absent}]
  /\ rtvVramRemastered \in [View -> Target \cup {Null}]
  /\ pipe \in Pipe
  /\ upscalerDraws \in Seq(State) /\ todo \subseteq Texture
  /\ origin \in [Texture -> Texture \cup {Null, Absent}]
  /\ image \in [Texture -> Texture \cup {Null, Absent}]
  /\ orphaned \in BOOLEAN /\ misdirected \in BOOLEAN /\ failed \in BOOLEAN

\* However the game creates, binds and releases textures and views, a pass finds no view that
\* is dead and no target that is missing: the mod only dereferences a null pointer if Direct3D
\* has failed to compile or to create something (d3d11.cpp:575-610, 1784-1825).
CrashOnlyAfterFailure == pc = "crashed" => failed

\* A texture is only ever replaced by the one that was made for it, however addresses are
\* reused, unless a texture died of which the game had made no view: the reference that
\* CreateShaderResourceView takes to the game's view keeps the others (d3d11.cpp:608).
OwnRemastered == misdirected => orphaned

\* The references to a view that the mod has to give back: for its place in the maps, for
\* having created it, and for each State of the queue, of which there are at most two.
QueuedView(i, v) == IF i \in DOMAIN upscalerDraws /\ upscalerDraws[i].view = v THEN 1 ELSE 0

HeldViews(v) ==
  (IF srvVramRemastered[v] # Absent THEN 1 ELSE 0)
    + (IF \E u \in View : srvVramRemastered[u] = v THEN 1 ELSE 0)
    + QueuedView(1, v) + QueuedView(2, v)

\* The same of a target.
QueuedTarget(i, n) == IF i \in DOMAIN upscalerDraws /\ upscalerDraws[i].target = n THEN 1 ELSE 0

HeldTargets(n) ==
  (IF \E v \in View : rtvVramRemastered[v] = n THEN 1 ELSE 0)
    + QueuedTarget(1, n) + QueuedTarget(2, n)

\* No reference is lost and none is given back twice over any number of passes: what Queue and
\* Upscale take, Serve releases (d3d11.cpp:1254-1285).
ReferencesBalance ==
  /\ \A v \in View : viewRefs[v] = HeldViews(v)
  /\ \A n \in Target : targetRefs[n] = HeldTargets(n)

\* When a pass has served the State of a texture, its remastered one shows that texture itself
\* or nothing, and not the remastered one once more: the hooks substitute nothing while Serve
\* sets what Upscale has pushed to the front (d3d11.cpp:1825-1829).
Refreshed ==
  InPass /\ Len(upscalerDraws) # 2 =>
    \A t \in Texture \ todo :
      srvVram[t] # Absent => image[targetOf[rtvVramRemastered[srvVram[t]]]] \in {t, Null}

\* The context as the game has left it.
Seen ==
  IF upscalerDraws = <<>> THEN pipe
  ELSE [target |-> Last(upscalerDraws).target, view |-> Last(upscalerDraws).view,
        rest |-> Last(upscalerDraws).rest]

\* A pass takes nothing from the game: its state of the context is queued until it is set
\* again, and after the pass the hooks substitute again (d3d11.cpp:1131-1289, 1827-1829).
Transparent ==
  [][InPass /\ pc' = "running" =>
       /\ Seen' = Seen
       /\ upscalerDraws' = <<>> => ~upscalerDisabled']_vars
=============================================================================
