# A TLA+ verification of MGSM2Fix

MGSM2Fix is a DLL that is loaded into the games of the Master Collection and other
M2ENGAGE titles.  It hooks functions of the game, of the game's Squirrel VM, of its
PlayStation emulator and of Direct3D 11 while the game runs, and so most of what can go
wrong in it is a matter of order: what a game thread sees of a half-installed hook, what a
script finds in a closure that is hooked for the time of a call, what the next start finds
of one that was killed.  This directory models those parts in TLA+, checks them with TLC on
small instances, and proves the most important properties with TLAPS for every instance.

Line numbers below are those of `src/src/`.

## 1. The system

| Part | State | Operations | Hard behaviour |
|---|---|---|---|
| Start-up handshake (`dllmain.cpp`, `m2fix.h` Main, `m2utils.cpp` memset...) | `memsetHookCalled`, `mainThreadFinished`, two mutexes, a condition variable, `M2Hook::m_hooks` | attach, the mod's thread, the hooked memset | threads of the game against the mod's thread; hooks that are live before they are stored; duplicate installs; exits of the process |
| Squirrel hooks (`sqhook.cpp`, `sqhook.h`) | `_function` of each native closure, `M2FixData` and `_debughook` of each VM, `Sqrat::DefaultVM` | CallNative, HookNative, SetHook, Hook, CreateVM | re-entrancy: natives that call scripts, coroutines, handlers that evaluate scripts |
| Ketchup (`ketchup.cpp`, `mgs1.h`) | the disc's patches, the RAM, `CdRomShellOpen`, a file position and a byte count | set_disk_patch, one record, one byte | byte counts that must end at exactly 0; ranges and sectors; cold boot against disc change |
| Compatibility flag (`mgs1.cpp` 196-322) | a registry value of the user's, a marker file | one start of the game | kills between two writes, failing accesses, edits in between |
| Update check (`versionchecker.cpp`) | a cache file | one start of the game | kills in the middle of a save, two repositories, stale answers |
| Patch filters (`sqhook.cpp` 467-593) | address, length, index of the RAM patch that is filtered | setRamValue, entryCdRomPatch, entryTexturePatch | a protocol over many calls, kept in statics |
| PSX bridge (`psx.cpp`) | `ModuleMap`, `KernelHandlers`, `UserHandlers`, `Emulator` | LoadModule, BindModules, handlers | modules loaded before and after the one bind; machines that are reloaded |
| Screen geometry (`sqhook.cpp` 691-746) | bounds, scale, mode in three places | two callbacks | use before the first valid bounds |
| Config look-ups (`config.cpp`) | strings and buffers of the last look-up | GetCfgValue, GetCfgValueEx | arithmetic modulo the word size; lifetime of strings |
| D3D11 upscaler (`d3d11.cpp`) | textures, views, draws, a queue of presents | hooks of the device and its contexts | re-entrancy, reference counts, addresses that are reused |
| MGS1 handlers (`mgs1.cpp`) | stage names, the blanking counter | emulator and script callbacks | small |
| M2Config, Analog, Borderless, EPI, tracing, Patriots, wrappers | none that outlives a call, or logs | | |

The loader attaches the DLL; its thread installs every hook; from then on the parts run on
the game's threads.  Squirrel events and natives (SQHook) call Ketchup, the filters, the
geometry callbacks and the PSX bridge; the bridge and the geometry feed the upscaler; the
compatibility flag and the update check run once per start on the mod's thread, while the
game is held back by the handshake.

What makes each part correct: the handshake lets nobody through early and everybody
through in the end; the Squirrel hooks are invisible to the game (each closure has its own
function whenever the game or the mod looks); Ketchup leaves exactly the patched executable
in RAM; the flag follows the option and takes nothing else from the user; the update check
gives each notice once and asks the repositories when its answer is old; the upscaler
replaces each texture by its own second one, for as long as anybody can name the first, and
gives the device context back as it was.

## 2. Modules

| Module | Models | Abstract or composed of |
|---|---|---|
| `StartGate` | the one-shot latch that the handshake promises | abstract |
| `MemsetGate` | DllMain, M2Fix::Main, memsetWait, memsetRelease, the making of hooks | implements `StartGate` |
| `Interposer` | filters before native calls and handlers for debug events, with no closure touched | abstract |
| `NativeHook` | SQHook around the VM's calls and events | implements `Interposer` |
| `NativeHookHistory` | the same with a history of the VMs that came in above a call | extends `NativeHook` |
| `DiscMap` | sectors, ranges and addresses of a disc | used by `Ketchup` |
| `Ketchup` | the mod loader, one record and one byte at a time | extends `DiscMap` |
| `CompatFlag` | DisableWindowsFullscreenOptimization over many starts | |
| `VersionCheck` | checkForUpdates over many starts | |
| `Upscaler` | D3D11's textures, views, substitution and passes | |
| `PsxModules` | the emulator's modules: clones, hooks in their tables, the handler maps | used by `PsxMachine` |
| `ScreenGeometry` | bounds, scale and mode of the screen, and what the GTE hooks make of them | used by `PsxMachine` |
| `PsxMachine` | modules and geometry of a machine together | composes the two |
| `RamPatch` | the filter of setRamValue, over sequences of calls | |
| `LoadScript` | the list of scripts, over nested and failing calls | |
| `ScriptCallbacks` | the two handlers for the game's scripts side by side | composes `RamPatch` and `LoadScript` |
| `ConfigLookup` | GetCfgValueEx and its index out of bounds | |
| `MC...` | the instances TLC checks | |
| `...Proofs` | the theorems, of `PsxMachine` in `PsxMachineProofs`, of `ScriptCallbacks` and `ConfigLookup` in `HookProofs` | |

### MemsetGate

`attach[c]` and `main[c]` say where the copy `c` of the mod is in DllMain and in its
thread; `hook[h]` is `absent`, `live` (InlineHook::create has returned, m2hook.h:45) or
`registered` (stored in `m_hooks`, m2hook.h:51).  `pc[t]` walks a game thread through
memsetWait: the lock of `memsetHookMutex`, the test of the two flags, the wait with its
predicate, the call of the original.  The read of `mainThreadFinished` in the test has no
lock; it is a Boolean that only ever becomes true, so the read gives its old or its new
value, which the interleaving covers.  Waiting gives up the mutex and goes to sleep in one
step, as a condition variable does; a wake-up nobody sent (`Wake`) may happen any time and
is not relied upon.

A process that has exited stops, one whose two copies are both installed and whose first
sleeps stops too, and so does one where CreateThread has failed: the run does not check for
deadlock, and `WaiterReturns` says what must not stop.

Fairness: weak for every thread inside memsetWait and for the mod's thread, which the
scheduler of Windows justifies; strong for the mod's thread in memsetRelease, because
spurious wake-ups could take `mainThreadFinishedMutex` from it for ever otherwise.  New
calls, the loader and spurious wake-ups have none.

### NativeHook

`stack` is the C stack: scripts, native calls and handlers, the newest last.  `Swap` and
`Unswap` are the two halves of SQHook::CallNative around the VM's own CallNative;
`RefuseCall` is the VM's refusal before the function is called; `EnterNative` and
`EnterHook` are HookNative up to the filter and up to the debug handler; `HookReturn` gives
the debug hook back.  The game's copy of the VM and the mod's own copy (Sqrat is compiled
into the DLL) run the same closures, but only the game's calls are hooked: a frame has a
`side`.  A suspended coroutine is a VM that is not on the stack; a native may wake it
(`CallBack`).  Left out: the exclusive debugger, whose branch (sqhook.cpp:1015) hands the
VM to a third-party debug hook; the Command interpreter; tracing.  A filter of NativeTable
stops the call or lets it pass.  Closures of the debug hook that nothing refers to are
reused, as the VM's reference counts free them.

Sqrat::DefaultVM is one variable for all VMs.  HookNative and Hook set it to the VM of the
call, CreateVM to the new VM, and nothing sets it on the way out, so that a filter or
handler that goes on has its own VM there only if no other VM has come in above it.
`NativeHookHistory` keeps the depths of the calls for which one has (`astray`): the native
that was running has woken a coroutine, gone back to another VM, or made one.  `HandlerVM`
is about every moment at which a filter or handler has control, not only its first.

`Interposer` is what all this is for: calls that nest, a filter before a native that has
one, a handler for an event of an armed VM, which is disarmed meanwhile.  It has no
closures, no M2FixData and no saved functions.  `Interposition` maps the stack to its calls
frame by frame (`CallOf`): a call that has been swapped in is one of the function its
closure was made with, and every other frame runs what the hook has found to run.  So the
three places that keep a function (the closure, M2FixData::native, the local of CallNative)
must agree at the step into HookNative, however calls have nested since.  A VM is armed if
it has a debug hook.

### DiscMap and Ketchup

`DiscMap` has the arithmetic of ApplyBlock and, the other way round, that of a loader.
`Ketchup` is the sequential program Process with a `pc`, one action per file, record and
byte, between actions of the game: a boot, the tray, another disc.  The records of a file
are its data, the byte count is the program's own (`count`, where -1 stands for any
negative value), and `stray` tells that something that is no record has been read as one.
The length of a FILE_ID.DIZ is a signed `int` of which two bytes are read: its upper half
is any of `UpperHalves`, times `HalfWord`, and may be negative, so that the count of such a
file may be larger than the file.  `ReadTrailer` is a turn of the loop behind the records:
one of the blocks in `Strays` is applied to the disc, its bytes are counted, and the count
may come to 0 by accident.  Such a block does not get to RAM: the eight bytes of its offset
are text, and far beyond the executable before EntryCdRomPatch cuts them.
`cold` and `image` are history: the bytes of the disc when the machine was booted, with the
records of the mods loaded since.  `RecordEnd` is a recursive function that lays the records of a
file out one behind the other, in the sizes of the format and not in those that ApplyPPF3
counts.

Assumed of the table of titles: what MGS1_Ketchup (mgs1.h 405-467) has, that titles,
versions and discs have names or numbers of their own.  Assumed of the files: complete, with
at least one record, and in the folder that README.md lists (`Listed`) for the disc they are
for, or in none of these.  Assumed of the machine: a boot
leaves the executable in RAM, as its `ram_base` and size in MGS1_Ketchup say.

### CompatFlag and VersionCheck

Both are one sequential function over many starts.  The steps are the accesses to what
outlives the process, since a kill (`Quit`) matters between those.  In `CompatFlag` every
access may fail and the user may edit the value between any two; `owner`, `edited`,
`failed` and `orphan` are history.  `edited` is whether he has done so since the value was
last read, and `orphan` whether a start was killed or failed before it made its marker.  In `VersionCheck` a save is two steps, because opening
the file for writing empties it; `since`, `told`, `last` and `broken` are history.  A
version is a number: what compareSemVer makes of its text.  An hour is not counted while a
check runs (a check takes seconds), and the clock is not set back.

### Upscaler

An object of Direct3D is an address.  `viewOf` and `targetOf` say what is behind a view or
target, `viewRefs` and `targetRefs` count the mod's references; the game's are the sets
`gameTextures` and `gameViews`.  A view that loses its last reference and its binding dies
(`Bury`), and `NewView` may give its address out again, as the heap does.  texVram,
srvVram and the other maps are the code's.  The actions are the hooked calls:
`CreateVram` and `CreateTexture` (which of the two is a choice, for the code goes by size
and format), `CreateVramView` and `CreateView`, `PSSetShaderResources`,
`CopySubresourceRegion`, `BeginUpscale` for whichever hook starts a pass.  A pass is an
`Upscale` step per element of srvVram and a `Serve` step per State of the queue; the calls
that Serve makes go through `Substitute` with the flag as it is, like the game's.  The
context is reduced to a target, a resource of the pixel shader and the rest.  `origin`,
`image`, `orphaned`, `misdirected` and `failed` are history.

The calls of the game come one at a time, on one context.  The answer of GWBlank, which
counts its own calls in MGS1, is a choice.  Left out: the archive of constant buffers; what
Direct3D unbinds by itself when a texture is bound for output, which the served state binds
again; hooks that only pass on.  Bounds, in `Sound`: one creation fails, after which, or
after a texture was misdirected, the game draws on but makes and releases nothing more; the
game has one ordinary texture and one ordinary view at a time.

### PsxModules, ScreenGeometry, PsxMachine

A module is an address of the emulator's; `mapped` are the keys of ModuleMap, and
`entries[<<m, a>>]` is the handler in the entry of the clone of `m` for the address `a`.
The emulator's own handlers are known by the entries they were in, so that "what the hook
has replaced" can be said.  `LoadModule` is the hook of m2epi_load_module,
`onInitializeFinish` the script event at which the hooks are made, once; `PSXmain` is the
handler of the game's entry point, which puts R3000_Execute in the place of the CPU's
Execute; `NewMachine` is the emulator's.  UserHandlers and KernelHandlers are total
functions, since operator[] puts a null where it finds nothing.  The tables of the mod
(mgs1.h 185-396) are a constant, `HookTable`.

The keys of the maps do not name a module.  Kernel modules that list the same hooked
address share a key, and so do user modules with the same id and address; the last module
in the order of ModuleMap wins, and the hooks of the others call its handler.  Nothing in
the repository rules such modules out.  `Originals` is what a hook may then call: what the
emulator had, in modules that were bound, at the entries that the look-up cannot tell from
the hook's own, those of the other segment included.  `OwnOriginal` says that it calls one
of these and, called at its own address, one of that address; where only its module lists
the address, that is its own original.

Left out: what handlers do with the CPU's registers, the events and vectors that tables of
the game might list (they are empty), CommandR3000 and CommandPSX (which pass on), tracing.

### RamPatch and LoadScript

`RamPatch` has the three statics of SQNative_setRamValue and the scripts around it: they
have a list of patches, apply one by calling setRamValue for its elements in order, and set
other values between patches and in the middle of them.  The filter sees only offsets.
`misled` is history: whether it took a call for one of a patch that it is not of (a value
that happens to lie where a patch begins, or is set while a patch is filtered; two patches
at one offset), until filter and scripts are at rest together.
A script is taken to finish the patch it has begun: one that does not leaves the filter
in the middle for good.

`LoadScript` has the list of SQCall_ and SQReturn_util_load_script, one for all calls and
coroutines.  `open` are the calls of each coroutine, `class` the class each handler's key
stands for.  A call that fails is unwound without an event, so its names stay in the list.
`excused` is history: the classes whose call failed, or saw another call return or begin
with an array and does not find its names in the list, for which the code does nothing.

### ConfigLookup

Addresses are numbers modulo `Word`.  The game's table may be anywhere (`base`), and the
allocator may put the string and the buffer of each look-up wherever they overlap nothing
(`Places`).  `Entry` is the arithmetic of the game's inlined code.

## 3. What the runs show

| Run | Instance | Result |
|---|---|---|
| `memset_gate` | 3 game threads, 2 hooks, 2 copies of the mod | pass |
| `native_hook` | root VM and a coroutine, a plain and a filtered native, 3 debug closures, 8 frames | pass |
| `ketchup` | 4 discs of 10 bytes, executables of one and two sectors, 7 files | pass |
| `ketchup_file_id` | the same | violates `NoStray` |
| `compat_flag` | the flag beside two flags of the user's | pass |
| `compat_flag_own` | the same, without failures, edits during a start and turns of the option during a start | violates `RemovesOwn` |
| `version_check` | 3 versions, TTL 1 hour, ages to 5 hours | pass |
| `version_check_ttl` | the same | violates `SkipsUnderTTL` |
| `psx_machine` | 3 user modules, 2 with one id, 2 kernel and a system module; a wide screen, a minimised window and one without width | pass |
| `script_callbacks` | 5 lists of up to 3 patches in segments of 16; 3 scripts, 2 coroutines, 2 open calls | pass |
| `config_lookup` | addresses of 5 bits, entries of 5, buffers of 6, 3 keys | pass |
| `upscaler` | addresses of 4 textures, 3 views and 2 targets; 2 video memories | pass |

Bounds and why they are enough.  Three threads are one asleep with the mutex, one that
queues behind it and one that comes after the release; two hooks are one stored and one
live.  Eight frames hold a native that recurses through a script, is called again from a
coroutine, and has an event whose handler evaluates a script that calls it once more; three
debug closures are one per VM and one that a handler has taken away.  The discs have
records that begin before the executable, span the gap between sectors and end behind it,
with and without validation block, undo data and FILE_ID.DIZ; one title has several
versions and a version with two discs, the other has neither; the upper half of a length is
-1, 0 or 1.  Three versions are the
installed one, and two that repositories disagree on; ages to five hours are past two TTLs.
Four textures are two video memories with their replacements, or one and two that come and
go at the address of a dead one; three views are a registered one, its replacement and one
that dies and whose address is used again.  A view dies without the reference of
CreateShaderResourceView, which the mutant of `OwnRemastered` shows.  `OwnRemastered` has an
exception that the code needs: a texture that died before there was a view of it leaves an
element in texVram, and the next texture at its address gets its replacement.

The user modules share an address, two of them with one id; one of these two lists it in
both segments.  One has an address that is hooked and no entry point; the kernel modules
share a vector.  Any of them
may be loaded before or after the hooks are made, twice, or in a later machine only.  The
patches are adjacent, one inside another, two at one offset, in a higher segment, at 0, at
the exempted offset and without elements.  `RamPatch` and `LoadScript` share no state;
`script_callbacks` explores each with the other one at rest (`OtherAtRest`), and the
behaviours that are cut show no property anything new.  The word of `config_lookup` is no
multiple of the stride, so that tables above the buffer, where the distance wraps, count.

The violation runs:

* `ketchup_file_id`: MetaPPF_FileId reads two bytes into an uninitialised `int`
  (ketchup.cpp:50, 67).  If the upper half is not zero the byte count of ApplyPPF3 never
  comes to 0 and what follows the records is applied as records.
* `compat_flag_own`: the marker is made whenever the option is on, also if the flag was
  already the user's own (mgs1.cpp:292); turning the option off takes it, against the
  comments in mgs1.cpp:207 and 209.  So that the trace is this history and nothing else,
  the run keeps to states without failed accesses and edits during a start (`Undisturbed`)
  and to steps that turn the option between starts (`OptionBetween`).  What does hold is
  `Marked`: a flag of the mod's own has its marker, unless a start was cut short.
* `version_check_ttl`: a notice given from the cache renews the time of the cache
  (versionchecker.cpp:138), so that a check may be skipped although the last answer is
  older than the TTL.  `WithinTwo` is what does hold.

## 4. What is proved

| Module | Theorems | For every |
|---|---|---|
| `MemsetGateProofs` | TypeCorrect, GateShut, NoEmptyInvoke, NoDuplicateStart, OneInside; the handshake implements the safety of `StartGate` | set of threads and hooks |
| `NativeHookProofs` | TypeCorrect, Unswapped, RightFunction, Armed, HookKept, HandlerVM; the hook implements `Interposer` | set of VMs, natives, closures, depth |
| `KetchupProofs` | ImageCovered, WritesInImage (the arithmetic of `DiscMap`); TypeCorrect, MappedRam, RecordsOnly, OwnFolder | sector size, stride and image base; titles, files, discs |
| `CompatFlagProofs` | TypeCorrect, Settled, OthersKept, Marked | set of other flags |
| `VersionCheckProofs` | TypeCorrect, WarnedTold, WithinTwo, NotTwice | number of versions, TTL, age |
| `UpscalerProofs` | TypeCorrect, ReferencesKept, NoCrash, PassTransparent, OwnRemastered, Refreshed | number of addresses and textures |
| `PsxMachineProofs` | TypeCorrect, OwnOriginal, HooksHold, Projected | set of modules, tables, ids, addresses, bounds |
| `HookProofs` | TypeCorrect, FilteredExactly, HandlersRun; IndexExact | lists of patches, scripts, coroutines; word size, sizes of string and pointer, places |

Each safety theorem follows from an inductive invariant `TypeOK /\ IInv` (the parts of
`IInv` are named in the proof modules), because the properties alone are not inductive:

* In `MemsetGate` the gate holds because exactly one copy gets past CheckModules, the
  owner of the memset hook is that copy, and it sets `mainThreadFinished` only after it has
  registered everything; a thread that is past the test with the flag unset is the first
  one, and it is in the wait.
* In `NativeHook` the invariant describes the whole stack: every frame that is past
  HookNative has put its closure back, `saved` is the closure's own function, and what a
  handler has taken away is still a debug closure that is kept for its VM by the outermost
  handler.  `HandlerVM` needs an invariant about all frames, not only the newest
  (`HandlerInv`): above every filter or handler that has not gone astray there are only
  frames of its own VM, and that VM is the default, so that what returns above it leaves it
  as it was.
  For the refinement, what pushes, pops or replaces a frame is shown to do the same to the
  calls (`CallsPush`, `CallsPop`, `CallsRetop`), and each action then to be the one of
  `Interposer` with its name; ended, refused and stopped calls are all its `Return`.
  Of the invariant it needs `SwappedInv` (a call that is swapped in has its closure's own
  function in M2FixData::native), `Unswapped` for the calls of the mod, and `FrameInv` for
  what `HookReturn` gives back.
* In `Ketchup` it says which bytes of RAM agree with the image while a block is mapped, and
  that an open tray leaves none to map; the arithmetic of sectors comes first.  `CountInv`
  says what the byte count means, which RecordsOnly does not: at each turn of the loop it is
  what the records that are not read yet take, so that it is 0 behind the last one and,
  since no record is empty (`EndsGrow`), nowhere before.  `FoldersDiffer` has that two discs
  never share a folder although RootPath leaves out what a title or version has only one of.
* In `CompatFlag` and `VersionCheck` it says what the locals know of the files at each `pc`.
* In `Upscaler` the balance of references is what shows that nothing in the maps is dead: a
  fresh address has no references, so it is in no map and no State, and the counts of the
  others stay as they are.  So what the maps lead to is alive, its address is not given out
  again, and what it was made for stays what it was (`OriginInv`); no two elements of
  texVram share a replacement (`PairsInv`), so each texture has a target of its own, and a
  pass that draws one leaves what it has drawn before (`ShownInv`).
* In `PsxMachine` a table that has a hook belongs to a module of `early`, every other entry
  has its own handler, and the maps have for each key what the last module of `early` that
  lists it had (`UserInv`, `KernelInv`): a hook never finds a null because its own module
  is one of those.
  For the geometry the invariant is that the scale SQHook holds fits the bounds it holds
  (`ScreenInv`) and that the machine has been handed such a pair (`MachineInv`), in whatever
  order the callbacks come and whether or not the last bounds had a divisor.  All that the
  proof needs of Gcd is that it divides both sides.
* In `RamPatch` the filter that is not misled has the very patch that the scripts apply and
  has counted the same calls (`AlignedInv`); in `LoadScript` an open call that no other one
  has disturbed still has its names in the list (`NotedInv`), so that its return finds them.
* In `ConfigLookup` the theorem is about one look-up at a time and rests on a lemma about
  remainders: the word drops out of the arithmetic whether or not the distance wraps.

The assumptions are the named ASSUMEs of the modules: distinct model values, the ranges of
the constants.  TLC evaluates them in every run.

What a recursive function computes is proved with the least-number principle (`Least`, from
the well-foundedness of the naturals): `RecordEnd` is shown to be the one function that its
definition describes, to be a number everywhere and to grow, each by looking at the first
place where it is not.  That the divisors `Gcd` chooses from have a greatest is shown by the
same principle.

Only model-checked: liveness (`WaiterReturns`, `ProcessEnds`, the liveness of `StartGate`),
which needs fairness, and what the violation runs show.  Every other property of a run is
the property of a theorem.

## 5. Not modelled, and why

* Failing CreateThread: an outcome of `AttachThread`, after which the game hangs at its
  first memset; `WaiterReturns` claims nothing for it.
* Data races on `M2Hook::m_hooks`: a look-up and an insertion are atomic in the model.
* An unsupported game with update checks on: EnsureAppData dereferences a null GameInfo()
  (m2utils.cpp:13); in the model this is one of the exits of `Startup`.
* entryCdRomPatch and entryTexturePatch: decided by the arguments of one call.
* GetCfgValue: its strings live as long as the mod.  Which of the two look-ups a build has,
  and so whether the destructor of the strings frees the right ones (config.cpp:38), is
  decided by machine code that is not in the repository.
* Pattern scanning, code patches, register-level emulator hooks, message boxes, logs, the
  HTTP query's parsing: pure data or pure input and output.
* Analog, Borderless, EPI, tracing, Patriots, M2Config: no state over which an order of
  steps could be wrong.
* The debug overlay of Direct3D, which only a Debug build has; it calls ImGui::GetIO before
  there is a context (d3d11.cpp:2015).  Two threads that draw: the upscaler has no lock.
* SQResource: nothing in the repository calls Load, so Poll never finds anything.
* Vendored code (Squirrel, sqrat, FunctionTraits and the submodules) but for the calls,
  events and debug hooks of the VM that NativeHook and LoadScript need.  It is most of the
  repository: of some 85000 lines about 11000 are the mod's own, and half of those are
  tables of patterns, offsets and hashes, layouts of foreign structures, and Windows and
  Direct3D calls that are passed on.

## 6. What could follow

1. The archive of constant buffers in `Upscaler`, with buffers at reused addresses.
2. Two threads that draw, should a game turn out to do that.
