------------------------------ MODULE PsxModules ------------------------------
(***************************************************************************)
(* The modules of the PlayStation emulator (psx.cpp).  A module is a table *)
(* of addresses at which the emulator calls a handler of its own instead   *)
(* of executing the PlayStation's code.  The mod gives the emulator clones *)
(* of its modules, with tables that it may write to, and puts hooks in the *)
(* place of some handlers, once, when the game's scripts have initialised; *)
(* a hook looks the handler that it has replaced up in a map.  The game    *)
(* makes a machine for every title it starts, and loads modules into it.   *)
(*                                                                         *)
(* A module is its address, which orders ModuleMap.  The maps of handlers  *)
(* are total: operator[] puts a null where a look-up has found nothing, so *)
(* that no key and a key with a null are the same.                         *)
(***************************************************************************)
EXTENDS Integers

CONSTANTS
  Modules,     \* The emulator's modules,
  Kind,        \* "kernel", "user" or "system" for each,
  Accelerator, \* the id that the CPU has while a user module is in charge of it,
  Table,       \* and the addresses of its table.
  HookTable,   \* For each module the addresses that the mod's tables list for its name.
  MainTable,   \* Those of them that are hooked by MGS1_main.
  Location,    \* Addresses without the bit of the segment.
  Processors,  \* What a CPU may have for its Execute.
  Hook, Null   \* The mod's functions, and none.

\* An address has the bit 0x80000000 or not.
Address == [kseg : BOOLEAN, at : Location]

Id == {Accelerator[m] : m \in Modules}

ASSUME PsxAssumption ==
  /\ Modules \subseteq Int
  /\ \A ms \in SUBSET Modules : ms # {} => \E m \in ms : \A n \in ms : n <= m
  /\ Kind \in [Modules -> {"kernel", "user", "system"}]
  /\ Accelerator \in [Modules -> Int]
  /\ Table \in [Modules -> SUBSET Address]
  /\ HookTable \in [Modules -> SUBSET Address]
  /\ MainTable \in [Modules -> SUBSET Address]
  /\ Hook \notin Modules \X Address /\ Null \notin Modules \X Address /\ Hook # Null
  /\ Hook \notin Processors

\* The emulator's own handlers are known by their entries.
Handler == (Modules \X Address) \cup {Hook, Null}

VARIABLES
  mapped,          \* ModuleMap: the modules that have a clone,
  entries,         \* and the handler in each entry of a table.
  UserHandlers,
  KernelHandlers,
  InitializeFinished,  \* InitializeFinishCount > 0.
  loaded,          \* The modules of the present machine,
  processor,       \* what its CPU has had for Execute,
  Execute,         \* and has now.
  R3000_ExecuteFunc,
  Emulator,        \* Whether the mod knows the present machine.
  early            \* The modules that had a clone when the hooks were made.

clones == <<mapped, entries>>
handlers == <<UserHandlers, KernelHandlers, InitializeFinished, early>>
machine == <<loaded, processor, Execute, R3000_ExecuteFunc, Emulator>>
psxVars == <<clones, handlers, machine>>

PsxInit ==
  /\ mapped = {}
  /\ entries = [e \in Modules \X Address |-> e]
  /\ UserHandlers = [k \in Id \X Address |-> Null]
  /\ KernelHandlers = [a \in Address |-> Null]
  /\ InitializeFinished = FALSE
  /\ loaded = {} /\ Emulator = FALSE
  /\ processor \in Processors /\ Execute = processor
  /\ R3000_ExecuteFunc = Null
  /\ early = {}

-----------------------------------------------------------------------------
(* The emulator loads modules.                                             *)

\* The game has ended a title and makes a machine for another.
NewMachine ==
  /\ loaded # {} /\ loaded' = {}
  /\ processor' \in Processors /\ Execute' = processor'
  /\ UNCHANGED <<clones, handlers, R3000_ExecuteFunc, Emulator>>

\* Faulty variant: a module gets a fresh clone whenever it is loaded.
CloneAgain(m) ==
  /\ mapped' = IF Kind[m] \in {"kernel", "user"} THEN mapped \cup {m} ELSE mapped
  /\ entries' = [e \in Modules \X Address |-> IF e[1] = m THEN e ELSE entries[e]]

\* Faulty variant: modules of every kind get a clone.
CloneAny(m) ==
  /\ mapped' = mapped \cup {m}
  /\ UNCHANGED entries

\* LoadKernelModule, LoadUserModule and LoadSystemModule: a module that has a clone is loaded as
\* that clone.  Its table is a copy of the module's.
Clone(m) ==
  /\ mapped' = IF Kind[m] \in {"kernel", "user"} THEN mapped \cup {m} ELSE mapped
  /\ UNCHANGED entries

LoadModule(m) ==
  /\ Emulator' = FALSE
  /\ Clone(m)
  /\ loaded' = loaded \cup {m}
  /\ UNCHANGED <<handlers, processor, Execute, R3000_ExecuteFunc>>

-----------------------------------------------------------------------------
(* The hooks are made.                                                     *)

Listed(m) == Table[m] \cap HookTable[m]

\* The clones of a kind that list an address that is to be hooked.
Bound(kind, id, a) ==
  {m \in mapped : Kind[m] = kind /\ (kind = "user" => Accelerator[m] = id) /\ a \in Listed(m)}

\* The clones are gone through in the order of their modules.
LastOf(ms) == CHOOSE m \in ms : \A n \in ms : n <= m

\* BindUserModules and BindKernelModules: the handler goes into the map, the hook into the table.
BindModules ==
  /\ UserHandlers' = [k \in Id \X Address |->
       LET ms == Bound("user", k[1], k[2])
       IN  IF ms = {} THEN UserHandlers[k] ELSE entries[<<LastOf(ms), k[2]>>]]
  /\ KernelHandlers' = [a \in Address |->
       LET ms == Bound("kernel", 0, a)
       IN  IF ms = {} THEN KernelHandlers[a] ELSE entries[<<LastOf(ms), a>>]]
  /\ entries' = [e \in Modules \X Address |->
       IF e[1] \in mapped /\ e[2] \in Listed(e[1]) THEN Hook ELSE entries[e]]

\* SQReturn_onInitializeFinish, which comes again when the scripts start anew.
onInitializeFinish ==
  /\ InitializeFinished' = TRUE
  /\ IF InitializeFinished THEN UNCHANGED <<UserHandlers, KernelHandlers, entries, early>>
     ELSE BindModules /\ early' = mapped
  /\ UNCHANGED <<mapped, machine>>

-----------------------------------------------------------------------------
(* The emulator calls what is in the tables.                               *)

Found(id, a) == UserHandlers[<<id, a>>]

\* Faulty variant: only the address itself is looked up.
UserHandlerExact(id, a) == Found(id, a)

\* A hook looks up the address of the call, that with the bit of the segment and that without.
UserHandler(id, a) ==
  IF Found(id, a) # Null THEN Found(id, a)
  ELSE IF Found(id, [a EXCEPT !.kseg = TRUE]) # Null THEN Found(id, [a EXCEPT !.kseg = TRUE])
  ELSE Found(id, [a EXCEPT !.kseg = FALSE])

\* The hook of a user module calls the handler it finds for the address of the call, those of a
\* kernel module (Kernel_Function, Kernel_Call, Kernel_Vector and Kernel_Event) have no segments.
Reached(m, pc) ==
  IF Kind[m] = "user" THEN UserHandler(Accelerator[m], pc) ELSE KernelHandlers[pc]

\* MGS1_main: PSX::main takes note of the machine and puts R3000_Execute in the place of the
\* CPU's Execute.  The game runs it again without making another machine when it is reset.
PSXmain(m, a) ==
  /\ m \in loaded /\ a \in Table[m] \cap MainTable[m]
  /\ Kind[m] = "user" /\ entries[<<m, a>>] = Hook
  /\ Emulator' = TRUE
  /\ IF Execute # Hook THEN R3000_ExecuteFunc' = Execute /\ Execute' = Hook
     ELSE UNCHANGED <<R3000_ExecuteFunc, Execute>>
  /\ UNCHANGED <<clones, handlers, loaded, processor>>

-----------------------------------------------------------------------------
PsxNext ==
  \/ NewMachine
  \/ \E m \in Modules : LoadModule(m)
  \/ onInitializeFinish
  \/ \E m \in Modules : \E a \in Table[m] : PSXmain(m, a)

PsxSpec == PsxInit /\ [][PsxNext]_psxVars

-----------------------------------------------------------------------------
(* Properties.                                                             *)

\* The types of the variables: only kernel and user modules are cloned, and the maps hold what
\* the tables have held.
PsxTypeOK ==
  /\ mapped \subseteq {m \in Modules : Kind[m] \in {"kernel", "user"}}
  /\ entries \in [Modules \X Address -> Handler]
  /\ UserHandlers \in [Id \X Address -> Handler]
  /\ KernelHandlers \in [Address -> Handler]
  /\ InitializeFinished \in BOOLEAN /\ early \subseteq mapped
  /\ loaded \subseteq Modules /\ Emulator \in BOOLEAN
  /\ processor \in Processors /\ Execute \in {processor, Hook}
  /\ R3000_ExecuteFunc \in Processors \cup {Null}

\* What the emulator had in the places whose hooks look up what a hook at an address of a module
\* looks up: in tables of user modules with the same id, at the address in either segment, and
\* in those of all kernel modules, since KernelHandlers has no id, at the address.  Where no
\* table but the module's lists the address, and lists it once, that is its own handler alone.
Originals(m, a) ==
  {e \in early \X Address :
     /\ Kind[e[1]] = Kind[m] /\ e[2] \in Listed(e[1])
     /\ IF Kind[m] = "user" THEN Accelerator[e[1]] = Accelerator[m] /\ e[2].at = a.at ELSE e[2] = a}

\* The addresses that a hook at an address is called with.
Calls(m, a) == IF Kind[m] = "user" THEN {pc \in Address : pc.at = a.at} ELSE {a}

\* Whatever modules a machine has, in whatever order they were loaded and the hooks made, each
\* hook calls what the emulator had in the place that the hook has taken, in whatever segment
\* the address of the call is: its own handler, or that of a module the maps cannot tell from
\* its own, and for its own address one of that address, but never a hook or a null.
\* R3000_Execute calls what this machine's CPU had (psx.cpp:47-53, 174-178, 252-295).
OwnOriginal ==
  /\ \A m \in loaded : \A a \in Table[m] :
       entries[<<m, a>>] = Hook =>
         /\ \A pc \in Calls(m, a) : Reached(m, pc) \in Originals(m, a)
         /\ Reached(m, a) \in Modules \X {a}
  /\ Execute = Hook => R3000_ExecuteFunc = processor

\* The hooks of the modules that were there when the scripts first initialised are there in
\* every later machine that loads them (psx.cpp:66-70, 92-96).
HooksHold ==
  \A m \in early \cap loaded : \A a \in Listed(m) : entries[<<m, a>>] = Hook
=============================================================================
