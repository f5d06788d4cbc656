----------------------------- MODULE NativeHook -----------------------------
(***************************************************************************)
(* How SQHook (sqhook.cpp) gets into the game's Squirrel VM.               *)
(*                                                                         *)
(* Every native closure the game calls goes through SQHook::CallNative:    *)
(* the function pointer of the closure is kept in the data of the VM and   *)
(* replaced by HookNative, which puts it back, arms the debug hook of the  *)
(* VM, lets a filter of NativeTable refuse the call, and runs the native.  *)
(* The debug hook is a native closure too: an event of a script calls it   *)
(* the same way and ends up in SQHook::Hook, which disarms itself, runs a  *)
(* handler of CallTable or ReturnTable, and arms itself again.             *)
(*                                                                         *)
(* Natives call scripts back, scripts run on several VMs (coroutines), and *)
(* handlers evaluate scripts on the mod's own copy of the VM, whose native *)
(* calls are not hooked.  All of it nests on one C stack.                  *)
(***************************************************************************)
EXTENDS Naturals, Sequences

CONSTANTS
  VMs,            \* The SQVM objects: the root and the coroutines.
  Root,           \* The VM the game opens first.
  Natives,        \* The native closures of the game.
  Filtered,       \* Those of them that NativeTable has an entry for.
  DebugClosures,  \* The closures of SQHook::Hook that SetHook makes.
  None,
  MaxDepth        \* Bounds the C stack.

Closures == Natives \cup DebugClosures

ASSUME HookAssumption ==
  /\ Root \in VMs
  /\ Filtered \subseteq Natives
  /\ Natives \cap DebugClosures = {}
  /\ None \notin Closures
  /\ "Hook" \notin Closures /\ "HookNative" \notin Closures
  /\ MaxDepth \in Nat

\* The function a closure is made with: a native's own, or SQHook::Hook.
Original(c) == IF c \in DebugClosures THEN "Hook" ELSE c

\* Every function that a closure has of its own, and every function a closure can hold.
OwnFunctions == Natives \cup {"Hook"}
Functions == OwnFunctions \cup {"HookNative"}

\* What is on the C stack: a script that the game's or the mod's copy of the VM
\* runs, or a native closure that one of them calls.
\*   phase   "script"
\*           "swapped"  in SQVM::CallNative, before the function of clo is called
\*           "filter"   in the entry of NativeTable
\*           "body"     in the function of the closure itself
\*           "handler"  in SQHook::Hook, in the entry of CallTable or ReturnTable
\*   saved   the local `function' of SQHook::CallNative
\*   run     the function that has been called
\*   disarm  the local `debughook' of SQHook::Hook
Frame ==
  [phase  : {"script", "swapped", "filter", "body", "handler"},
   side   : {"game", "mod"},
   vm     : VMs,
   clo    : Closures \cup {None},
   saved  : OwnFunctions \cup {None},
   run    : Functions \cup {None},
   disarm : DebugClosures \cup {None}]

VARIABLES
  alive,      \* The VMs created so far.
  fn,         \* SQNativeClosure::_function of each closure.
  native,     \* M2FixData::native of each VM.
  hooked,     \* M2FixData::hooked of each VM.
  debughook,  \* SQVM::_debughook of each VM.
  defaultVM,  \* Sqrat::DefaultVM.
  stack       \* The C stack, the newest frame last.

vars == <<alive, fn, native, hooked, debughook, defaultVM, stack>>

Init ==
  /\ alive = {Root}
  /\ fn = [c \in Closures |-> Original(c)]
  /\ native = [v \in VMs |-> None]
  /\ hooked = [v \in VMs |-> FALSE]
  /\ debughook = [v \in VMs |-> None]
  /\ defaultVM = Root
  /\ stack = <<>>

Top == stack[Len(stack)]

TopIs(phases) == stack # <<>> /\ Top.phase \in phases

Push(f) == Len(stack) < MaxDepth /\ stack' = Append(stack, f)

Pop == stack' = SubSeq(stack, 1, Len(stack) - 1)

Retop(f) == stack' = [stack EXCEPT ![Len(stack)] = f]

Script(v, s) ==
  [phase |-> "script", side |-> s, vm |-> v, clo |-> None, saved |-> None,
   run |-> None, disarm |-> None]

-----------------------------------------------------------------------------
(* The game.                                                               *)

\* The game runs a script on the root VM.
HostCall ==
  /\ stack = <<>>
  /\ Push(Script(Root, "game"))
  /\ UNCHANGED <<alive, fn, native, hooked, debughook, defaultVM>>

\* A native calls back into its VM or wakes a VM that is not running.
CallBack(v) ==
  /\ TopIs({"body"})
  /\ v \in alive
  /\ v = Top.vm \/ \A i \in 1 .. Len(stack) : stack[i].vm # v
  /\ Push(Script(v, "game"))
  /\ UNCHANGED <<alive, fn, native, hooked, debughook, defaultVM>>

\* A native makes a coroutine: SQVM::Init copies the debug hook of the VM it is made
\* from, and the hook of the constructor, SQHook::CreateVM, makes it the default VM.
CreateVM(v) ==
  /\ TopIs({"body"})
  /\ v \notin alive
  /\ alive' = alive \cup {v}
  /\ debughook' = [debughook EXCEPT ![v] = debughook[Top.vm]]
  /\ defaultVM' = v
  /\ UNCHANGED <<fn, native, hooked, stack>>

ScriptReturn ==
  /\ TopIs({"script"})
  /\ Pop
  /\ UNCHANGED <<alive, fn, native, hooked, debughook, defaultVM>>

-----------------------------------------------------------------------------
(* SQHook::CallNative, around SQVM::CallNative.                            *)

\* Faulty variant: the function is read after it is replaced.
SwapThenRead(v, c) ==
  /\ native' = [native EXCEPT ![v] = "HookNative"]
  /\ fn' = [fn EXCEPT ![c] = "HookNative"]
  /\ Push([phase |-> "swapped", side |-> "game", vm |-> v, clo |-> c,
           saved |-> "HookNative", run |-> None, disarm |-> None])

\* The function of the closure is swapped on the way in ...
Swap(v, c) ==
  /\ native' = [native EXCEPT ![v] = fn[c]]
  /\ fn' = [fn EXCEPT ![c] = "HookNative"]
  /\ Push([phase |-> "swapped", side |-> "game", vm |-> v, clo |-> c, saved |-> fn[c],
           run |-> None, disarm |-> None])

\* ... and put back on the way out.
Unswap ==
  /\ fn' = IF Top.side = "game" THEN [fn EXCEPT ![Top.clo] = Top.saved] ELSE fn
  /\ Pop

\* A script or a native of the game calls a native closure.
GameCall(c) ==
  /\ TopIs({"script", "body"})
  /\ Top.phase = "script" => Top.side = "game"
  /\ Swap(Top.vm, c)
  /\ UNCHANGED <<alive, hooked, debughook, defaultVM>>

\* SQVM::CallNative refuses a call with wrong parameters, or too deep, before the
\* function is called.
RefuseCall ==
  /\ TopIs({"swapped"})
  /\ Unswap
  /\ UNCHANGED <<alive, native, hooked, debughook, defaultVM>>

\* A debug event ('c', 'r' or 'l') of a script on the game's copy of the VM.
GameEvent ==
  /\ TopIs({"script"})
  /\ Top.side = "game"
  /\ debughook[Top.vm] # None
  /\ Swap(Top.vm, debughook[Top.vm])
  /\ UNCHANGED <<alive, hooked, debughook, defaultVM>>

-----------------------------------------------------------------------------
(* SQHook::HookNative.                                                     *)

\* The closures that nothing refers to: a new one is any of them.
Unused ==
  {d \in DebugClosures :
     /\ \A v \in VMs : debughook[v] # d
     /\ \A i \in 1 .. Len(stack) : stack[i].clo # d /\ stack[i].disarm # d}

\* Faulty variant: armed once for all VMs.
SetHookOnce(v) ==
  IF \A w \in VMs : debughook[w] = None
    THEN \E d \in Unused : debughook' = [debughook EXCEPT ![v] = d]
    ELSE UNCHANGED debughook

\* A VM without a debug hook gets a new closure of SQHook::Hook.
SetHook(v) ==
  IF debughook[v] = None
    THEN \E d \in Unused : debughook' = [debughook EXCEPT ![v] = d]
    ELSE UNCHANGED debughook

\* Faulty variant: the closure is left hooked while the native runs.
EnterUnrestored ==
  /\ TopIs({"swapped"})
  /\ native[Top.vm] # "Hook"
  /\ defaultVM' = Top.vm
  /\ SetHook(Top.vm)
  /\ Retop([Top EXCEPT !.run = native[Top.vm],
                       !.phase = IF Top.clo \in Filtered THEN "filter" ELSE "body"])
  /\ UNCHANGED <<alive, fn, native, hooked>>

\* Faulty variant: the native is whatever the closure holds.
EnterFromClosure ==
  /\ TopIs({"swapped"})
  /\ native[Top.vm] # "Hook"
  /\ defaultVM' = Top.vm
  /\ SetHook(Top.vm)
  /\ Retop([Top EXCEPT !.run = fn[Top.clo],
                       !.phase = IF Top.clo \in Filtered THEN "filter" ELSE "body"])
  /\ fn' = [fn EXCEPT ![Top.clo] = native[Top.vm]]
  /\ UNCHANGED <<alive, native, hooked>>

\* Faulty variant: the default VM is left as it is.
EnterDefaultKept ==
  /\ TopIs({"swapped"})
  /\ native[Top.vm] # "Hook"
  /\ SetHook(Top.vm)
  /\ fn' = [fn EXCEPT ![Top.clo] = native[Top.vm]]
  /\ Retop([Top EXCEPT !.run = native[Top.vm],
                       !.phase = IF Top.clo \in Filtered THEN "filter" ELSE "body"])
  /\ UNCHANGED <<alive, native, hooked, defaultVM>>

\* A native of the game: to its filter, or right to its body.
EnterNative ==
  /\ TopIs({"swapped"})
  /\ native[Top.vm] # "Hook"
  /\ defaultVM' = Top.vm
  /\ SetHook(Top.vm)
  /\ fn' = [fn EXCEPT ![Top.clo] = native[Top.vm]]
  /\ Retop([Top EXCEPT !.run = native[Top.vm],
                       !.phase = IF Top.clo \in Filtered THEN "filter" ELSE "body"])
  /\ UNCHANGED <<alive, native, hooked>>

\* FixNative: the filter lets the native run ...
FilterPass ==
  /\ TopIs({"filter"})
  /\ Retop([Top EXCEPT !.phase = "body"])
  /\ UNCHANGED <<alive, fn, native, hooked, debughook, defaultVM>>

\* ... or the call returns without it.
FilterStop ==
  /\ TopIs({"filter"})
  /\ Unswap
  /\ UNCHANGED <<alive, native, hooked, debughook, defaultVM>>

BodyReturn ==
  /\ TopIs({"body"})
  /\ Unswap
  /\ UNCHANGED <<alive, native, hooked, debughook, defaultVM>>

-----------------------------------------------------------------------------
(* SQHook::Hook.  The exclusive debugger, which replaces the debug hook by *)
(* its own, is not used.                                                   *)

\* The debug hook of the VM is taken away for as long as the handler runs.
StartHook(v) ==
  /\ debughook' = [debughook EXCEPT ![v] = None]
  /\ hooked' = [hooked EXCEPT ![v] = TRUE]
  /\ defaultVM' = v

\* Called from HookNative, which has put the function back and found it to be Hook.
EnterHook ==
  /\ TopIs({"swapped"})
  /\ native[Top.vm] = "Hook"
  /\ fn' = [fn EXCEPT ![Top.clo] = native[Top.vm]]
  /\ Retop([Top EXCEPT !.run = native[Top.vm], !.phase = "handler",
                       !.disarm = debughook[Top.vm]])
  /\ StartHook(Top.vm)
  /\ UNCHANGED <<alive, native>>

\* A debug event of a script on the mod's copy of the VM calls Hook with no swap.
ModEvent ==
  /\ TopIs({"script"})
  /\ Top.side = "mod"
  /\ debughook[Top.vm] # None
  /\ Push([phase |-> "handler", side |-> "mod", vm |-> Top.vm, clo |-> debughook[Top.vm],
           saved |-> None, run |-> fn[debughook[Top.vm]], disarm |-> debughook[Top.vm]])
  /\ StartHook(Top.vm)
  /\ UNCHANGED <<alive, fn, native>>

\* Faulty variant: the debug hook is not given back.
HookReturnDisarmed ==
  /\ TopIs({"handler"})
  /\ Unswap
  /\ UNCHANGED <<alive, native, hooked, debughook, defaultVM>>

HookReturn ==
  /\ TopIs({"handler"})
  /\ debughook' = [debughook EXCEPT ![Top.vm] = Top.disarm]
  /\ Unswap
  /\ UNCHANGED <<alive, native, hooked, defaultVM>>

-----------------------------------------------------------------------------
(* Handlers and filters evaluate scripts with Sqrat on the default VM, and *)
(* these call natives with no hook.                                        *)

ModScript ==
  /\ TopIs({"filter", "handler"})
  /\ Push(Script(defaultVM, "mod"))
  /\ UNCHANGED <<alive, fn, native, hooked, debughook, defaultVM>>

ModCall(c) ==
  /\ TopIs({"script"})
  /\ Top.side = "mod"
  /\ Push([phase |-> "body", side |-> "mod", vm |-> Top.vm, clo |-> c, saved |-> None,
           run |-> fn[c], disarm |-> None])
  /\ UNCHANGED <<alive, fn, native, hooked, debughook, defaultVM>>

-----------------------------------------------------------------------------
Next ==
  \/ HostCall
  \/ \E v \in VMs : CallBack(v) \/ CreateVM(v)
  \/ ScriptReturn
  \/ \E c \in Natives : GameCall(c) \/ ModCall(c)
  \/ RefuseCall
  \/ GameEvent
  \/ EnterNative
  \/ FilterPass
  \/ FilterStop
  \/ BodyReturn
  \/ EnterHook
  \/ ModEvent
  \/ HookReturn
  \/ ModScript

Spec == Init /\ [][Next]_vars

-----------------------------------------------------------------------------
(* Properties.                                                             *)

\* Every variable has its type: what CallNative keeps to put back is a function of the
\* game or Hook. The call that is between CallNative's swap and HookNative is the newest
\* one, since nothing of the VM runs in between.
TypeOK ==
  /\ alive \in SUBSET VMs
  /\ fn \in [Closures -> Functions]
  /\ native \in [VMs -> OwnFunctions \cup {None}]
  /\ hooked \in [VMs -> BOOLEAN]
  /\ debughook \in [VMs -> DebugClosures \cup {None}]
  /\ defaultVM \in VMs
  /\ stack \in Seq(Frame)
  /\ \A i \in 1 .. Len(stack) : stack[i].phase = "swapped" => i = Len(stack)

\* Whatever is nested, the game and the mod find every closure with its own function:
\* only the call that has just been swapped in, and has not reached HookNative, has
\* HookNative in its closure (the comment of M2FixData::native, sqhook.h).
Unswapped ==
  \A c \in Closures :
    fn[c] # Original(c) => TopIs({"swapped"}) /\ Top.clo = c /\ fn[c] = "HookNative"

\* A native of the game that has control has the debug hook of its VM armed, whatever
\* it called before it got control back: HookNative's SetHook and Hook's give-back.
Armed ==
  TopIs({"filter", "body"}) /\ Top.side = "game" => debughook[Top.vm] # None

\* A VM that has once had a debug event keeps its debug hook, but for the time one of
\* its handlers is on the stack: no return of a handler loses it.
HookKept ==
  \A v \in VMs :
    hooked[v] /\ debughook[v] = None =>
      \E i \in 1 .. Len(stack) : stack[i].phase = "handler" /\ stack[i].vm = v

\* The hook implements Interposer, in which no closure is ever touched: a call that has been
\* swapped in is one of the closure's own function, and what runs in the end is what
\* HookNative has found in M2FixData::native.
CallOf(f) ==
  [phase |-> IF f.phase = "swapped" THEN "called" ELSE f.phase, side |-> f.side, vm |-> f.vm,
   fun   |-> IF f.phase = "swapped" THEN Original(f.clo) ELSE f.run]

Calls == [i \in 1 .. Len(stack) |-> CallOf(stack[i])]
ArmedVMs == {v \in VMs : debughook[v] # None}

Promise == INSTANCE Interposer WITH armed <- ArmedVMs, current <- defaultVM, calls <- Calls
Interposition == Promise!Spec
=============================================================================
