-------------------------- MODULE NativeHookHistory --------------------------
(***************************************************************************)
(* NativeHook with a history variable: which calls on the C stack have had *)
(* another VM come in above them.  A native that wakes a coroutine or makes *)
(* one leaves that VM as Sqrat's default VM, and no return of the hook sets *)
(* it again, so that a filter or handler further down the stack can no     *)
(* longer rely on it.                                                      *)
(***************************************************************************)
EXTENDS NativeHook

VARIABLE astray  \* The depths of the calls that have had another VM come in above them.

varsWithHistory == <<vars, astray>>

InitWithHistory == Init /\ astray = {}

\* The native that is running wakes a coroutine, goes back to another VM, or makes one.
LeavesVM == \E v \in VMs : (CallBack(v) \/ CreateVM(v)) /\ v # Top.vm

NextWithHistory ==
  /\ Next
  /\ astray' = IF LeavesVM THEN 1 .. Len(stack) ELSE astray \cap (1 .. Len(stack'))

SpecWithHistory == InitWithHistory /\ [][NextWithHistory]_varsWithHistory

\* For as long as a filter or handler runs, however many scripts, natives, filters and
\* handlers nest above it and return, the default VM is its own, the one it reads the
\* parameters of the call from and evaluates its scripts on: HookNative and Hook set it,
\* and calls on the same VM leave it. Excepted is one above which a native has woken or
\* made another VM: neither HookNative nor Hook sets the default VM again on the way out.
HandlerVM ==
  TopIs({"filter", "handler"}) /\ Len(stack) \notin astray => defaultVM = Top.vm
=============================================================================
