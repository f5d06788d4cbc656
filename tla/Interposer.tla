------------------------------ MODULE Interposer ------------------------------
(***************************************************************************)
(* What the hooks of SQHook promise, without closures that are swapped and *)
(* without anything kept in the VM: a native call of the game passes a     *)
(* filter first, a debug event runs a handler if its VM is armed, and the  *)
(* function that runs is the one that was called, however calls nest.      *)
(***************************************************************************)
EXTENDS Naturals, Sequences

CONSTANTS
  VMs, Root,
  Natives, Filtered,   \* The functions of the game, and those with a filter.
  None,
  MaxDepth             \* Bounds the C stack.

VARIABLES
  alive,    \* The VMs created so far.
  armed,    \* The VMs whose events are handled.
  current,  \* The VM that filters and handlers evaluate scripts on.
  calls     \* Scripts and calls: [phase, side, vm, fun], the newest last.

vars == <<alive, armed, current, calls>>

Init ==
  /\ alive = {Root}
  /\ armed = {}
  /\ current = Root
  /\ calls = <<>>

Top == calls[Len(calls)]

In(phases) == calls # <<>> /\ Top.phase \in phases

Begin(phase, side, vm, fun) ==
  /\ Len(calls) < MaxDepth
  /\ calls' = Append(calls, [phase |-> phase, side |-> side, vm |-> vm, fun |-> fun])

GoOn(phase) == calls' = [calls EXCEPT ![Len(calls)].phase = phase]

End == calls' = SubSeq(calls, 1, Len(calls) - 1)

-----------------------------------------------------------------------------
(* Scripts and natives of the game.                                        *)

HostCall ==
  /\ calls = <<>>
  /\ Begin("script", "game", Root, None)
  /\ UNCHANGED <<alive, armed, current>>

CallBack(v) ==
  /\ In({"body"}) /\ v \in alive
  /\ v = Top.vm \/ \A i \in 1 .. Len(calls) : calls[i].vm # v
  /\ Begin("script", "game", v, None)
  /\ UNCHANGED <<alive, armed, current>>

\* A coroutine is armed like the VM that makes it.
CreateVM(v) ==
  /\ In({"body"}) /\ v \notin alive
  /\ alive' = alive \cup {v}
  /\ armed' = IF Top.vm \in armed THEN armed \cup {v} ELSE armed \ {v}
  /\ current' = v
  /\ UNCHANGED calls

GameCall(c) ==
  /\ In({"script", "body"}) /\ (Top.phase = "script" => Top.side = "game")
  /\ Begin("called", "game", Top.vm, c)
  /\ UNCHANGED <<alive, armed, current>>

\* A script ends, a call is refused, stopped by its filter, or ends.
Return ==
  /\ In({"script", "called", "filter", "body"})
  /\ End
  /\ UNCHANGED <<alive, armed, current>>

-----------------------------------------------------------------------------
(* The mod.                                                                *)

\* A native with a filter is filtered first; a VM is armed by its first native call.
Enter ==
  /\ In({"called"}) /\ Top.fun # "Hook"
  /\ GoOn(IF Top.fun \in Filtered THEN "filter" ELSE "body")
  /\ armed' = armed \cup {Top.vm}
  /\ current' = Top.vm
  /\ UNCHANGED alive

FilterPass ==
  /\ In({"filter"})
  /\ GoOn("body")
  /\ UNCHANGED <<alive, armed, current>>

\* An event of a script of the game; the VM may refuse it like any call.
GameEvent ==
  /\ In({"script"}) /\ Top.side = "game" /\ Top.vm \in armed
  /\ Begin("called", "game", Top.vm, "Hook")
  /\ UNCHANGED <<alive, armed, current>>

\* A handler runs with its VM disarmed ...
Handle(v) == armed' = armed \ {v} /\ current' = v

EnterHook ==
  /\ In({"called"}) /\ Top.fun = "Hook"
  /\ GoOn("handler")
  /\ Handle(Top.vm)
  /\ UNCHANGED alive

ModEvent ==
  /\ In({"script"}) /\ Top.side = "mod" /\ Top.vm \in armed
  /\ Begin("handler", "mod", Top.vm, "Hook")
  /\ Handle(Top.vm)
  /\ UNCHANGED alive

\* ... and the VM is armed again when it ends.
HookReturn ==
  /\ In({"handler"})
  /\ armed' = armed \cup {Top.vm}
  /\ End
  /\ UNCHANGED <<alive, current>>

\* Filters and handlers evaluate scripts, whose native calls have no filter.
ModScript ==
  /\ In({"filter", "handler"})
  /\ Begin("script", "mod", current, None)
  /\ UNCHANGED <<alive, armed, current>>

ModCall(c) ==
  /\ In({"script"}) /\ Top.side = "mod"
  /\ Begin("body", "mod", Top.vm, c)
  /\ UNCHANGED <<alive, armed, current>>

-----------------------------------------------------------------------------
Next ==
  \/ HostCall
  \/ \E v \in VMs : CallBack(v) \/ CreateVM(v)
  \/ \E c \in Natives : GameCall(c) \/ ModCall(c)
  \/ Return
  \/ Enter
  \/ FilterPass
  \/ GameEvent
  \/ EnterHook
  \/ ModEvent
  \/ HookReturn
  \/ ModScript

Spec == Init /\ [][Next]_vars
=============================================================================
