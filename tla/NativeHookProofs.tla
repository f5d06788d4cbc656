-------------------------- MODULE NativeHookProofs --------------------------
(* Safety of the native call hook, for any VMs and natives and any depth.  *)
EXTENDS NativeHookHistory, SequenceTheorems, TLAPS

(***************************************************************************)
(* The inductive invariant says of every frame what the C++ locals hold,   *)
(* and of the call that has just been swapped in, the only one whose       *)
(* closure is hooked, that M2FixData::native is still its own.             *)
(***************************************************************************)
FrameInv ==
  \A i \in 1 .. Len(stack) :
    /\ stack[i].vm \in alive
    /\ stack[i].phase = "script" <=> stack[i].clo = None
    /\ stack[i].phase = "handler" => stack[i].disarm \in DebugClosures
    /\ stack[i].phase = "swapped" => stack[i].side = "game"
    /\ stack[i].phase # "script" /\ stack[i].side = "game" => stack[i].saved = Original(stack[i].clo)

SwappedInv ==
  TopIs({"swapped"}) =>
    /\ fn[Top.clo] = "HookNative"
    /\ native[Top.vm] = Original(Top.clo)
    /\ Top.clo \in DebugClosures => debughook[Top.vm] # None

AliveInv ==
  /\ {Root, defaultVM} \subseteq alive
  /\ \A v \in VMs : hooked[v] => v \in alive

\* A handler on v above frame k.
Covered(v, k) ==
  \E j \in 1 .. Len(stack) : j > k /\ stack[j].phase = "handler" /\ stack[j].vm = v

ArmedInv ==
  \A k \in 1 .. Len(stack) :
    stack[k].phase \in {"filter", "body"} /\ stack[k].side = "game" =>
      debughook[stack[k].vm] # None \/ Covered(stack[k].vm, k)

\* HookNative calls the function of the closure that was called, never another one and
\* never itself, in every call on the stack, recursive calls and calls of the mod too.
RightFunction ==
  \A i \in 1 .. Len(stack) :
    stack[i].phase \in {"filter", "body", "handler"} => stack[i].run = Original(stack[i].clo)

IInv ==
  TypeOK /\ FrameInv /\ SwappedInv /\ AliveInv /\ Unswapped /\ RightFunction /\ ArmedInv /\ HookKept

-----------------------------------------------------------------------------
(* What a step does to the C stack.                                        *)

Grown(f) ==
  /\ stack' \in Seq(Frame)
  /\ Len(stack') = Len(stack) + 1
  /\ \A i \in 1 .. Len(stack) : stack'[i] = stack[i]
  /\ stack'[Len(stack) + 1] = f

Shrunk ==
  /\ stack' \in Seq(Frame)
  /\ Len(stack') = Len(stack) - 1
  /\ \A i \in 1 .. Len(stack) - 1 : stack'[i] = stack[i]

Retopped(f) ==
  /\ stack' \in Seq(Frame)
  /\ Len(stack') = Len(stack)
  /\ \A i \in 1 .. Len(stack) - 1 : stack'[i] = stack[i]
  /\ stack'[Len(stack)] = f

\* The newest frame is one of the stack.
LEMMA TopFrame ==
  ASSUME stack \in Seq(Frame), stack # <<>>
  PROVE  Len(stack) \in Nat /\ Len(stack) > 0 /\ Len(stack) \in 1 .. Len(stack) /\ Top \in Frame
<1>1. Len(stack) \in Nat /\ Len(stack) # 0
  BY EmptySeq
<1>. QED
  BY <1>1, ElementOfSeq DEF Top

\* A call puts its frame on the stack and leaves the others.
LEMMA PushEffect ==
  ASSUME stack \in Seq(Frame), NEW f \in Frame, Push(f)
  PROVE  Grown(f)
  BY AppendProperties, Zenon DEF Push, Grown

\* A return takes the newest frame away and leaves the others.
LEMMA PopEffect ==
  ASSUME stack \in Seq(Frame), stack # <<>>, Pop
  PROVE  Shrunk
<1>1. Len(stack) \in Nat /\ Len(stack) > 0
  BY TopFrame
<1>2. \A i \in 1 .. Len(stack) - 1 : stack[i] \in Frame
  BY <1>1, ElementOfSeq
<1>3. /\ stack' \in Seq(Frame)
      /\ Len(stack') = IF 1 <= Len(stack) - 1 THEN (Len(stack) - 1) - 1 + 1 ELSE 0
      /\ \A i \in 1 .. (Len(stack) - 1) - 1 + 1 : stack'[i] = stack[1 + i - 1]
  BY <1>1, <1>2, SubSeqProperties, SMT DEF Pop
<1>4. Len(stack') = Len(stack) - 1
  <2>1. Len(stack') = IF 1 <= Len(stack) - 1 THEN (Len(stack) - 1) - 1 + 1 ELSE 0
    BY <1>3, Zenon
  <2>2. \A n \in Nat : n > 0 => (IF 1 <= n - 1 THEN (n - 1) - 1 + 1 ELSE 0) = n - 1
    OBVIOUS
  <2>. QED
    BY <1>1, <2>1, <2>2, Zenon
<1>5. ASSUME NEW i \in 1 .. Len(stack) - 1
      PROVE  stack'[i] = stack[i]
  <2>1. i \in 1 .. (Len(stack) - 1) - 1 + 1 /\ 1 + i - 1 = i
    BY <1>1
  <2>2. stack'[i] = stack[1 + i - 1]
    BY <1>3, <2>1, Zenon
  <2>. QED
    BY <2>1, <2>2, Zenon
<1>. QED
  BY <1>3, <1>4, <1>5 DEF Shrunk

\* A call that goes on replaces its own frame and leaves the others.
LEMMA RetopEffect ==
  ASSUME stack \in Seq(Frame), stack # <<>>, NEW f \in Frame, Retop(f)
  PROVE  Retopped(f)
<1>1. Len(stack) \in 1 .. Len(stack) /\ Len(stack) \in Nat
  BY TopFrame
<1>2. /\ stack' \in Seq(Frame)
      /\ Len(stack') = Len(stack)
      /\ \A j \in 1 .. Len(stack) : stack'[j] = IF j = Len(stack) THEN f ELSE stack[j]
  BY <1>1, ExceptSeq DEF Retop
<1>. QED
  BY <1>1, <1>2 DEF Retopped

-----------------------------------------------------------------------------
(* The calls that push a frame.                                            *)

\* A script, or a native that the mod calls, starts.
LEMMA PlainPush ==
  ASSUME IInv, NEW f \in Frame, Push(f),
         UNCHANGED <<alive, fn, native, hooked, debughook, defaultVM>>,
         ~TopIs({"swapped"}),
         f.vm \in alive,
         f.phase \in {"script", "body"},
         f.phase = "script" => f.clo = None,
         f.phase = "body" => f.side = "mod" /\ f.clo \in Natives /\ f.run = Original(f.clo)
  PROVE  IInv'
<1>1. Grown(f)
  BY PushEffect DEF IInv, TypeOK
<1>2. Len(stack) \in Nat
  BY DEF IInv, TypeOK
<1>3. \A i \in 1 .. Len(stack) : stack[i].phase # "swapped"
  BY <1>2 DEF IInv, TypeOK, TopIs, Top
<1>4. TypeOK'
  BY <1>1, <1>2, <1>3 DEF IInv, TypeOK, Grown
<1>5. FrameInv'
  BY <1>1, <1>2, HookAssumption DEF IInv, FrameInv, Grown, Closures, Original
<1>6. Top' = f /\ stack' # <<>>
  BY <1>1, <1>2 DEF Grown, Top
<1>7. SwappedInv' /\ AliveInv'
  BY <1>6 DEF IInv, SwappedInv, AliveInv, TopIs
<1>8. Unswapped'
  BY DEF IInv, Unswapped
<1>9. RightFunction'
  BY <1>1, <1>2 DEF IInv, RightFunction, Grown
<1>10. ArmedInv'
  BY <1>1, <1>2 DEF IInv, ArmedInv, Covered, Grown
<1>11. HookKept'
  BY <1>1, <1>2 DEF IInv, HookKept, Grown
<1>. QED
  BY <1>4, <1>5, <1>7, <1>8, <1>9, <1>10, <1>11 DEF IInv

\* A script starts.
LEMMA ScriptPush ==
  ASSUME IInv, NEW v \in alive, NEW s \in {"game", "mod"}, Push(Script(v, s)),
         ~TopIs({"swapped"}),
         UNCHANGED <<alive, fn, native, hooked, debughook, defaultVM>>
  PROVE  IInv'
<1>. DEFINE f == Script(v, s)
<1>1. f \in Frame /\ f.vm \in alive /\ f.phase = "script" /\ f.clo = None
  BY DEF Script, Frame, IInv, TypeOK
<1>2. Push(f)
  OBVIOUS
<1>. HIDE DEF f
<1>. QED
  BY <1>1, <1>2, PlainPush

\* What a closure is made with is a function of the game or Hook.
LEMMA OriginalType ==
  \A c \in Closures : Original(c) \in OwnFunctions /\ Original(c) # "HookNative" /\ c # None
  BY HookAssumption DEF Closures, Original, OwnFunctions

\* With no call swapped in, every closure has its own function.
LEMMA NoneSwapped ==
  ASSUME IInv, ~TopIs({"swapped"})
  PROVE  /\ \A c \in Closures : fn[c] = Original(c)
         /\ \A i \in 1 .. Len(stack) : stack[i].phase # "swapped"
<1>1. \A c \in Closures : fn[c] = Original(c)
  BY DEF IInv, Unswapped
<1>2. Len(stack) \in Nat
  BY DEF IInv, TypeOK
<1>3. \A i \in 1 .. Len(stack) : stack[i].phase # "swapped"
  BY <1>2 DEF IInv, TypeOK, TopIs, Top
<1>. QED
  BY <1>1, <1>3

\* CallNative swaps the function of the closure that is called.
LEMMA SwapStep ==
  ASSUME IInv, ~TopIs({"swapped"}), NEW v \in alive, NEW c \in Closures, Swap(v, c),
         c \in DebugClosures => debughook[v] # None,
         UNCHANGED <<alive, hooked, debughook, defaultVM>>
  PROVE  IInv'
<1>1. /\ fn[c] = Original(c)
      /\ Original(c) \in OwnFunctions
      /\ c # None
      /\ \A i \in 1 .. Len(stack) : stack[i].phase # "swapped"
  BY NoneSwapped, OriginalType
<1>. DEFINE f == [phase |-> "swapped", side |-> "game", vm |-> v, clo |-> c, saved |-> fn[c],
                  run |-> None, disarm |-> None]
<1>2. f \in Frame
  BY <1>1 DEF IInv, TypeOK, Frame
<1>3. Push(f)
  BY DEF Swap
<1>4. Grown(f)
  BY <1>2, <1>3, PushEffect DEF IInv, TypeOK
<1>5. Len(stack) \in Nat
  BY DEF IInv, TypeOK
<1>6. v \in VMs
  BY DEF IInv, TypeOK
<1>7. TypeOK'
  <2>1. fn' \in [Closures -> Functions] /\ native' \in [VMs -> OwnFunctions \cup {None}]
    BY <1>1 DEF IInv, TypeOK, Swap, Functions
  <2>2. \A i \in 1 .. Len(stack)' : (stack[i].phase = "swapped")' => i = Len(stack)'
    BY <1>1, <1>4, <1>5 DEF Grown
  <2>. QED
    BY <1>4, <2>1, <2>2 DEF IInv, TypeOK, Grown
<1>8. FrameInv'
  BY <1>1, <1>4, <1>5 DEF IInv, FrameInv, Grown
<1>9. Top' = f
  BY <1>4, <1>5 DEF Grown, Top
<1>10. SwappedInv'
  BY <1>1, <1>6, <1>9 DEF IInv, TypeOK, SwappedInv, Swap
<1>11. AliveInv'
  BY DEF IInv, AliveInv
<1>12. Unswapped'
  <2>1. TopIs({"swapped"})'
    BY <1>4, <1>5, <1>9, EmptySeq DEF TopIs, Grown
  <2>. QED
    BY <1>9, <2>1, NoneSwapped DEF IInv, TypeOK, Unswapped, Swap
<1>13. RightFunction'
  BY <1>4, <1>5 DEF IInv, RightFunction, Grown
<1>14. ArmedInv'
  BY <1>4, <1>5 DEF IInv, ArmedInv, Covered, Grown
<1>15. HookKept'
  BY <1>4, <1>5 DEF IInv, HookKept, Grown
<1>. QED
  BY <1>7, <1>8, <1>10, <1>11, <1>12, <1>13, <1>14, <1>15 DEF IInv

\* A handler that starts on v covers for the debug hook it takes away.
LEMMA HandlerCovers ==
  ASSUME TypeOK, ArmedInv, HookKept, NEW v \in VMs, NEW n \in Nat \ {0},
         Len(stack') = n, Len(stack) \in {n - 1, n},
         stack' \in Seq(Frame),
         \A i \in 1 .. n - 1 : stack'[i] = stack[i],
         stack'[n].phase = "handler", stack'[n].vm = v,
         Len(stack) = n => stack[n].phase # "handler",
         StartHook(v)
  PROVE  ArmedInv' /\ HookKept'
<1>1. ASSUME NEW i \in 1 .. Len(stack) PROVE stack[i].vm \in VMs
  <2>1. stack[i] \in Frame
    BY ElementOfSeq DEF TypeOK
  <2>. QED
    BY <2>1 DEF Frame
<1>2. \A w \in VMs : /\ debughook'[w] = IF w = v THEN None ELSE debughook[w]
                    /\ hooked'[w] = (w = v \/ hooked[w])
  BY DEF TypeOK, StartHook
<1>3. ASSUME NEW k \in 1 .. n, stack'[k].phase \in {"filter", "body"}, stack'[k].side = "game"
      PROVE  \/ debughook'[stack'[k].vm] # None
             \/ \E j \in 1 .. n : /\ j > k
                                 /\ stack'[j].phase = "handler"
                                 /\ stack'[j].vm = stack'[k].vm
  <2>1. k \in 1 .. n - 1 /\ k \in 1 .. Len(stack) /\ stack'[k] = stack[k] /\ n > k
    BY <1>3
  <2>2. CASE stack[k].vm = v
    BY <2>1, <2>2
  <2>3. CASE stack[k].vm # v /\ debughook[stack[k].vm] # None
    BY <1>1, <1>2, <2>1, <2>3
  <2>4. CASE stack[k].vm # v /\ Covered(stack[k].vm, k)
    <3>1. PICK j \in 1 .. Len(stack) : j > k /\ stack[j].phase = "handler" /\ stack[j].vm = stack[k].vm
      BY <2>4 DEF Covered
    <3>2. j \in 1 .. n - 1 /\ stack'[j] = stack[j]
      BY <3>1
    <3>. QED
      BY <2>1, <3>1, <3>2
  <2>. QED
    BY <1>3, <2>1, <2>2, <2>3, <2>4 DEF ArmedInv
<1>4. ASSUME NEW w \in VMs, hooked'[w], debughook'[w] = None
      PROVE  \E i \in 1 .. n : stack'[i].phase = "handler" /\ stack'[i].vm = w
  <2>1. CASE w = v
    BY <2>1
  <2>2. CASE w # v
    <3>1. PICK i \in 1 .. Len(stack) : stack[i].phase = "handler" /\ stack[i].vm = w
      BY <1>2, <1>4, <2>2 DEF HookKept
    <3>2. i \in 1 .. n - 1
      BY <3>1
    <3>. QED
      BY <3>1, <3>2
  <2>. QED
    BY <2>1, <2>2
<1>. QED
  BY <1>3, <1>4 DEF ArmedInv, HookKept, Covered

\* A debug event of the mod's copy of the VM starts a handler with no swap.
LEMMA ModEventStep ==
  ASSUME IInv, ModEvent
  PROVE  IInv'
<1>. DEFINE v == Top.vm
            d == debughook[v]
            f == [phase |-> "handler", side |-> "mod", vm |-> v, clo |-> d,
                  saved |-> None, run |-> fn[d], disarm |-> d]
<1>1. ~TopIs({"swapped"}) /\ stack # <<>>
  BY DEF ModEvent, TopIs
<1>2. Len(stack) \in Nat /\ Len(stack) > 0 /\ Top \in Frame /\ v \in VMs
  BY <1>1, TopFrame DEF IInv, TypeOK, Frame
<1>3. v \in alive
  BY <1>2 DEF IInv, FrameInv, Top
<1>4. d \in DebugClosures
  BY <1>2 DEF IInv, TypeOK, ModEvent
<1>5. /\ fn[d] = Original(d)
      /\ Original(d) = "Hook"
      /\ d # None
      /\ \A i \in 1 .. Len(stack) : stack[i].phase # "swapped"
  BY <1>1, <1>4, NoneSwapped, OriginalType DEF Closures, Original
<1>6. f \in Frame
  BY <1>2, <1>4, <1>5 DEF Frame, Closures, Functions, OwnFunctions
<1>7. Grown(f)
  BY <1>6, PushEffect DEF IInv, TypeOK, ModEvent
<1>8. /\ debughook' = [debughook EXCEPT ![v] = None]
      /\ hooked' = [hooked EXCEPT ![v] = TRUE]
      /\ defaultVM' = v
      /\ UNCHANGED <<alive, fn, native>>
  BY DEF ModEvent, StartHook
<1>9. TypeOK'
  <2>1. \A i \in 1 .. Len(stack)' : (stack[i].phase = "swapped")' => i = Len(stack)'
    BY <1>2, <1>5, <1>7 DEF Grown
  <2>. QED
    BY <1>2, <1>7, <1>8, <2>1 DEF IInv, TypeOK, Grown
<1>10. FrameInv'
  BY <1>2, <1>3, <1>4, <1>5, <1>7, <1>8 DEF IInv, FrameInv, Grown
<1>11. Top' = f
  BY <1>2, <1>7 DEF Grown, Top
<1>12. SwappedInv' /\ AliveInv'
  BY <1>2, <1>3, <1>8, <1>11 DEF IInv, TypeOK, SwappedInv, AliveInv, TopIs
<1>13. Unswapped'
  BY <1>1, <1>8 DEF IInv, Unswapped
<1>14. RightFunction'
  BY <1>2, <1>5, <1>7 DEF IInv, RightFunction, Grown
<1>15. ArmedInv' /\ HookKept'
  <2>. DEFINE n == Len(stack) + 1
  <2>1. /\ n \in Nat \ {0} /\ Len(stack') = n /\ Len(stack) = n - 1
        /\ stack' \in Seq(Frame)
        /\ \A i \in 1 .. n - 1 : stack'[i] = stack[i]
        /\ stack'[n].phase = "handler" /\ stack'[n].vm = v
    BY <1>2, <1>7 DEF Grown
  <2>2. StartHook(v)
    BY DEF ModEvent
  <2>3. Len(stack) = n => FALSE
    BY <1>2
  <2>. HIDE DEF n
  <2>. QED
    BY <1>2, <2>1, <2>2, <2>3, HandlerCovers DEF IInv
<1>. QED
  BY <1>9, <1>10, <1>12, <1>13, <1>14, <1>15 DEF IInv

-----------------------------------------------------------------------------
(* The returns, which pop a frame.                                         *)

\* The frames that are left after a return are as they were, and none is swapped in.
LEMMA PopFrames ==
  ASSUME IInv, stack # <<>>, Pop, UNCHANGED alive
  PROVE  /\ Shrunk
         /\ Len(stack) \in Nat \ {0}
         /\ Top \in Frame
         /\ Top = stack[Len(stack)]
         /\ FrameInv'
         /\ RightFunction'
         /\ \A i \in 1 .. Len(stack') : stack'[i].phase # "swapped"
         /\ ~TopIs({"swapped"})'
<1>1. Shrunk
  BY PopEffect DEF IInv, TypeOK
<1>2. Len(stack) \in Nat \ {0} /\ Top \in Frame
  BY TopFrame DEF IInv, TypeOK
<1>3. \A i \in 1 .. Len(stack') : i \in 1 .. Len(stack) - 1 /\ i \in 1 .. Len(stack) /\ stack'[i] = stack[i]
  BY <1>1, <1>2 DEF Shrunk
<1>4. \A i \in 1 .. Len(stack') : stack'[i].phase # "swapped"
  BY <1>2, <1>3 DEF IInv, TypeOK
<1>5. FrameInv'
  BY <1>3 DEF IInv, FrameInv
<1>6. RightFunction'
  BY <1>3 DEF IInv, RightFunction
<1>7. ~TopIs({"swapped"})'
  <2>1. CASE stack' = <<>>
    BY <2>1 DEF TopIs
  <2>2. CASE stack' # <<>>
    <3>1. Len(stack') \in Nat \ {0}
      BY <1>1, <2>2, EmptySeq DEF Shrunk
    <3>. QED
      BY <1>4, <3>1 DEF TopIs, Top
  <2>. QED
    BY <2>1, <2>2
<1>. QED
  BY <1>1, <1>2, <1>4, <1>5, <1>6, <1>7 DEF Top

\* The call that returns puts its closure's own function back.
LEMMA PutBack ==
  ASSUME IInv, stack # <<>>, Top.phase # "script",
         fn' = IF Top.side = "game" THEN [fn EXCEPT ![Top.clo] = Top.saved] ELSE fn
  PROVE  fn' \in [Closures -> Functions] /\ \A c \in Closures : fn'[c] = Original(c)
<1>1. Len(stack) \in 1 .. Len(stack) /\ Top \in Frame
  BY TopFrame DEF IInv, TypeOK
<1>2. /\ Top.clo \in Closures
      /\ Top.side = "game" => Top.saved = Original(Top.clo)
      /\ Top.phase = "swapped" => Top.side = "game"
  BY <1>1 DEF IInv, FrameInv, Frame, Top
<1>3. \A c \in Closures : fn[c] # Original(c) => Top.side = "game" /\ c = Top.clo
  BY <1>2 DEF IInv, Unswapped, TopIs
<1>. QED
  BY <1>2, <1>3, OriginalType DEF IInv, TypeOK, Functions

\* A return that is not a handler's.
LEMMA ReturnStep ==
  ASSUME IInv, stack # <<>>, Top.phase # "handler", Pop,
         fn' \in [Closures -> Functions], \A c \in Closures : fn'[c] = Original(c),
         UNCHANGED <<alive, native, hooked, debughook, defaultVM>>
  PROVE  IInv'
<1>1. /\ Shrunk
      /\ Len(stack) \in Nat \ {0}
      /\ stack[Len(stack)].phase # "handler"
      /\ FrameInv'
      /\ RightFunction'
      /\ \A i \in 1 .. Len(stack') : stack'[i].phase # "swapped"
      /\ ~TopIs({"swapped"})'
  BY PopFrames
<1>2. TypeOK'
  BY <1>1 DEF IInv, TypeOK, Shrunk
<1>3. SwappedInv' /\ AliveInv'
  BY <1>1 DEF IInv, SwappedInv, AliveInv
<1>4. Unswapped'
  BY DEF Unswapped
<1>5. ArmedInv'
  <2>. SUFFICES ASSUME NEW k \in 1 .. Len(stack'), stack'[k].phase \in {"filter", "body"},
                       stack'[k].side = "game", debughook[stack[k].vm] = None
                PROVE  \E j \in 1 .. Len(stack') : /\ j > k
                                                   /\ stack'[j].phase = "handler"
                                                   /\ stack'[j].vm = stack'[k].vm
    BY <1>1 DEF ArmedInv, Covered, Shrunk
  <2>1. k \in 1 .. Len(stack) /\ k \in 1 .. Len(stack) - 1 /\ stack'[k] = stack[k]
    BY <1>1 DEF Shrunk
  <2>2. PICK j \in 1 .. Len(stack) : j > k /\ stack[j].phase = "handler" /\ stack[j].vm = stack[k].vm
    BY <2>1 DEF IInv, ArmedInv, Covered
  <2>3. j \in 1 .. Len(stack) - 1
    BY <1>1, <2>2
  <2>. QED
    BY <1>1, <2>1, <2>2, <2>3 DEF Shrunk
<1>6. HookKept'
  <2>. SUFFICES ASSUME NEW v \in VMs, hooked[v], debughook[v] = None
                PROVE  \E i \in 1 .. Len(stack') : stack'[i].phase = "handler" /\ stack'[i].vm = v
    BY DEF HookKept
  <2>1. PICK i \in 1 .. Len(stack) : stack[i].phase = "handler" /\ stack[i].vm = v
    BY DEF IInv, HookKept
  <2>2. i \in 1 .. Len(stack) - 1
    BY <1>1, <2>1
  <2>. QED
    BY <1>1, <2>1, <2>2 DEF Shrunk
<1>. QED
  BY <1>1, <1>2, <1>3, <1>4, <1>5, <1>6 DEF IInv

\* A handler returns and gives the debug hook back.
LEMMA HookReturnStep ==
  ASSUME IInv, HookReturn
  PROVE  IInv'
<1>1. stack # <<>> /\ Top.phase = "handler" /\ Pop /\ UNCHANGED <<alive, native, hooked, defaultVM>>
  BY DEF HookReturn, TopIs, Unswap
<1>2. fn' \in [Closures -> Functions] /\ \A c \in Closures : fn'[c] = Original(c)
  BY <1>1, PutBack DEF HookReturn, Unswap
<1>3. /\ Shrunk
      /\ Len(stack) \in Nat \ {0}
      /\ Top \in Frame
      /\ Top = stack[Len(stack)]
      /\ FrameInv'
      /\ RightFunction'
      /\ \A i \in 1 .. Len(stack') : stack'[i].phase # "swapped"
      /\ ~TopIs({"swapped"})'
  BY <1>1, PopFrames
<1>4. Top.vm \in VMs /\ Top.disarm \in DebugClosures /\ Top.disarm # None
  BY <1>1, <1>3, OriginalType DEF IInv, FrameInv, Frame, Closures
<1>5. /\ debughook' \in [VMs -> DebugClosures \cup {None}]
      /\ \A v \in VMs : debughook'[v] = IF v = Top.vm THEN Top.disarm ELSE debughook[v]
  BY <1>4 DEF HookReturn, IInv, TypeOK
<1>6. TypeOK'
  BY <1>1, <1>2, <1>3, <1>5 DEF IInv, TypeOK, Shrunk
<1>7. SwappedInv' /\ AliveInv'
  BY <1>1, <1>3 DEF IInv, SwappedInv, AliveInv
<1>8. Unswapped'
  BY <1>2 DEF Unswapped
<1>9. ArmedInv'
  <2>. SUFFICES ASSUME NEW k \in 1 .. Len(stack'), stack'[k].phase \in {"filter", "body"},
                       stack'[k].side = "game", debughook'[stack'[k].vm] = None
                PROVE  \E j \in 1 .. Len(stack') : /\ j > k
                                                   /\ stack'[j].phase = "handler"
                                                   /\ stack'[j].vm = stack'[k].vm
    BY DEF ArmedInv, Covered
  <2>1. k \in 1 .. Len(stack) /\ k \in 1 .. Len(stack) - 1 /\ stack'[k] = stack[k]
    BY <1>3 DEF Shrunk
  <2>2. stack[k].vm \in VMs
    <3>1. stack[k] \in Frame
      BY <2>1, ElementOfSeq DEF IInv, TypeOK
    <3>. QED
      BY <3>1 DEF Frame
  <2>3. stack[k].vm # Top.vm /\ debughook[stack[k].vm] = None
    BY <1>4, <1>5, <2>1, <2>2
  <2>4. PICK j \in 1 .. Len(stack) : j > k /\ stack[j].phase = "handler" /\ stack[j].vm = stack[k].vm
    BY <2>1, <2>3 DEF IInv, ArmedInv, Covered
  <2>5. j \in 1 .. Len(stack) - 1
    BY <1>3, <2>3, <2>4
  <2>. QED
    BY <1>3, <2>1, <2>4, <2>5 DEF Shrunk
<1>10. HookKept'
  <2>. SUFFICES ASSUME NEW v \in VMs, hooked[v], debughook'[v] = None
                PROVE  \E i \in 1 .. Len(stack') : stack'[i].phase = "handler" /\ stack'[i].vm = v
    BY <1>1 DEF HookKept
  <2>1. v # Top.vm /\ debughook[v] = None
    BY <1>4, <1>5
  <2>2. PICK i \in 1 .. Len(stack) : stack[i].phase = "handler" /\ stack[i].vm = v
    BY <2>1 DEF IInv, HookKept
  <2>3. i \in 1 .. Len(stack) - 1
    BY <1>3, <2>1, <2>2
  <2>. QED
    BY <1>3, <2>2, <2>3 DEF Shrunk
<1>. QED
  BY <1>3, <1>6, <1>7, <1>8, <1>9, <1>10 DEF IInv

-----------------------------------------------------------------------------
(* The steps inside a call.                                                *)

\* The closure that has just been swapped in, and what HookNative reads.
LEMMA SwappedTop ==
  ASSUME IInv, TopIs({"swapped"})
  PROVE  /\ stack # <<>>
         /\ Len(stack) \in Nat \ {0}
         /\ Top = stack[Len(stack)]
         /\ Top \in Frame
         /\ Top.vm \in VMs
         /\ Top.vm \in alive
         /\ Top.clo \in Closures
         /\ Top.side = "game"
         /\ Top.saved = Original(Top.clo)
         /\ native[Top.vm] = Original(Top.clo)
         /\ \A c \in Closures : fn[c] # Original(c) => c = Top.clo
<1>1. /\ stack # <<>> /\ Top.phase = "swapped"
      /\ Len(stack) \in Nat \ {0} /\ Len(stack) \in 1 .. Len(stack)
      /\ Top \in Frame
  BY TopFrame DEF TopIs, IInv, TypeOK
<1>. QED
  BY <1>1 DEF Top, Frame, IInv, FrameInv, SwappedInv, Unswapped

\* SetHook leaves the VM with a debug hook and takes nobody's away.
LEMMA SetHookArms ==
  ASSUME TypeOK, NEW v \in VMs, SetHook(v)
  PROVE  /\ debughook' \in [VMs -> DebugClosures \cup {None}]
         /\ debughook'[v] # None
         /\ \A w \in VMs : debughook'[w] = None => debughook[w] = None
<1>1. CASE debughook[v] = None
  <2>1. PICK d \in Unused : debughook' = [debughook EXCEPT ![v] = d]
    BY <1>1 DEF SetHook
  <2>2. d \in DebugClosures /\ d # None
    BY <2>1, OriginalType DEF Unused, Closures
  <2>. QED
    BY <2>1, <2>2 DEF TypeOK
<1>2. CASE debughook[v] # None
  BY <1>2 DEF SetHook, TypeOK
<1>. QED
  BY <1>1, <1>2

\* HookNative gives the closure of a native its function back and starts it.
LEMMA EnterNativeStep ==
  ASSUME IInv, EnterNative
  PROVE  IInv'
<1>. DEFINE n == Len(stack)
            p == IF Top.clo \in Filtered THEN "filter" ELSE "body"
            f == [Top EXCEPT !.run = native[Top.vm], !.phase = p]
<1>1. /\ stack # <<>>
      /\ n \in Nat \ {0}
      /\ Top = stack[n]
      /\ Top \in Frame
      /\ Top.vm \in VMs
      /\ Top.vm \in alive
      /\ Top.clo \in Closures
      /\ Top.saved = Original(Top.clo)
      /\ native[Top.vm] = Original(Top.clo)
      /\ \A c \in Closures : fn[c] # Original(c) => c = Top.clo
  BY SwappedTop DEF EnterNative
<1>2. /\ fn' = [fn EXCEPT ![Top.clo] = native[Top.vm]]
      /\ UNCHANGED <<alive, native, hooked>>
      /\ defaultVM' = Top.vm
      /\ Retop(f)
      /\ Top.phase = "swapped"
  BY DEF EnterNative, TopIs
<1>3. /\ debughook' \in [VMs -> DebugClosures \cup {None}]
      /\ debughook'[Top.vm] # None
      /\ \A w \in VMs : debughook'[w] = None => debughook[w] = None
  BY <1>1, SetHookArms DEF IInv, EnterNative
<1>4. fn' \in [Closures -> Functions] /\ \A c \in Closures : fn'[c] = Original(c)
  BY <1>1, <1>2, OriginalType DEF IInv, TypeOK, Functions
<1>5. /\ f \in Frame
      /\ f.vm = Top.vm /\ f.clo = Top.clo /\ f.saved = Top.saved /\ f.run = Original(Top.clo)
      /\ f.phase \in {"filter", "body"}
  BY <1>1, OriginalType DEF Frame, Functions
<1>6. Retopped(f)
  BY <1>1, <1>2, <1>5, RetopEffect DEF IInv, TypeOK
<1>. HIDE DEF f
<1>7. \A i \in 1 .. n : i # n => i \in 1 .. n - 1 /\ stack'[i] = stack[i] /\ stack[i].phase # "swapped"
  BY <1>1, <1>6 DEF Retopped, IInv, TypeOK
<1>8. Len(stack') = n /\ stack' \in Seq(Frame) /\ stack'[n] = f
  BY <1>6 DEF Retopped
<1>9. TypeOK'
  <2>1. \A i \in 1 .. Len(stack)' : (stack[i].phase = "swapped")' => i = Len(stack)'
    BY <1>5, <1>7, <1>8
  <2>. QED
    BY <1>1, <1>2, <1>3, <1>4, <1>8, <2>1 DEF IInv, TypeOK
<1>10. FrameInv'
  BY <1>1, <1>2, <1>5, <1>7, <1>8, OriginalType DEF IInv, FrameInv
<1>11. SwappedInv' /\ AliveInv'
  BY <1>1, <1>2, <1>5, <1>8 DEF IInv, SwappedInv, AliveInv, TopIs, Top
<1>12. Unswapped'
  BY <1>4 DEF Unswapped
<1>13. RightFunction'
  BY <1>5, <1>7, <1>8 DEF IInv, RightFunction
<1>14. ArmedInv'
  <2>. SUFFICES ASSUME NEW k \in 1 .. n, stack'[k].phase \in {"filter", "body"},
                       stack'[k].side = "game", debughook'[stack'[k].vm] = None
                PROVE  \E j \in 1 .. n : /\ j > k
                                         /\ stack'[j].phase = "handler"
                                         /\ stack'[j].vm = stack'[k].vm
    BY <1>8 DEF ArmedInv, Covered
  <2>1. k # n /\ stack'[k] = stack[k]
    BY <1>3, <1>5, <1>7, <1>8
  <2>2. stack[k].vm \in VMs
    <3>1. stack[k] \in Frame
      BY ElementOfSeq DEF IInv, TypeOK
    <3>. QED
      BY <3>1 DEF Frame
  <2>3. debughook[stack[k].vm] = None
    BY <1>3, <2>1, <2>2
  <2>4. PICK j \in 1 .. n : j > k /\ stack[j].phase = "handler" /\ stack[j].vm = stack[k].vm
    BY <2>1, <2>3 DEF IInv, ArmedInv, Covered
  <2>. QED
    BY <1>1, <1>2, <1>7, <2>1, <2>4
<1>15. HookKept'
  <2>. SUFFICES ASSUME NEW v \in VMs, hooked[v], debughook'[v] = None
                PROVE  \E i \in 1 .. n : stack'[i].phase = "handler" /\ stack'[i].vm = v
    BY <1>2, <1>8 DEF HookKept
  <2>1. PICK i \in 1 .. n : stack[i].phase = "handler" /\ stack[i].vm = v
    BY <1>3 DEF IInv, HookKept
  <2>. QED
    BY <1>1, <1>2, <1>7, <2>1
<1>. QED
  BY <1>9, <1>10, <1>11, <1>12, <1>13, <1>14, <1>15 DEF IInv

\* The filter lets the native run.
LEMMA FilterPassStep ==
  ASSUME IInv, FilterPass
  PROVE  IInv'
<1>. DEFINE n == Len(stack)
            f == [Top EXCEPT !.phase = "body"]
<1>1. /\ stack # <<>> /\ Top.phase = "filter" /\ Retop(f)
      /\ UNCHANGED <<alive, fn, native, hooked, debughook, defaultVM>>
  BY DEF FilterPass, TopIs
<1>2. n \in Nat \ {0} /\ Top \in Frame /\ Top = stack[n]
  BY <1>1, TopFrame DEF IInv, TypeOK, Top
<1>3. /\ f \in Frame
      /\ f.vm = Top.vm /\ f.clo = Top.clo /\ f.saved = Top.saved /\ f.run = Top.run
      /\ f.side = Top.side /\ f.phase = "body"
  BY <1>2 DEF Frame
<1>4. Retopped(f)
  BY <1>1, <1>3, RetopEffect DEF IInv, TypeOK
<1>. HIDE DEF f
<1>5. \A i \in 1 .. n : i # n => i \in 1 .. n - 1 /\ stack'[i] = stack[i] /\ stack[i].phase # "swapped"
  BY <1>2, <1>4 DEF Retopped, IInv, TypeOK
<1>6. Len(stack') = n /\ stack' \in Seq(Frame) /\ stack'[n] = f
  BY <1>4 DEF Retopped
<1>7. TypeOK'
  <2>1. \A i \in 1 .. Len(stack)' : (stack[i].phase = "swapped")' => i = Len(stack)'
    BY <1>3, <1>5, <1>6
  <2>. QED
    BY <1>1, <1>6, <2>1 DEF IInv, TypeOK
<1>8. FrameInv'
  BY <1>1, <1>2, <1>3, <1>5, <1>6, OriginalType DEF IInv, FrameInv
<1>9. SwappedInv' /\ AliveInv'
  BY <1>1, <1>3, <1>6 DEF IInv, SwappedInv, AliveInv, TopIs, Top
<1>10. Unswapped'
  BY <1>1 DEF IInv, Unswapped, TopIs
<1>11. RightFunction'
  BY <1>1, <1>2, <1>3, <1>5, <1>6 DEF IInv, RightFunction
<1>12. ArmedInv' /\ HookKept'
  <2>1. \A k \in 1 .. n :
          /\ stack'[k].vm = stack[k].vm /\ stack'[k].side = stack[k].side
          /\ stack'[k].phase = "handler" <=> stack[k].phase = "handler"
          /\ stack'[k].phase \in {"filter", "body"} => stack[k].phase \in {"filter", "body"}
    BY <1>1, <1>2, <1>3, <1>5, <1>6
  <2>2. ArmedInv'
    BY <1>1, <1>6, <2>1 DEF IInv, ArmedInv, Covered
  <2>3. HookKept'
    BY <1>1, <1>6, <2>1 DEF IInv, HookKept
  <2>. QED
    BY <2>2, <2>3
<1>. QED
  BY <1>7, <1>8, <1>9, <1>10, <1>11, <1>12 DEF IInv

\* HookNative gives the closure of a debug hook its function back and starts a handler.
LEMMA EnterHookStep ==
  ASSUME IInv, EnterHook
  PROVE  IInv'
<1>. DEFINE n == Len(stack)
            f == [Top EXCEPT !.run = native[Top.vm], !.phase = "handler",
                             !.disarm = debughook[Top.vm]]
<1>1. /\ stack # <<>>
      /\ n \in Nat \ {0}
      /\ Top = stack[n]
      /\ Top \in Frame
      /\ Top.vm \in VMs
      /\ Top.vm \in alive
      /\ Top.clo \in Closures
      /\ Top.saved = Original(Top.clo)
      /\ native[Top.vm] = Original(Top.clo)
      /\ \A c \in Closures : fn[c] # Original(c) => c = Top.clo
  BY SwappedTop DEF EnterHook
<1>2. /\ fn' = [fn EXCEPT ![Top.clo] = native[Top.vm]]
      /\ native[Top.vm] = "Hook"
      /\ StartHook(Top.vm)
      /\ UNCHANGED <<alive, native>>
      /\ Retop(f)
      /\ Top.phase = "swapped"
  BY DEF EnterHook, TopIs
<1>3. debughook[Top.vm] \in DebugClosures
  <2>1. Top.clo \in DebugClosures
    BY <1>1, <1>2, HookAssumption DEF Original, Closures
  <2>. QED
    BY <1>1, <1>2, <2>1 DEF IInv, TypeOK, SwappedInv, TopIs
<1>4. fn' \in [Closures -> Functions] /\ \A c \in Closures : fn'[c] = Original(c)
  BY <1>1, <1>2, OriginalType DEF IInv, TypeOK, Functions
<1>5. /\ f \in Frame
      /\ f.vm = Top.vm /\ f.clo = Top.clo /\ f.saved = Top.saved /\ f.run = Original(Top.clo)
      /\ f.phase = "handler" /\ f.disarm \in DebugClosures
  BY <1>1, <1>3, OriginalType DEF Frame, Functions
<1>6. Retopped(f)
  BY <1>1, <1>2, <1>5, RetopEffect DEF IInv, TypeOK
<1>. HIDE DEF f
<1>7. \A i \in 1 .. n : i # n => i \in 1 .. n - 1 /\ stack'[i] = stack[i] /\ stack[i].phase # "swapped"
  BY <1>1, <1>6 DEF Retopped, IInv, TypeOK
<1>8. Len(stack') = n /\ stack' \in Seq(Frame) /\ stack'[n] = f
  BY <1>6 DEF Retopped
<1>9. TypeOK'
  <2>1. \A i \in 1 .. Len(stack)' : (stack[i].phase = "swapped")' => i = Len(stack)'
    BY <1>5, <1>7, <1>8
  <2>. QED
    BY <1>1, <1>2, <1>4, <1>8, <2>1 DEF IInv, TypeOK, StartHook
<1>10. FrameInv'
  BY <1>1, <1>2, <1>5, <1>7, <1>8, OriginalType DEF IInv, FrameInv
<1>11. SwappedInv' /\ AliveInv'
  BY <1>1, <1>2, <1>5, <1>8 DEF IInv, TypeOK, SwappedInv, AliveInv, TopIs, Top, StartHook
<1>12. Unswapped'
  BY <1>4 DEF Unswapped
<1>13. RightFunction'
  BY <1>5, <1>7, <1>8 DEF IInv, RightFunction
<1>14. ArmedInv' /\ HookKept'
  <2>1. /\ Len(stack') = n /\ Len(stack) \in {n - 1, n} /\ stack' \in Seq(Frame)
        /\ \A i \in 1 .. n - 1 : stack'[i] = stack[i]
        /\ stack'[n].phase = "handler" /\ stack'[n].vm = Top.vm
        /\ Len(stack) = n => stack[n].phase # "handler"
    BY <1>1, <1>2, <1>5, <1>6 DEF Retopped
  <2>. HIDE DEF n
  <2>. QED
    BY <1>1, <1>2, <2>1, HandlerCovers DEF IInv
<1>. QED
  BY <1>9, <1>10, <1>11, <1>12, <1>13, <1>14 DEF IInv

\* A new VM takes its debug hook from the VM that makes it.
LEMMA CreateVMStep ==
  ASSUME IInv, NEW v \in VMs, CreateVM(v)
  PROVE  IInv'
<1>1. /\ stack # <<>> /\ Top.phase = "body" /\ v \notin alive
      /\ alive' = alive \cup {v}
      /\ debughook' = [debughook EXCEPT ![v] = debughook[Top.vm]]
      /\ defaultVM' = v
      /\ UNCHANGED <<fn, native, hooked, stack>>
  BY DEF CreateVM, TopIs
<1>2. Top.vm \in VMs
  BY <1>1, TopFrame DEF IInv, TypeOK, Frame
<1>3. \A i \in 1 .. Len(stack) : stack[i].vm \in alive /\ stack[i].vm \in VMs
  BY DEF IInv, FrameInv, TypeOK
<1>4. \A w \in VMs : w # v => debughook'[w] = debughook[w]
  BY <1>1 DEF IInv, TypeOK
<1>5. TypeOK'
  BY <1>1, <1>2 DEF IInv, TypeOK
<1>6. FrameInv'
  BY <1>1 DEF IInv, FrameInv
<1>7. SwappedInv' /\ AliveInv'
  BY <1>1 DEF IInv, SwappedInv, AliveInv, TopIs, Top
<1>8. Unswapped' /\ RightFunction'
  BY <1>1 DEF IInv, Unswapped, RightFunction, TopIs, Top
<1>9. ArmedInv'
  BY <1>1, <1>3, <1>4 DEF IInv, ArmedInv, Covered
<1>10. HookKept'
  BY <1>1, <1>4 DEF IInv, AliveInv, HookKept
<1>. QED
  BY <1>5, <1>6, <1>7, <1>8, <1>9, <1>10 DEF IInv

-----------------------------------------------------------------------------
LEMMA InitIInv == Init => IInv
<1> SUFFICES ASSUME Init PROVE IInv
  OBVIOUS
<1>1. stack \in Seq(Frame) /\ Len(stack) = 0 /\ ~TopIs({"swapped"})
  BY EmptySeq DEF Init, TopIs
<1>2. TypeOK /\ Unswapped
  BY <1>1, OriginalType, HookAssumption DEF Init, TypeOK, Unswapped, Functions
<1>3. FrameInv /\ SwappedInv /\ AliveInv /\ RightFunction /\ ArmedInv /\ HookKept
  BY <1>1, HookAssumption
    DEF Init, FrameInv, SwappedInv, AliveInv, RightFunction, ArmedInv, Covered, HookKept
<1>. QED
  BY <1>2, <1>3 DEF IInv

\* What the frame that goes on may rely on.
LEMMA RunningTop ==
  ASSUME IInv, stack # <<>>
  PROVE  Top \in Frame /\ Top.vm \in alive /\ Top.vm \in VMs
<1>1. Len(stack) \in 1 .. Len(stack) /\ Top \in Frame
  BY TopFrame DEF IInv, TypeOK
<1>. QED
  BY <1>1 DEF IInv, FrameInv, Frame, Top

LEMMA NextIInv == IInv /\ [Next]_vars => IInv'
<1> SUFFICES ASSUME IInv, [Next]_vars PROVE IInv'
  OBVIOUS
<1>. USE DEF TopIs
<1>1. CASE HostCall
  BY <1>1, ScriptPush DEF HostCall, IInv, AliveInv
<1>2. ASSUME NEW v \in VMs, CallBack(v)
      PROVE  IInv'
  BY <1>2, ScriptPush DEF CallBack
<1>3. ASSUME NEW v \in VMs, CreateVM(v)
      PROVE  IInv'
  BY <1>3, CreateVMStep
<1>4. CASE ScriptReturn
  BY <1>4, ReturnStep, NoneSwapped DEF ScriptReturn, IInv, TypeOK
<1>5. ASSUME NEW c \in Natives, GameCall(c)
      PROVE  IInv'
  BY <1>5, SwapStep, RunningTop, HookAssumption DEF GameCall, Closures
<1>6. ASSUME NEW c \in Natives, ModCall(c)
      PROVE  IInv'
  <2>. DEFINE f == [phase |-> "body", side |-> "mod", vm |-> Top.vm, clo |-> c,
                    saved |-> None, run |-> fn[c], disarm |-> None]
  <2>1. stack # <<>> /\ Top.phase = "script" /\ Push(f)
        /\ UNCHANGED <<alive, fn, native, hooked, debughook, defaultVM>>
    BY <1>6 DEF ModCall
  <2>2. Top.vm \in alive /\ Top.vm \in VMs
    BY <2>1, RunningTop
  <2>3. fn[c] = Original(c) /\ c \in Closures /\ Original(c) \in OwnFunctions
    BY <2>1, NoneSwapped, OriginalType DEF Closures
  <2>4. f \in Frame
    BY <2>2, <2>3 DEF Frame, Functions
  <2>. QED
    BY <2>1, <2>2, <2>3, <2>4, PlainPush
<1>7. CASE RefuseCall
  BY <1>7, ReturnStep, PutBack DEF RefuseCall, Unswap
<1>8. CASE GameEvent
  <2>1. debughook[Top.vm] \in DebugClosures
    BY <1>8, RunningTop DEF GameEvent, IInv, TypeOK
  <2>. QED
    BY <1>8, <2>1, SwapStep, RunningTop DEF GameEvent, Closures
<1>9. CASE EnterNative
  BY <1>9, EnterNativeStep
<1>10. CASE FilterPass
  BY <1>10, FilterPassStep
<1>11. CASE FilterStop
  BY <1>11, ReturnStep, PutBack DEF FilterStop, Unswap
<1>12. CASE BodyReturn
  BY <1>12, ReturnStep, PutBack DEF BodyReturn, Unswap
<1>13. CASE EnterHook
  BY <1>13, EnterHookStep
<1>14. CASE ModEvent
  BY <1>14, ModEventStep
<1>15. CASE HookReturn
  BY <1>15, HookReturnStep
<1>16. CASE ModScript
  BY <1>16, ScriptPush DEF ModScript, IInv, AliveInv
<1>17. CASE UNCHANGED vars
  BY <1>17 DEF vars, IInv, TypeOK, FrameInv, SwappedInv, AliveInv, Unswapped, RightFunction,
               ArmedInv, Covered, HookKept, Top
<1>. QED
  BY <1>1, <1>2, <1>3, <1>4, <1>5, <1>6, <1>7, <1>8, <1>9, <1>10, <1>11, <1>12, <1>13, <1>14,
     <1>15, <1>16, <1>17 DEF Next

-----------------------------------------------------------------------------
(* The theorems.                                                           *)

\* Every reachable state has its type, and the frames of the C stack hold what the locals
\* of CallNative, HookNative and Hook hold.
THEOREM TypeCorrect == Spec => [](TypeOK /\ IInv)
<1>1. Init => IInv
  BY InitIInv
<1>2. IInv /\ [Next]_vars => IInv'
  BY NextIInv
<1>3. IInv => TypeOK /\ IInv
  BY DEF IInv
<1>. QED
  BY <1>1, <1>2, <1>3, PTL DEF Spec

\* However calls nest, only the call that has just been swapped in has HookNative in its
\* closure: the game and the mod find every native as it was made.
THEOREM UnswappedTheorem == Spec => []Unswapped
<1>1. IInv => Unswapped
  BY DEF IInv
<1>. QED
  BY <1>1, TypeCorrect, PTL

\* HookNative runs the function of the closure that was called, at every depth.
THEOREM RightFunctionTheorem == Spec => []RightFunction
<1>1. IInv => RightFunction
  BY DEF IInv
<1>. QED
  BY <1>1, TypeCorrect, PTL

\* A native of the game that has control has the debug hook of its VM armed.
THEOREM ArmedTheorem == Spec => []Armed
<1>1. IInv => Armed
  <2> SUFFICES ASSUME IInv, TopIs({"filter", "body"}), Top.side = "game"
               PROVE  debughook[Top.vm] # None
    BY DEF Armed
  <2>1. Len(stack) \in 1 .. Len(stack) /\ Len(stack) \in Nat
    BY TopFrame DEF IInv, TypeOK, TopIs
  <2>2. ~Covered(Top.vm, Len(stack))
    BY <2>1 DEF Covered
  <2>. QED
    BY <2>1, <2>2 DEF IInv, ArmedInv, TopIs, Top
<1>. QED
  BY <1>1, TypeCorrect, PTL

\* No return of a handler loses the debug hook of a VM.
THEOREM HookKeptTheorem == Spec => []HookKept
<1>1. IInv => HookKept
  BY DEF IInv
<1>. QED
  BY <1>1, TypeCorrect, PTL
-----------------------------------------------------------------------------
(* The default VM while a filter or handler runs.  Above one of them, and  *)
(* above its frame, only its own VM runs until another one comes in.       *)

HandlerInv ==
  \A k \in 1 .. Len(stack) :
    stack[k].phase \in {"filter", "handler"} /\ k \notin astray =>
      /\ defaultVM = stack[k].vm
      /\ \A j \in k .. Len(stack) : stack[j].vm = stack[k].vm

\* A filter or handler that goes on has only its own VM above it, and as the default.
LEMMA OwnVM ==
  ASSUME IInv, HandlerInv, NEW k \in 1 .. Len(stack), k \notin astray,
         stack[k].phase \in {"filter", "handler"}
  PROVE  Top.vm = stack[k].vm /\ defaultVM = stack[k].vm
<1>1. Len(stack) \in Nat /\ Len(stack) \in k .. Len(stack)
  BY DEF IInv, TypeOK
<1>. QED
  BY <1>1 DEF HandlerInv, Top

\* A call or script on the VM that runs, or on the default VM when a filter or handler
\* evaluates it.
LEMMA PushKeepsVM ==
  ASSUME IInv, HandlerInv, NEW f \in Frame, Push(f), astray' = astray \cap (1 .. Len(stack')),
         stack = <<>> \/ f.vm = Top.vm \/ f.vm = defaultVM,
         defaultVM' = defaultVM \/ defaultVM' = f.vm,
         f.phase \in {"filter", "handler"} => defaultVM' = f.vm
  PROVE  HandlerInv'
<1>1. Grown(f) /\ Len(stack) \in Nat
  BY PushEffect DEF IInv, TypeOK
<1>2. ASSUME NEW k \in 1 .. Len(stack'), k \notin astray',
             stack'[k].phase \in {"filter", "handler"}
      PROVE  defaultVM' = stack'[k].vm /\ \A j \in k .. Len(stack') : stack'[j].vm = stack'[k].vm
  <2>1. k \notin astray
    BY <1>2
  <2>2. CASE k = Len(stack) + 1
    BY <1>1, <1>2, <2>2 DEF Grown
  <2>3. CASE k \in 1 .. Len(stack)
    <3>1. stack'[k] = stack[k] /\ stack # <<>>
      BY <1>1, <2>3, EmptySeq DEF Grown
    <3>2. Top.vm = stack[k].vm /\ defaultVM = stack[k].vm
      BY <1>2, <2>1, <2>3, <3>1, OwnVM
    <3>3. \A j \in k .. Len(stack) : stack[j].vm = stack[k].vm
      BY <1>2, <2>1, <2>3, <3>1 DEF HandlerInv
    <3>. QED
      BY <1>1, <2>3, <3>1, <3>2, <3>3 DEF Grown
  <2>. QED
    BY <1>1, <2>2, <2>3 DEF Grown
<1>. QED
  BY <1>2 DEF HandlerInv

\* A return leaves the default VM to the calls below.
LEMMA PopKeepsVM ==
  ASSUME IInv, HandlerInv, stack # <<>>, Pop, UNCHANGED defaultVM,
         astray' = astray \cap (1 .. Len(stack'))
  PROVE  HandlerInv'
<1>1. Shrunk /\ Len(stack) \in Nat
  BY PopEffect, TopFrame DEF IInv, TypeOK
<1>2. \A k \in 1 .. Len(stack') : k \in 1 .. Len(stack) /\ stack'[k] = stack[k]
  BY <1>1 DEF Shrunk
<1>3. \A k \in 1 .. Len(stack') : \A j \in k .. Len(stack') :
        j \in k .. Len(stack) /\ stack'[j] = stack[j]
  BY <1>1 DEF Shrunk
<1>. QED
  BY <1>2, <1>3 DEF HandlerInv

\* A call that goes on stays on its VM, and makes it the default VM if a filter or a
\* handler is called.
LEMMA RetopKeepsVM ==
  ASSUME IInv, HandlerInv, stack # <<>>, NEW f \in Frame, Retop(f), f.vm = Top.vm,
         astray' = astray \cap (1 .. Len(stack')),
         defaultVM' = defaultVM \/ defaultVM' = Top.vm,
         f.phase \in {"filter", "handler"} => defaultVM' = Top.vm
  PROVE  HandlerInv'
<1>1. Retopped(f) /\ Len(stack) \in Nat
  BY RetopEffect DEF IInv, TypeOK
<1>2. \A j \in 1 .. Len(stack) : stack'[j].vm = stack[j].vm
  BY <1>1 DEF Retopped, Top
<1>3. ASSUME NEW k \in 1 .. Len(stack'), k \notin astray',
             stack'[k].phase \in {"filter", "handler"}
      PROVE  defaultVM' = stack'[k].vm /\ \A j \in k .. Len(stack') : stack'[j].vm = stack'[k].vm
  <2>1. k \notin astray /\ k \in 1 .. Len(stack)
    BY <1>1, <1>3 DEF Retopped
  <2>2. CASE k = Len(stack)
    BY <1>1, <1>2, <1>3, <2>2 DEF Retopped, Top
  <2>3. CASE k \in 1 .. Len(stack) - 1
    <3>1. stack'[k] = stack[k]
      BY <1>1, <2>3 DEF Retopped
    <3>2. Top.vm = stack[k].vm /\ defaultVM = stack[k].vm
      BY <1>3, <2>1, <3>1, OwnVM
    <3>3. \A j \in k .. Len(stack) : stack[j].vm = stack[k].vm
      BY <1>3, <2>1, <3>1 DEF HandlerInv
    <3>. QED
      BY <1>1, <1>2, <2>3, <3>1, <3>2, <3>3 DEF Retopped
  <2>. QED
    BY <1>1, <2>1, <2>2, <2>3
<1>. QED
  BY <1>3 DEF HandlerInv

\* A script starts on the VM that runs, on the default VM, or with nothing running.
LEMMA ScriptKeepsVM ==
  ASSUME IInv, HandlerInv, NEW v \in VMs, NEW s \in {"game", "mod"}, Push(Script(v, s)),
         stack = <<>> \/ v = Top.vm \/ v = defaultVM, UNCHANGED defaultVM,
         astray' = astray \cap (1 .. Len(stack'))
  PROVE  HandlerInv'
<1>. DEFINE f == Script(v, s)
<1>1. f \in Frame /\ f.phase = "script" /\ f.vm = v
  BY DEF Script, Frame
<1>2. Push(f)
  OBVIOUS
<1>. HIDE DEF f
<1>. QED
  BY <1>1, <1>2, PushKeepsVM

\* A call is swapped in on the VM that runs.
LEMMA SwapKeepsVM ==
  ASSUME IInv, HandlerInv, ~TopIs({"swapped"}), stack # <<>>, NEW c \in Closures,
         Swap(Top.vm, c), UNCHANGED defaultVM, astray' = astray \cap (1 .. Len(stack'))
  PROVE  HandlerInv'
<1>. DEFINE f == [phase |-> "swapped", side |-> "game", vm |-> Top.vm, clo |-> c,
                  saved |-> fn[c], run |-> None, disarm |-> None]
<1>1. f \in Frame /\ f.phase = "swapped" /\ f.vm = Top.vm
  BY NoneSwapped, OriginalType, RunningTop DEF Frame
<1>2. Push(f)
  BY DEF Swap
<1>. HIDE DEF f
<1>. QED
  BY <1>1, <1>2, PushKeepsVM

\* A native that wakes another VM, or makes one, leaves no filter or handler below relied on.
LEMMA LeavingVM ==
  ASSUME IInv, LeavesVM, astray' = 1 .. Len(stack)
  PROVE  HandlerInv'
<1>1. Len(stack) \in Nat
  BY DEF IInv, TypeOK
<1>2. PICK v \in VMs : CallBack(v) \/ CreateVM(v)
  BY DEF LeavesVM
<1>3. CASE CreateVM(v)
  BY <1>3 DEF CreateVM, HandlerInv
<1>4. CASE CallBack(v)
  <2>. DEFINE f == Script(v, "game")
  <2>1. f \in Frame /\ f.phase = "script" /\ Push(f)
    BY <1>4 DEF Script, Frame, CallBack
  <2>. HIDE DEF f
  <2>2. Grown(f)
    BY <2>1, PushEffect DEF IInv, TypeOK
  <2>3. \A k \in 1 .. Len(stack') : k \notin astray' => stack'[k].phase = "script"
    BY <1>1, <2>1, <2>2 DEF Grown
  <2>. QED
    BY <2>3 DEF HandlerInv
<1>. QED
  BY <1>2, <1>3, <1>4

LEMMA HandlerStep ==
  ASSUME IInv, HandlerInv, Next, ~LeavesVM, astray' = astray \cap (1 .. Len(stack'))
  PROVE  HandlerInv'
<1>. USE DEF TopIs
<1>1. CASE HostCall
  BY <1>1, ScriptKeepsVM, HookAssumption DEF HostCall
<1>2. ASSUME NEW v \in VMs, CallBack(v)
      PROVE  HandlerInv'
  BY <1>2, ScriptKeepsVM DEF CallBack, LeavesVM
<1>3. ASSUME NEW v \in VMs, CreateVM(v)
      PROVE  HandlerInv'
  <2>1. Top.vm \in alive /\ v \notin alive
    BY <1>3, RunningTop DEF CreateVM
  <2>. QED
    BY <1>3, <2>1 DEF LeavesVM
<1>4. CASE ScriptReturn
  BY <1>4, PopKeepsVM DEF ScriptReturn
<1>5. ASSUME NEW c \in Natives, GameCall(c)
      PROVE  HandlerInv'
  BY <1>5, SwapKeepsVM DEF GameCall, Closures
<1>6. ASSUME NEW c \in Natives, ModCall(c)
      PROVE  HandlerInv'
  <2>. DEFINE f == [phase |-> "body", side |-> "mod", vm |-> Top.vm, clo |-> c,
                    saved |-> None, run |-> fn[c], disarm |-> None]
  <2>1. stack # <<>> /\ Push(f) /\ UNCHANGED defaultVM
    BY <1>6 DEF ModCall
  <2>2. f \in Frame /\ f.phase = "body" /\ f.vm = Top.vm
    BY <2>1, RunningTop DEF Frame, Closures, IInv, TypeOK
  <2>. HIDE DEF f
  <2>. QED
    BY <2>1, <2>2, PushKeepsVM
<1>7. CASE RefuseCall
  BY <1>7, PopKeepsVM DEF RefuseCall, Unswap
<1>8. CASE GameEvent
  <2>1. debughook[Top.vm] \in DebugClosures
    BY <1>8, RunningTop DEF GameEvent, IInv, TypeOK
  <2>. QED
    BY <1>8, <2>1, SwapKeepsVM DEF GameEvent, Closures
<1>9. CASE EnterNative
  <2>. DEFINE f == [Top EXCEPT !.run = native[Top.vm],
                               !.phase = IF Top.clo \in Filtered THEN "filter" ELSE "body"]
  <2>1. stack # <<>> /\ Retop(f) /\ defaultVM' = Top.vm
    BY <1>9 DEF EnterNative
  <2>2. f \in Frame /\ f.vm = Top.vm
    BY <1>9, SwappedTop, OriginalType DEF EnterNative, Frame, Functions
  <2>. HIDE DEF f
  <2>. QED
    BY <2>1, <2>2, RetopKeepsVM
<1>10. CASE FilterPass
  <2>. DEFINE f == [Top EXCEPT !.phase = "body"]
  <2>1. stack # <<>> /\ Retop(f) /\ UNCHANGED defaultVM
    BY <1>10 DEF FilterPass
  <2>2. f \in Frame /\ f.vm = Top.vm /\ f.phase = "body"
    BY <2>1, RunningTop DEF Frame
  <2>. HIDE DEF f
  <2>. QED
    BY <2>1, <2>2, RetopKeepsVM
<1>11. CASE FilterStop
  BY <1>11, PopKeepsVM DEF FilterStop, Unswap
<1>12. CASE BodyReturn
  BY <1>12, PopKeepsVM DEF BodyReturn, Unswap
<1>13. CASE EnterHook
  <2>. DEFINE f == [Top EXCEPT !.run = native[Top.vm], !.phase = "handler",
                               !.disarm = debughook[Top.vm]]
  <2>1. stack # <<>> /\ Retop(f) /\ defaultVM' = Top.vm
    BY <1>13 DEF EnterHook, StartHook
  <2>2. f \in Frame /\ f.vm = Top.vm
    BY <1>13, SwappedTop, OriginalType DEF EnterHook, Frame, Functions, IInv, TypeOK
  <2>. HIDE DEF f
  <2>. QED
    BY <2>1, <2>2, RetopKeepsVM
<1>14. CASE ModEvent
  <2>. DEFINE d == debughook[Top.vm]
              f == [phase |-> "handler", side |-> "mod", vm |-> Top.vm, clo |-> d,
                    saved |-> None, run |-> fn[d], disarm |-> d]
  <2>1. Top.vm \in VMs /\ d \in DebugClosures
    BY <1>14, RunningTop DEF ModEvent, IInv, TypeOK
  <2>2. f \in Frame /\ f.vm = Top.vm
    BY <2>1 DEF Frame, Closures, IInv, TypeOK
  <2>3. Push(f) /\ defaultVM' = Top.vm
    BY <1>14 DEF ModEvent, StartHook
  <2>. HIDE DEF f
  <2>. QED
    BY <2>2, <2>3, PushKeepsVM
<1>15. CASE HookReturn
  BY <1>15, PopKeepsVM DEF HookReturn, Unswap
<1>16. CASE ModScript
  BY <1>16, ScriptKeepsVM DEF ModScript, IInv, TypeOK
<1>. QED
  BY <1>1, <1>2, <1>3, <1>4, <1>5, <1>6, <1>7, <1>8, <1>9, <1>10, <1>11, <1>12, <1>13, <1>14,
     <1>15, <1>16 DEF Next

\* For as long as a filter or handler runs, whatever nests above it on its VM and returns,
\* the default VM is its own, unless a native above it has woken or made another VM.
THEOREM HandlerVMTheorem == SpecWithHistory => []HandlerVM
<1>1. InitWithHistory => Init /\ HandlerInv
  BY EmptySeq DEF InitWithHistory, Init, HandlerInv
<1>2. [NextWithHistory]_varsWithHistory => [Next]_vars
  BY DEF NextWithHistory, varsWithHistory
<1>3. SpecWithHistory => []IInv
  BY <1>1, <1>2, TypeCorrect, PTL DEF SpecWithHistory, Spec
<1>4. IInv /\ HandlerInv /\ [NextWithHistory]_varsWithHistory => HandlerInv'
  <2> SUFFICES ASSUME IInv, HandlerInv, [NextWithHistory]_varsWithHistory PROVE HandlerInv'
    OBVIOUS
  <2>1. CASE NextWithHistory /\ LeavesVM
    BY <2>1, LeavingVM DEF NextWithHistory
  <2>2. CASE NextWithHistory /\ ~LeavesVM
    BY <2>2, HandlerStep DEF NextWithHistory
  <2>3. CASE UNCHANGED varsWithHistory
    BY <2>3 DEF varsWithHistory, vars, HandlerInv
  <2>. QED
    BY <2>1, <2>2, <2>3
<1>5. IInv /\ HandlerInv => HandlerVM
  <2> SUFFICES ASSUME IInv, HandlerInv, TopIs({"filter", "handler"}), Len(stack) \notin astray
               PROVE  defaultVM = Top.vm
    BY DEF HandlerVM
  <2>1. Len(stack) \in 1 .. Len(stack) /\ Top = stack[Len(stack)]
    BY TopFrame DEF TopIs, Top, IInv, TypeOK
  <2>. QED
    BY <2>1, OwnVM DEF TopIs
<1>. QED
  BY <1>1, <1>3, <1>4, <1>5, PTL DEF SpecWithHistory
-----------------------------------------------------------------------------
(* The hook implements Interposer.  First what the calls and VMs that it   *)
(* is mapped to are, and what they become as the C stack does.             *)

CallSet == {CallOf(f) : f \in Frame}

LEMMA CallsOfStack ==
  ASSUME stack \in Seq(Frame)
  PROVE  /\ Calls \in Seq(CallSet)
         /\ Len(Calls) = Len(stack)
         /\ Len(stack) \in Nat
         /\ \A i \in 1 .. Len(stack) : Calls[i] = CallOf(stack[i])
         /\ Calls = <<>> <=> stack = <<>>
<1>1. Len(stack) \in Nat /\ \A i \in 1 .. Len(stack) : stack[i] \in Frame
  BY ElementOfSeq
<1>2. \A i \in 1 .. Len(stack) : CallOf(stack[i]) \in CallSet
  BY <1>1 DEF CallSet
<1>3. Calls \in Seq(CallSet) /\ Len(Calls) = Len(stack)
  BY <1>1, <1>2, IsASeq DEF Calls
<1>4. Calls = <<>> <=> stack = <<>>
  BY <1>3, EmptySeq
<1>. QED
  BY <1>1, <1>3, <1>4 DEF Calls

\* The newest call is that of the newest frame.
LEMMA PromisedTop ==
  ASSUME IInv
  PROVE  /\ Calls # <<>> <=> stack # <<>>
         /\ stack # <<>> => Promise!Top = CallOf(Top) /\ Top \in Frame
         /\ \A i \in 1 .. Len(Calls) : Calls[i].vm = stack[i].vm
         /\ Len(Calls) = Len(stack)
<1>1. /\ Calls = <<>> <=> stack = <<>>
      /\ Len(Calls) = Len(stack)
      /\ \A i \in 1 .. Len(stack) : Calls[i] = CallOf(stack[i])
  BY CallsOfStack DEF IInv, TypeOK
<1>2. ASSUME stack # <<>>
      PROVE  Promise!Top = CallOf(Top) /\ Top \in Frame
  <2>1. Len(stack) \in 1 .. Len(stack) /\ Top \in Frame
    BY <1>2, TopFrame DEF IInv, TypeOK
  <2>. QED
    BY <1>1, <2>1 DEF Promise!Top, Top
<1>3. \A i \in 1 .. Len(Calls) : Calls[i].vm = stack[i].vm
  <2>1. \A f : CallOf(f).vm = f.vm
    BY DEF CallOf
  <2>. QED
    BY <1>1, <2>1
<1>. QED
  BY <1>1, <1>2, <1>3

\* A frame that is pushed is a call that begins.
LEMMA CallsPush ==
  ASSUME IInv, NEW f \in Frame, Push(f)
  PROVE  Len(Calls) < MaxDepth /\ Calls' = Append(Calls, CallOf(f))
<1>1. Grown(f) /\ stack \in Seq(Frame)
  BY PushEffect DEF IInv, TypeOK
<1>2. /\ Calls \in Seq(CallSet) /\ Len(Calls) = Len(stack) /\ Len(stack) \in Nat
      /\ \A i \in 1 .. Len(stack) : Calls[i] = CallOf(stack[i])
  BY <1>1, CallsOfStack
<1>3. /\ Calls' \in Seq(CallSet) /\ Len(Calls') = Len(stack) + 1
      /\ \A i \in 1 .. Len(stack) + 1 : Calls'[i] = CallOf(stack'[i])
  <2>1. \A i \in 1 .. Len(stack') : CallOf(stack'[i]) \in CallSet
    BY <1>1, ElementOfSeq DEF Grown, CallSet
  <2>2. Len(stack') \in Nat /\ Len(stack') = Len(stack) + 1
    BY <1>1, <1>2 DEF Grown
  <2>3. Calls' = [i \in 1 .. Len(stack') |-> CallOf(stack'[i])]
    BY DEF Calls, CallOf
  <2>4. Calls' \in Seq(CallSet) /\ Len(Calls') = Len(stack')
    BY <2>1, <2>2, <2>3, IsASeq
  <2>. QED
    BY <2>2, <2>3, <2>4
<1>4. CallOf(f) \in CallSet
  BY DEF CallSet
<1>. DEFINE next == Append(Calls, CallOf(f))
<1>5. /\ next \in Seq(CallSet) /\ Len(next) = Len(stack) + 1
      /\ \A i \in 1 .. Len(stack) : next[i] = Calls[i]
      /\ next[Len(stack) + 1] = CallOf(f)
  BY <1>2, <1>4, AppendProperties
<1>. HIDE DEF next
<1>6. ASSUME NEW i \in 1 .. Len(stack) + 1
      PROVE  Calls'[i] = next[i]
  <2>1. CASE i = Len(stack) + 1
    BY <1>1, <1>3, <1>5, <2>1 DEF Grown
  <2>2. CASE i # Len(stack) + 1
    <3>1. i \in 1 .. Len(stack)
      BY <1>2, <2>2
    <3>. QED
      BY <1>1, <1>2, <1>3, <1>5, <3>1 DEF Grown
  <2>. QED
    BY <2>1, <2>2
<1>7. Calls' = next
  BY <1>3, <1>5, <1>6, SeqEqual, Zenon
<1>8. Len(Calls) < MaxDepth
  BY <1>2 DEF Push
<1>. QED
  BY <1>7, <1>8 DEF next

\* A frame that is popped is a call that ends.
LEMMA CallsPop ==
  ASSUME IInv, stack # <<>>, Pop
  PROVE  Promise!End
<1>1. Shrunk /\ stack \in Seq(Frame) /\ Len(stack) \in Nat \ {0}
  BY PopEffect, TopFrame DEF IInv, TypeOK
<1>2. /\ Calls \in Seq(CallSet) /\ Len(Calls) = Len(stack)
      /\ \A i \in 1 .. Len(stack) : Calls[i] = CallOf(stack[i])
  BY <1>1, CallsOfStack
<1>3. /\ Calls' \in Seq(CallSet) /\ Len(Calls') = Len(stack) - 1
      /\ \A i \in 1 .. Len(stack) - 1 : Calls'[i] = CallOf(stack'[i])
  <2>1. \A i \in 1 .. Len(stack') : CallOf(stack'[i]) \in CallSet
    BY <1>1, ElementOfSeq DEF Shrunk, CallSet
  <2>2. Len(stack') \in Nat /\ Len(stack') = Len(stack) - 1
    BY <1>1 DEF Shrunk
  <2>3. Calls' = [i \in 1 .. Len(stack') |-> CallOf(stack'[i])]
    BY DEF Calls, CallOf
  <2>4. Calls' \in Seq(CallSet) /\ Len(Calls') = Len(stack')
    BY <2>1, <2>2, <2>3, IsASeq
  <2>. QED
    BY <2>2, <2>3, <2>4
<1>. DEFINE next == SubSeq(Calls, 1, Len(Calls) - 1)
<1>4. /\ next \in Seq(CallSet) /\ Len(next) = Len(stack) - 1
      /\ \A i \in 1 .. Len(stack) - 1 : next[i] = Calls[i]
  <2>. DEFINE n == Len(Calls) - 1
  <2>1. n \in Nat /\ n = Len(stack) - 1 /\ \A i \in 1 .. n : Calls[i] \in CallSet
    BY <1>1, <1>2, ElementOfSeq
  <2>. HIDE DEF n
  <2>2. /\ SubSeq(Calls, 1, n) \in Seq(CallSet)
        /\ Len(SubSeq(Calls, 1, n)) = IF 1 <= n THEN n - 1 + 1 ELSE 0
        /\ \A i \in 1 .. n - 1 + 1 : SubSeq(Calls, 1, n)[i] = Calls[1 + i - 1]
    BY <2>1, SubSeqProperties
  <2>3. \A i \in 1 .. n : i \in 1 .. n - 1 + 1 /\ 1 + i - 1 = i
    BY <2>1
  <2>4. Len(SubSeq(Calls, 1, n)) = n
    <3>1. Len(SubSeq(Calls, 1, n)) = IF 1 <= n THEN n - 1 + 1 ELSE 0
      BY <2>2, Zenon
    <3>2. CASE 1 <= n
      BY <2>1, <3>1, <3>2
    <3>3. CASE ~(1 <= n)
      BY <2>1, <3>1, <3>3
    <3>. QED
      BY <3>2, <3>3
  <2>5. ASSUME NEW i \in 1 .. n PROVE SubSeq(Calls, 1, n)[i] = Calls[i]
    <3>1. SubSeq(Calls, 1, n)[i] = Calls[1 + i - 1] /\ 1 + i - 1 = i
      BY <2>2, <2>3, Zenon
    <3>. QED
      BY <3>1, Zenon
  <2>. QED
    BY <2>1, <2>2, <2>4, <2>5 DEF n
<1>. HIDE DEF next
<1>5. ASSUME NEW i \in 1 .. Len(stack) - 1
      PROVE  Calls'[i] = next[i]
  <2>1. i \in 1 .. Len(stack)
    BY <1>1
  <2>. QED
    BY <1>1, <1>2, <1>3, <1>4, <2>1 DEF Shrunk
<1>6. Calls' = next
  BY <1>3, <1>4, <1>5, SeqEqual, Zenon
<1>. QED
  BY <1>6 DEF next, Promise!End

\* A frame that is replaced is a call that goes on, if it is of the same closure.
LEMMA CallsRetop ==
  ASSUME IInv, stack # <<>>, NEW f \in Frame, Retop(f), NEW p,
         CallOf(f) = [CallOf(Top) EXCEPT !.phase = p]
  PROVE  Promise!GoOn(p)
<1>1. Retopped(f) /\ stack \in Seq(Frame) /\ Len(stack) \in Nat \ {0} /\ Top = stack[Len(stack)]
  BY RetopEffect, TopFrame DEF IInv, TypeOK, Top
<1>2. /\ Calls = [i \in 1 .. Len(stack) |-> CallOf(stack[i])]
      /\ Len(Calls) = Len(stack)
  BY <1>1, CallsOfStack DEF Calls
<1>3. Calls' = [i \in 1 .. Len(stack) |-> CallOf(stack'[i])]
  BY <1>1 DEF Calls, CallOf, Retopped
<1>4. ASSUME NEW i \in 1 .. Len(stack)
      PROVE  CallOf(stack'[i]) =
               IF i = Len(stack) THEN [CallOf(stack[i]) EXCEPT !.phase = p] ELSE CallOf(stack[i])
  <2>1. CASE i = Len(stack)
    <3>1. stack'[i] = f /\ stack[i] = Top
      BY <1>1, <2>1 DEF Retopped
    <3>. QED
      BY <2>1, <3>1, Zenon
  <2>2. CASE i # Len(stack)
    <3>1. i \in 1 .. Len(stack) - 1
      BY <1>1, <2>2
    <3>2. stack'[i] = stack[i]
      BY <1>1, <3>1 DEF Retopped
    <3>. QED
      BY <2>2, <3>2, Zenon
  <2>. QED
    BY <2>1, <2>2, Zenon
<1>5. Calls' = [i \in 1 .. Len(stack) |->
                  IF i = Len(stack) THEN [CallOf(stack[i]) EXCEPT !.phase = p]
                                    ELSE CallOf(stack[i])]
  BY <1>3, <1>4
<1>6. Calls' = [Calls EXCEPT ![Len(Calls)].phase = p]
  BY <1>1, <1>2, <1>5, Zenon
<1>. QED
  BY <1>6 DEF Promise!GoOn

-----------------------------------------------------------------------------
(* Then the steps.                                                         *)

\* A script that starts is one in the promise, too.
LEMMA PromisedScript ==
  ASSUME IInv, NEW v \in VMs, NEW s \in {"game", "mod"}, Push(Script(v, s))
  PROVE  Promise!Begin("script", s, v, None)
<1>. DEFINE f == Script(v, s)
<1>1. /\ f \in Frame
      /\ CallOf(f) = [phase |-> "script", side |-> s, vm |-> v, fun |-> None]
  BY DEF Script, Frame, CallOf
<1>2. Push(f)
  OBVIOUS
<1>. HIDE DEF f
<1>. QED
  BY <1>1, <1>2, CallsPush DEF Promise!Begin

\* A call that is swapped in is one of the closure's own function.
LEMMA PromisedSwap ==
  ASSUME IInv, ~TopIs({"swapped"}), NEW v \in VMs, NEW c \in Closures, Swap(v, c)
  PROVE  Promise!Begin("called", "game", v, Original(c))
<1>. DEFINE f == [phase |-> "swapped", side |-> "game", vm |-> v, clo |-> c, saved |-> fn[c],
                  run |-> None, disarm |-> None]
<1>1. f \in Frame
  BY NoneSwapped, OriginalType DEF Frame
<1>2. CallOf(f) = [phase |-> "called", side |-> "game", vm |-> v, fun |-> Original(c)]
  BY DEF CallOf
<1>3. Push(f)
  BY DEF Swap
<1>. HIDE DEF f
<1>. QED
  BY <1>1, <1>2, <1>3, CallsPush DEF Promise!Begin

\* Where a frame is, its call is, but for the name of a call that is swapped in.
LEMMA PromisedPhase ==
  ASSUME IInv, stack # <<>>
  PROVE  /\ Promise!Top.phase = IF Top.phase = "swapped" THEN "called" ELSE Top.phase
         /\ Promise!Top.side = Top.side
         /\ Promise!Top.vm = Top.vm
         /\ Promise!Top.fun = IF Top.phase = "swapped" THEN Original(Top.clo) ELSE Top.run
         /\ Top.phase \in {"script", "swapped", "filter", "body", "handler"}
         /\ Top.vm \in VMs
<1>1. Promise!Top = CallOf(Top) /\ Top \in Frame
  BY PromisedTop
<1>2. /\ CallOf(Top).phase = IF Top.phase = "swapped" THEN "called" ELSE Top.phase
      /\ CallOf(Top).side = Top.side
      /\ CallOf(Top).vm = Top.vm
      /\ CallOf(Top).fun = IF Top.phase = "swapped" THEN Original(Top.clo) ELSE Top.run
  BY DEF CallOf
<1>3. Top.phase \in {"script", "swapped", "filter", "body", "handler"} /\ Top.vm \in VMs
  BY <1>1 DEF Frame
<1>. QED
  BY <1>1, <1>2, <1>3, Zenon

\* A debug hook that is set arms its VM, and no other.
LEMMA PromisedArming ==
  ASSUME TypeOK, NEW v \in VMs
  PROVE  /\ v \in ArmedVMs <=> debughook[v] # None
         /\ SetHook(v) => ArmedVMs' = ArmedVMs \cup {v}
         /\ StartHook(v) => ArmedVMs' = ArmedVMs \ {v}
         /\ \A d \in DebugClosures : debughook' = [debughook EXCEPT ![v] = d] =>
              ArmedVMs' = ArmedVMs \cup {v}
<1>1. \A d \in DebugClosures : d # None
  BY OriginalType DEF Closures
<1>2. \A d \in DebugClosures : debughook' = [debughook EXCEPT ![v] = d] =>
        ArmedVMs' = ArmedVMs \cup {v}
  BY <1>1 DEF TypeOK, ArmedVMs
<1>3. SetHook(v) => ArmedVMs' = ArmedVMs \cup {v}
  <2>1. CASE debughook[v] = None
    BY <1>2, <2>1 DEF SetHook, Unused
  <2>2. CASE debughook[v] # None
    BY <2>2 DEF SetHook, ArmedVMs
  <2>. QED
    BY <2>1, <2>2
<1>4. StartHook(v) => ArmedVMs' = ArmedVMs \ {v}
  BY DEF StartHook, TypeOK, ArmedVMs
<1>. QED
  BY <1>2, <1>3, <1>4 DEF ArmedVMs

\* What the swapped-in call of a closure goes on with is the call it was.
LEMMA PromisedEnter ==
  ASSUME IInv, TopIs({"swapped"}), NEW p \in {"filter", "body", "handler"}, NEW f \in Frame,
         f.phase = p, f.side = Top.side, f.vm = Top.vm, f.run = native[Top.vm],
         Retop(f)
  PROVE  /\ Promise!GoOn(p)
         /\ Promise!Top.fun = native[Top.vm]
<1>1. stack # <<>> /\ Top.phase = "swapped" /\ native[Top.vm] = Original(Top.clo)
  BY SwappedTop DEF TopIs
<1>2. CallOf(f) = [CallOf(Top) EXCEPT !.phase = p]
  <2>1. CallOf(f) = [phase |-> p, side |-> Top.side, vm |-> Top.vm, fun |-> native[Top.vm]]
    BY DEF CallOf
  <2>2. CallOf(Top) = [phase |-> "called", side |-> Top.side, vm |-> Top.vm,
                       fun |-> Original(Top.clo)]
    BY <1>1 DEF CallOf
  <2>. QED
    BY <1>1, <2>1, <2>2
<1>. QED
  BY <1>1, <1>2, CallsRetop, PromisedPhase

LEMMA PromisedEnterNative ==
  ASSUME IInv, EnterNative
  PROVE  Promise!Enter
<1>. DEFINE p == IF Top.clo \in Filtered THEN "filter" ELSE "body"
            f == [Top EXCEPT !.run = native[Top.vm], !.phase = p]
<1>1. /\ TopIs({"swapped"}) /\ stack # <<>> /\ Top.phase = "swapped"
      /\ native[Top.vm] # "Hook" /\ native[Top.vm] = Original(Top.clo)
      /\ Top.vm \in VMs /\ Top.clo \in Closures /\ Top \in Frame
      /\ defaultVM' = Top.vm /\ SetHook(Top.vm) /\ alive' = alive /\ Retop(f)
  BY SwappedTop DEF EnterNative, TopIs
<1>2. f \in Frame /\ f.phase = p /\ f.side = Top.side /\ f.vm = Top.vm /\ f.run = native[Top.vm]
  BY <1>1, OriginalType DEF Frame, Functions
<1>3. Top.clo \notin DebugClosures /\ Original(Top.clo) = Top.clo
  BY <1>1 DEF Original
<1>. HIDE DEF f
<1>4. p \in {"filter", "body", "handler"}
  OBVIOUS
<1>5. Promise!GoOn(p) /\ Promise!Top.fun = native[Top.vm]
  BY <1>1, <1>2, <1>4, PromisedEnter, Zenon
<1>6. ArmedVMs' = ArmedVMs \cup {Top.vm}
  BY <1>1, PromisedArming DEF IInv
<1>7. Promise!In({"called"}) /\ Promise!Top.vm = Top.vm
  BY <1>1, PromisedTop, PromisedPhase DEF Promise!In
<1>. QED
  BY <1>1, <1>3, <1>5, <1>6, <1>7 DEF Promise!Enter

LEMMA PromisedEnterHook ==
  ASSUME IInv, EnterHook
  PROVE  Promise!EnterHook
<1>. DEFINE f == [Top EXCEPT !.run = native[Top.vm], !.phase = "handler",
                             !.disarm = debughook[Top.vm]]
<1>1. /\ TopIs({"swapped"}) /\ stack # <<>> /\ Top.phase = "swapped"
      /\ native[Top.vm] = "Hook" /\ native[Top.vm] = Original(Top.clo)
      /\ Top.vm \in VMs /\ Top.clo \in Closures /\ Top \in Frame
      /\ StartHook(Top.vm) /\ alive' = alive /\ Retop(f)
  BY SwappedTop DEF EnterHook, TopIs
<1>2. debughook[Top.vm] \in DebugClosures \cup {None}
  BY <1>1 DEF IInv, TypeOK
<1>3. /\ f \in Frame /\ f.phase = "handler" /\ f.side = Top.side /\ f.vm = Top.vm
      /\ f.run = native[Top.vm]
  BY <1>1, <1>2, OriginalType DEF Frame, Functions
<1>. HIDE DEF f
<1>4. Promise!GoOn("handler") /\ Promise!Top.fun = native[Top.vm]
  BY <1>1, <1>3, PromisedEnter
<1>5. ArmedVMs' = ArmedVMs \ {Top.vm} /\ defaultVM' = Top.vm
  BY <1>1, PromisedArming DEF IInv, StartHook
<1>6. Promise!In({"called"}) /\ Promise!Top.vm = Top.vm
  BY <1>1, PromisedTop, PromisedPhase DEF Promise!In
<1>. QED
  BY <1>1, <1>4, <1>5, <1>6 DEF Promise!EnterHook, Promise!Handle

LEMMA PromisedFilterPass ==
  ASSUME IInv, FilterPass
  PROVE  Promise!FilterPass
<1>. DEFINE f == [Top EXCEPT !.phase = "body"]
<1>1. /\ stack # <<>> /\ Top.phase = "filter" /\ Retop(f)
      /\ UNCHANGED <<alive, debughook, defaultVM>>
  BY DEF FilterPass, TopIs
<1>2. Top \in Frame
  BY <1>1, PromisedTop
<1>3. /\ f \in Frame
      /\ f.phase = "body" /\ f.side = Top.side /\ f.vm = Top.vm /\ f.run = Top.run
  BY <1>2 DEF Frame
<1>. HIDE DEF f
<1>4. CallOf(f) = [CallOf(Top) EXCEPT !.phase = "body"]
  BY <1>1, <1>3 DEF CallOf
<1>5. Promise!GoOn("body")
  BY <1>1, <1>3, <1>4, CallsRetop
<1>6. Promise!In({"filter"})
  BY <1>1, PromisedTop, PromisedPhase DEF Promise!In
<1>. QED
  BY <1>1, <1>5, <1>6 DEF Promise!FilterPass, ArmedVMs

LEMMA PromisedModEvent ==
  ASSUME IInv, ModEvent
  PROVE  Promise!ModEvent
<1>. DEFINE d == debughook[Top.vm]
            f == [phase |-> "handler", side |-> "mod", vm |-> Top.vm, clo |-> d,
                  saved |-> None, run |-> fn[d], disarm |-> d]
<1>1. /\ stack # <<>> /\ ~TopIs({"swapped"}) /\ Top.phase = "script" /\ Top.side = "mod"
      /\ d # None /\ Push(f) /\ StartHook(Top.vm) /\ alive' = alive
  BY DEF ModEvent, TopIs
<1>2. Top.vm \in VMs /\ d \in DebugClosures
  BY <1>1, RunningTop DEF IInv, TypeOK
<1>3. fn[d] = "Hook"
  BY <1>1, <1>2, NoneSwapped DEF Closures, Original
<1>4. /\ f \in Frame
      /\ CallOf(f) = [phase |-> "handler", side |-> "mod", vm |-> Top.vm, fun |-> "Hook"]
  BY <1>2, <1>3 DEF Frame, Closures, Functions, OwnFunctions, CallOf
<1>. HIDE DEF f
<1>5. Promise!Begin("handler", "mod", Top.vm, "Hook")
  BY <1>1, <1>4, CallsPush DEF Promise!Begin
<1>6. ArmedVMs' = ArmedVMs \ {Top.vm} /\ defaultVM' = Top.vm /\ Top.vm \in ArmedVMs
  BY <1>1, <1>2, PromisedArming DEF IInv, StartHook
<1>7. Promise!In({"script"}) /\ Promise!Top.vm = Top.vm /\ Promise!Top.side = "mod"
  BY <1>1, PromisedTop, PromisedPhase DEF Promise!In
<1>. QED
  BY <1>1, <1>5, <1>6, <1>7 DEF Promise!ModEvent, Promise!Handle

LEMMA PromisedHookReturn ==
  ASSUME IInv, HookReturn
  PROVE  Promise!HookReturn
<1>1. /\ stack # <<>> /\ Top.phase = "handler" /\ Pop
      /\ debughook' = [debughook EXCEPT ![Top.vm] = Top.disarm]
      /\ UNCHANGED <<alive, defaultVM>>
  BY DEF HookReturn, TopIs, Unswap
<1>2. Top.disarm \in DebugClosures /\ Top.vm \in VMs
  <2>1. Len(stack) \in 1 .. Len(stack)
    BY <1>1, TopFrame DEF IInv, TypeOK
  <2>. QED
    BY <1>1, <2>1, RunningTop DEF IInv, FrameInv, Top
<1>3. ArmedVMs' = ArmedVMs \cup {Top.vm}
  BY <1>1, <1>2, PromisedArming DEF IInv
<1>4. Promise!In({"handler"}) /\ Promise!Top.vm = Top.vm
  BY <1>1, PromisedTop, PromisedPhase DEF Promise!In
<1>5. Promise!End
  BY <1>1, CallsPop
<1>. QED
  BY <1>1, <1>3, <1>4, <1>5 DEF Promise!HookReturn

\* The returns of scripts and natives, and the refusals, only end a call.
LEMMA PromisedReturn ==
  ASSUME IInv, TopIs({"script", "swapped", "filter", "body"}), Pop,
         UNCHANGED <<alive, debughook, defaultVM>>
  PROVE  Promise!Return
<1>1. stack # <<>>
  BY DEF TopIs
<1>2. Promise!In({"script", "called", "filter", "body"})
  BY <1>1, PromisedTop, PromisedPhase DEF Promise!In, TopIs
<1>3. Promise!End
  BY <1>1, CallsPop
<1>. QED
  BY <1>2, <1>3 DEF Promise!Return, ArmedVMs

LEMMA PromisedCreateVM ==
  ASSUME IInv, NEW v \in VMs, CreateVM(v)
  PROVE  Promise!CreateVM(v)
<1>1. /\ stack # <<>> /\ Top.phase = "body" /\ v \notin alive
      /\ alive' = alive \cup {v}
      /\ debughook' = [debughook EXCEPT ![v] = debughook[Top.vm]]
      /\ defaultVM' = v
      /\ stack' = stack
  BY DEF CreateVM, TopIs
<1>2. Promise!In({"body"}) /\ Promise!Top.vm = Top.vm /\ Top.vm \in VMs
  BY <1>1, PromisedTop, PromisedPhase DEF Promise!In
<1>3. ArmedVMs' = IF Top.vm \in ArmedVMs THEN ArmedVMs \cup {v} ELSE ArmedVMs \ {v}
  BY <1>1, <1>2 DEF IInv, TypeOK, ArmedVMs
<1>4. Calls' = Calls
  BY <1>1 DEF Calls, CallOf
<1>. QED
  BY <1>1, <1>2, <1>3, <1>4 DEF Promise!CreateVM

LEMMA PromisedModCall ==
  ASSUME IInv, NEW c \in Natives, ModCall(c)
  PROVE  Promise!ModCall(c)
<1>. DEFINE f == [phase |-> "body", side |-> "mod", vm |-> Top.vm, clo |-> c,
                  saved |-> None, run |-> fn[c], disarm |-> None]
<1>1. /\ stack # <<>> /\ ~TopIs({"swapped"}) /\ Top.phase = "script" /\ Top.side = "mod"
      /\ Push(f) /\ UNCHANGED <<alive, debughook, defaultVM>>
  BY DEF ModCall, TopIs
<1>2. fn[c] = c /\ Top.vm \in VMs
  BY <1>1, NoneSwapped, RunningTop, HookAssumption DEF Closures, Original
<1>3. /\ f \in Frame
      /\ CallOf(f) = [phase |-> "body", side |-> "mod", vm |-> Top.vm, fun |-> c]
  BY <1>2 DEF Frame, Closures, Functions, OwnFunctions, CallOf
<1>. HIDE DEF f
<1>4. Promise!Begin("body", "mod", Top.vm, c)
  BY <1>1, <1>3, CallsPush DEF Promise!Begin
<1>5. Promise!In({"script"}) /\ Promise!Top.vm = Top.vm /\ Promise!Top.side = "mod"
  BY <1>1, PromisedTop, PromisedPhase DEF Promise!In
<1>. QED
  BY <1>1, <1>4, <1>5 DEF Promise!ModCall, ArmedVMs

LEMMA PromisedStep == IInv /\ [Next]_vars => [Promise!Next]_(Promise!vars)
<1> SUFFICES ASSUME IInv, [Next]_vars PROVE [Promise!Next]_(Promise!vars)
  OBVIOUS
<1>. USE DEF TopIs
<1>1. CASE HostCall
  <2>1. Calls = <<>>
    BY <1>1, PromisedTop DEF HostCall
  <2>. QED
    BY <1>1, <2>1, PromisedScript, HookAssumption
      DEF HostCall, Promise!HostCall, Promise!Next, ArmedVMs
<1>2. ASSUME NEW v \in VMs, CallBack(v)
      PROVE  Promise!Next
  <2>1. stack # <<>> /\ Top.phase = "body"
    BY <1>2 DEF CallBack
  <2>2. Promise!In({"body"}) /\ Promise!Top.vm = Top.vm
    BY <2>1, PromisedTop, PromisedPhase DEF Promise!In
  <2>3. v = Promise!Top.vm \/ \A i \in 1 .. Len(Calls) : Calls[i].vm # v
    BY <1>2, <2>2, PromisedTop DEF CallBack
  <2>4. Promise!CallBack(v)
    BY <1>2, <2>2, <2>3, PromisedScript DEF CallBack, Promise!CallBack, ArmedVMs
  <2>. QED
    BY <2>4 DEF Promise!Next
<1>3. ASSUME NEW v \in VMs, CreateVM(v)
      PROVE  Promise!Next
  BY <1>3, PromisedCreateVM DEF Promise!Next
<1>4. CASE ScriptReturn
  BY <1>4, PromisedReturn DEF ScriptReturn, Promise!Next
<1>5. ASSUME NEW c \in Natives, GameCall(c)
      PROVE  Promise!Next
  <2>1. /\ stack # <<>> /\ ~TopIs({"swapped"}) /\ Top.phase \in {"script", "body"}
        /\ Top.phase = "script" => Top.side = "game"
        /\ Swap(Top.vm, c) /\ UNCHANGED <<alive, debughook, defaultVM>>
    BY <1>5 DEF GameCall
  <2>2. Promise!Begin("called", "game", Top.vm, c)
    BY <2>1, PromisedSwap, RunningTop, HookAssumption DEF Closures, Original
  <2>3. /\ Promise!In({"script", "body"}) /\ Promise!Top.vm = Top.vm
        /\ Promise!Top.phase = Top.phase /\ Promise!Top.side = Top.side
    BY <2>1, PromisedTop, PromisedPhase DEF Promise!In
  <2>4. Promise!GameCall(c)
    BY <2>1, <2>2, <2>3 DEF Promise!GameCall, ArmedVMs
  <2>. QED
    BY <2>4 DEF Promise!Next
<1>6. ASSUME NEW c \in Natives, ModCall(c)
      PROVE  Promise!Next
  BY <1>6, PromisedModCall DEF Promise!Next
<1>7. CASE RefuseCall
  BY <1>7, PromisedReturn DEF RefuseCall, Unswap, Promise!Next
<1>8. CASE GameEvent
  <2>1. /\ stack # <<>> /\ ~TopIs({"swapped"}) /\ Top.phase = "script" /\ Top.side = "game"
        /\ debughook[Top.vm] # None
        /\ Swap(Top.vm, debughook[Top.vm]) /\ UNCHANGED <<alive, debughook, defaultVM>>
    BY <1>8 DEF GameEvent
  <2>2. Top.vm \in VMs /\ debughook[Top.vm] \in DebugClosures
    BY <2>1, RunningTop DEF IInv, TypeOK
  <2>3. Promise!Begin("called", "game", Top.vm, "Hook")
    BY <2>1, <2>2, PromisedSwap DEF Closures, Original
  <2>4. Promise!In({"script"}) /\ Promise!Top.vm = Top.vm /\ Promise!Top.side = "game"
    BY <2>1, PromisedTop, PromisedPhase DEF Promise!In
  <2>5. Top.vm \in ArmedVMs
    BY <2>1, <2>2 DEF ArmedVMs
  <2>6. Promise!GameEvent
    BY <2>1, <2>3, <2>4, <2>5 DEF Promise!GameEvent, ArmedVMs
  <2>. QED
    BY <2>6 DEF Promise!Next
<1>9. CASE EnterNative
  BY <1>9, PromisedEnterNative DEF Promise!Next
<1>10. CASE FilterPass
  BY <1>10, PromisedFilterPass DEF Promise!Next
<1>11. CASE FilterStop
  BY <1>11, PromisedReturn DEF FilterStop, Unswap, Promise!Next
<1>12. CASE BodyReturn
  BY <1>12, PromisedReturn DEF BodyReturn, Unswap, Promise!Next
<1>13. CASE EnterHook
  BY <1>13, PromisedEnterHook DEF Promise!Next
<1>14. CASE ModEvent
  BY <1>14, PromisedModEvent DEF Promise!Next
<1>15. CASE HookReturn
  BY <1>15, PromisedHookReturn DEF Promise!Next
<1>16. CASE ModScript
  <2>1. stack # <<>> /\ Top.phase \in {"filter", "handler"} /\ defaultVM \in VMs
    BY <1>16 DEF ModScript, IInv, TypeOK
  <2>2. Promise!In({"filter", "handler"})
    BY <2>1, PromisedTop, PromisedPhase DEF Promise!In
  <2>3. Promise!ModScript
    BY <1>16, <2>1, <2>2, PromisedScript DEF ModScript, Promise!ModScript, ArmedVMs
  <2>. QED
    BY <2>3 DEF Promise!Next
<1>17. CASE UNCHANGED vars
  BY <1>17 DEF vars, Promise!vars, Calls, CallOf, ArmedVMs
<1>. QED
  BY <1>1, <1>2, <1>3, <1>4, <1>5, <1>6, <1>7, <1>8, <1>9, <1>10, <1>11, <1>12, <1>13, <1>14,
     <1>15, <1>16, <1>17 DEF Next

LEMMA PromisedInit == Init => Promise!Init
<1> SUFFICES ASSUME Init PROVE Promise!Init
  OBVIOUS
<1>1. stack \in Seq(Frame) /\ stack = <<>>
  BY EmptySeq DEF Init
<1>2. Calls = <<>>
  BY <1>1, CallsOfStack
<1>3. ArmedVMs = {}
  BY DEF Init, ArmedVMs
<1>. QED
  BY <1>2, <1>3 DEF Init, Promise!Init

\* The game and the mod cannot tell the swapped closures of CallNative and HookNative, the
\* function kept in M2FixData and the debug hook that Hook takes away and gives back from
\* filters and handlers that the VM itself would call: for any VMs, natives and nesting.
THEOREM InterpositionTheorem == Spec => Interposition
<1>1. TypeOK /\ IInv /\ [Next]_vars => [Promise!Next]_(Promise!vars)
  BY PromisedStep
<1>. QED
  BY PromisedInit, <1>1, TypeCorrect, PTL DEF Spec, Interposition, Promise!Spec

=============================================================================
