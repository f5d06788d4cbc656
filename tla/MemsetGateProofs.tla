-------------------------- MODULE MemsetGateProofs --------------------------
(* Safety of the start-up handshake, for any threads and hooks.            *)
EXTENDS MemsetGate, TLAPS

(***************************************************************************)
(* The inductive invariant.  Main past CheckModules means a single copy,   *)
(* so there is one ThreadProc that installs hooks, one at a time, and only *)
(* it can release; memsetHookCalled with nobody waiting means the wait is  *)
(* over, which only the copy that owns the hook can have brought about.    *)
(***************************************************************************)
Started == {"start", "install", "register", "release", "locked", "notify", "done"}
Waiting == {"wait", "predicate", "sleep"}

StageInv ==
  /\ \A c \in Copies : attach[c] # "out" => c \in files
  /\ \A c \in Copies : main[c] # "none" => c \in files /\ attach[c] = "attached"
  /\ \A c \in Copies : main[c] \in Started => ~Duplicate
  /\ \A c \in Copies : finished[c] => main[c] \in {"notify", "done"}

HookInv ==
  /\ \A h \in Hooks : hook[h] = "live" => \E c \in Copies : main[c] = "register"
  /\ \A g, h \in Hooks : hook[g] = "live" /\ hook[h] = "live" => g = h

OwnerInv ==
  \A c \in Copies :
    /\ attach[c] = "hooking" => owner = c
    /\ owner = c => attach[c] # "out"
    /\ owner = c /\ attach[c] \in {"hooked", "attached"} => memset = "registered"

CallInv ==
  /\ OneInside
  /\ hookMutex # None => pc[hookMutex] \notin {"idle", "enter"}
  /\ called => GateOpen \/ \E t \in Threads : pc[t] \in Waiting
  /\ \A t \in Threads : pc[t] = "invoke" => GateOpen
  /\ passed # {} => GateOpen

IInv == TypeOK /\ StageInv /\ HookInv /\ OwnerInv /\ CallInv

\* Only one copy gets past CheckModules.
LEMMA OneStarted ==
  TypeOK /\ StageInv =>
    \A c, d \in Copies : main[c] \in Started /\ main[d] \in Started => c = d
<1> SUFFICES ASSUME TypeOK, StageInv,
                    NEW c \in Copies, NEW d \in Copies,
                    main[c] \in Started, main[d] \in Started, c # d
             PROVE  FALSE
  OBVIOUS
<1>1. c \in files /\ d \in files /\ ~Duplicate
  BY DEF StageInv, Started
<1>2. Copies \subseteq files
  BY <1>1 DEF Copies
<1>3. files = Copies
  BY <1>2 DEF TypeOK
<1>. QED
  BY <1>1, <1>3 DEF Duplicate

\* Every step keeps the types.
LEMMA TypeStep == IInv /\ Next => TypeOK'
<1> SUFFICES ASSUME IInv, Next PROVE TypeOK'
  OBVIOUS
<1> USE GateAssumption DEF IInv, TypeOK, Copies, HookState, OwnerInv, CallInv, OneInside
<1>1. ASSUME NEW c \in Copies, AttachHook(c), UNCHANGED <<files, process, gateVars>>
      PROVE  TypeOK'
  BY <1>1 DEF AttachHook, gateVars
<1>2. ASSUME NEW c \in Copies, AttachHookFails(c), UNCHANGED <<files, process, gateVars>>
      PROVE  TypeOK'
  BY <1>2 DEF AttachHookFails, gateVars
<1>3. ASSUME NEW c \in Copies, AttachRegister(c), UNCHANGED <<files, process, gateVars>>
      PROVE  TypeOK'
  BY <1>3 DEF AttachRegister, gateVars
<1>4. ASSUME NEW c \in Copies, AttachThread(c), UNCHANGED <<files, process, gateVars>>
      PROVE  TypeOK'
  BY <1>4 DEF AttachThread, gateVars
<1>5. ASSUME NEW c \in Copies, CheckModules(c), UNCHANGED <<files, gateVars>>
      PROVE  TypeOK'
  BY <1>5 DEF CheckModules, gateVars
<1>6. ASSUME NEW c \in Copies, Startup(c), UNCHANGED <<files, gateVars>>
      PROVE  TypeOK'
  BY <1>6 DEF Startup, gateVars
<1>7. ASSUME NEW c \in Copies, EndMain(c), UNCHANGED <<files, gateVars>>
      PROVE  TypeOK'
  BY <1>7 DEF EndMain, gateVars
<1>8. ASSUME NEW c \in Copies, NEW h \in Hooks, Install(c, h), UNCHANGED <<files, gateVars>>
      PROVE  TypeOK'
  BY <1>8 DEF Install, gateVars
<1>9. ASSUME NEW c \in Copies, NEW h \in Hooks, Register(c, h), UNCHANGED <<files, gateVars>>
      PROVE  TypeOK'
  BY <1>9 DEF Register, gateVars
<1>10. ASSUME NEW c \in Copies, ReleaseLock(c), UNCHANGED <<files, process, attach, todo, hook, owner, memset>>
      PROVE  TypeOK'
  BY <1>10 DEF ReleaseLock
<1>11. ASSUME NEW c \in Copies, SetFinished(c), UNCHANGED <<files, process, attach, todo, hook, owner, memset>>
      PROVE  TypeOK'
  BY <1>11 DEF SetFinished
<1>12. ASSUME NEW c \in Copies, NotifyAll(c), UNCHANGED <<files, process, attach, todo, hook, owner, memset>>
      PROVE  TypeOK'
  BY <1>12 DEF NotifyAll
<1>13. ASSUME NEW t \in Threads, Call(t), UNCHANGED <<files, process, modVars>>
      PROVE  TypeOK'
  BY <1>13 DEF Call, modVars
<1>14. ASSUME NEW t \in Threads, LockHook(t), UNCHANGED <<files, process, modVars>>
      PROVE  TypeOK'
  BY <1>14 DEF LockHook, modVars
<1>15. ASSUME NEW t \in Threads, Test(t), UNCHANGED <<files, process, modVars>>
      PROVE  TypeOK'
  BY <1>15 DEF Test, modVars
<1>16. ASSUME NEW t \in Threads, LockFinished(t), UNCHANGED <<files, process, modVars>>
      PROVE  TypeOK'
  BY <1>16 DEF LockFinished, modVars
<1>17. ASSUME NEW t \in Threads, TestPredicate(t), UNCHANGED <<files, process, modVars>>
      PROVE  TypeOK'
  BY <1>17 DEF TestPredicate, modVars
<1>18. ASSUME NEW t \in Threads, Invoke(t), UNCHANGED <<files, process, modVars>>
      PROVE  TypeOK'
  BY <1>18 DEF Invoke, modVars
<1>19. ASSUME NEW t \in Threads, Wake(t), UNCHANGED <<files, process, modVars>>
      PROVE  TypeOK'
  BY <1>19 DEF Wake, modVars
<1> HIDE DEF TypeOK
<1>20. QED
  BY <1>1, <1>2, <1>3, <1>4, <1>5, <1>6, <1>7, <1>8, <1>9, <1>10, <1>11, <1>12, <1>13, <1>14, <1>15, <1>16, <1>17, <1>18, <1>19 DEF Next, ModStep, ReleaseStep, GateStep

\* Every step keeps what is known of the copies' start-up.
LEMMA StageStep == IInv /\ Next => StageInv'
<1> SUFFICES ASSUME IInv, Next PROVE StageInv'
  OBVIOUS
<1> USE DEF IInv, TypeOK, StageInv, Copies, Started, Duplicate
<1>1. ASSUME NEW c \in Copies, AttachHook(c) \/ AttachHookFails(c) \/ AttachRegister(c),
             UNCHANGED <<files, gateVars>>
      PROVE  StageInv'
  BY <1>1 DEF AttachHook, AttachHookFails, AttachRegister, gateVars
<1>2. ASSUME NEW c \in Copies, AttachThread(c), UNCHANGED <<files, gateVars>>
      PROVE  StageInv'
  BY <1>2 DEF AttachThread, gateVars
<1>3. ASSUME NEW c \in Copies, ModStep(c), UNCHANGED <<files, gateVars>>
      PROVE  StageInv'
  BY <1>3 DEF ModStep, CheckModules, Startup, EndMain, Install, Register, gateVars
<1>4. ASSUME NEW c \in Copies, ReleaseStep(c), UNCHANGED <<files, attach>>
      PROVE  StageInv'
  BY <1>4 DEF ReleaseStep, ReleaseLock, SetFinished, NotifyAll
<1>5. ASSUME NEW t \in Threads, Call(t) \/ GateStep(t) \/ Wake(t), UNCHANGED <<files, modVars>>
      PROVE  StageInv'
  BY <1>5 DEF Call, Wake, GateStep, LockHook, Test, LockFinished, TestPredicate, Invoke, modVars
<1> HIDE DEF StageInv
<1>. QED
  BY <1>1, <1>2, <1>3, <1>4, <1>5 DEF Next, modVars

\* Every step keeps at most one hook live and not stored, and Main about to store it.
LEMMA HookStep == IInv /\ Next => HookInv'
<1> SUFFICES ASSUME IInv, Next PROVE HookInv'
  OBVIOUS
<1> USE DEF IInv, TypeOK, StageInv, HookInv, Copies, HookState
<1>1. ASSUME NEW c \in Copies, NEW h \in Hooks, Install(c, h)
      PROVE  HookInv'
  <2>1. \A g \in Hooks : hook[g] # "live"
    BY <1>1, OneStarted DEF Install, Started
  <2>. QED
    BY <1>1, <2>1 DEF Install
<1>2. ASSUME NEW c \in Copies, NEW h \in Hooks, Register(c, h)
      PROVE  HookInv'
  BY <1>2 DEF Register
<1>3. ASSUME NEW c \in Copies, UNCHANGED hook,
             AttachThread(c) \/ CheckModules(c) \/ Startup(c) \/ EndMain(c) \/ ReleaseStep(c)
      PROVE  HookInv'
  BY <1>3 DEF AttachThread, CheckModules, Startup, EndMain, ReleaseStep, ReleaseLock,
              SetFinished, NotifyAll
<1>4. ASSUME UNCHANGED <<main, hook>>
      PROVE  HookInv'
  BY <1>4
<1> HIDE DEF HookInv
<1>. QED
  BY <1>1, <1>2, <1>3, <1>4
  DEF Next, ModStep, modVars, AttachHook, AttachHookFails, AttachRegister, AttachThread,
      CheckModules, Startup, EndMain

\* Every step keeps memset's hook stored once its copy is past memsetHook.
LEMMA OwnerStep == IInv /\ Next => OwnerInv'
<1> SUFFICES ASSUME IInv, Next PROVE OwnerInv'
  OBVIOUS
<1> USE GateAssumption DEF IInv, TypeOK, OwnerInv, Copies, HookState
<1>1. ASSUME NEW c \in Copies,
             AttachHook(c) \/ AttachHookFails(c) \/ AttachRegister(c) \/ AttachThread(c)
      PROVE  OwnerInv'
  BY <1>1 DEF AttachHook, AttachHookFails, AttachRegister, AttachThread
<1>2. ASSUME UNCHANGED <<attach, owner, memset>>
      PROVE  OwnerInv'
  BY <1>2
<1> HIDE DEF OwnerInv
<1>. QED
  BY <1>1, <1>2
  DEF Next, ModStep, modVars, CheckModules, Startup, EndMain, Install, Register

\* Every step keeps memsetHookMutex exclusive and the gate shut.
LEMMA CallStep == IInv /\ Next => CallInv'
<1> SUFFICES ASSUME IInv, Next PROVE CallInv'
  OBVIOUS
<1> USE GateAssumption
    DEF IInv, TypeOK, StageInv, OwnerInv, CallInv, OneInside, Copies, Waiting, GateOpen
<1>1. ASSUME NEW c \in Copies, AttachHook(c), UNCHANGED gateVars
      PROVE  CallInv'
  BY <1>1 DEF AttachHook, gateVars
<1>2. ASSUME UNCHANGED <<gateVars, owner>>
      PROVE  CallInv'
  BY <1>2 DEF gateVars
<1>3. ASSUME NEW c \in Copies, ReleaseLock(c) \/ SetFinished(c), UNCHANGED owner
      PROVE  CallInv'
  BY <1>3 DEF ReleaseLock, SetFinished
<1>4. ASSUME NEW c \in Copies, NotifyAll(c), UNCHANGED owner
      PROVE  CallInv'
  BY <1>4 DEF NotifyAll
<1>5. ASSUME NEW t \in Threads, Call(t), UNCHANGED modVars
      PROVE  CallInv'
  BY <1>5 DEF Call, modVars
<1>6. ASSUME NEW t \in Threads, LockHook(t), UNCHANGED modVars
      PROVE  CallInv'
  BY <1>6 DEF LockHook, modVars
<1>7. ASSUME NEW t \in Threads, Test(t), UNCHANGED modVars
      PROVE  CallInv'
  BY <1>7 DEF Test, modVars
<1>8. ASSUME NEW t \in Threads, LockFinished(t) \/ TestPredicate(t) \/ Wake(t),
             UNCHANGED modVars
      PROVE  CallInv'
  BY <1>8 DEF LockFinished, TestPredicate, Wake, modVars
<1>9. ASSUME NEW t \in Threads, Invoke(t), UNCHANGED modVars
      PROVE  CallInv'
  BY <1>9 DEF Invoke, modVars
<1> HIDE DEF CallInv
<1>. QED
  BY <1>1, <1>2, <1>3, <1>4, <1>5, <1>6, <1>7, <1>8, <1>9
  DEF Next, ModStep, ReleaseStep, GateStep, modVars, AttachHookFails, AttachRegister,
      AttachThread, CheckModules, Startup, EndMain, Install, Register

-----------------------------------------------------------------------------
LEMMA InitIInv == Init => IInv
<1> SUFFICES ASSUME Init PROVE IInv
  OBVIOUS
<1> USE GateAssumption DEF Init
<1>1. TypeOK
  BY DEF TypeOK, HookState
<1>2. StageInv
  BY DEF StageInv, Started
<1>3. HookInv /\ OwnerInv
  BY DEF HookInv, OwnerInv, Copies
<1>4. CallInv
  BY DEF CallInv, OneInside, GateOpen
<1>. QED
  BY <1>1, <1>2, <1>3, <1>4 DEF IInv

LEMMA StutterIInv == IInv /\ UNCHANGED vars => IInv'
BY DEF vars, modVars, gateVars, IInv, TypeOK, StageInv, HookInv, OwnerInv, CallInv,
       OneInside, GateOpen, Duplicate

\* Every variable of the start-up keeps its type, and memset is replaced exactly
\* when a copy owns the hook (M2Hook::Hook, m2hook.h); with it, the invariant that
\* the other results rest on.
THEOREM TypeCorrect == Safety => [](TypeOK /\ IInv)
<1>1. IInv /\ [Next]_vars => IInv'
  BY TypeStep, StageStep, HookStep, OwnerStep, CallStep, StutterIInv DEF IInv
<1>2. IInv => TypeOK
  BY DEF IInv
<1>. QED
  BY InitIInv, <1>1, <1>2, PTL DEF Safety

\* memsetWait gives no game thread its memset back before memsetRelease has run and
\* every hook that was made is stored in m_hooks.
THEOREM GateShutTheorem == Safety => []GateShut
<1>1. IInv => GateShut
  <2> SUFFICES ASSUME IInv, passed # {} PROVE GateOpen /\ \A h \in Hooks : hook[h] # "live"
    BY DEF GateShut
  <2>1. GateOpen
    BY DEF IInv, CallInv
  <2>2. owner \in Copies /\ main[owner] \in {"notify", "done"}
    BY <2>1, GateAssumption DEF IInv, StageInv, TypeOK, GateOpen
  <2>3. \A c \in Copies : main[c] # "register"
    BY <2>2, OneStarted DEF IInv, Started
  <2>. QED
    BY <2>1, <2>3 DEF IInv, HookInv
<1>. QED
  BY <1>1, TypeCorrect, PTL

\* memsetWait never invokes its own hook while it is live and not yet stored.
THEOREM NoEmptyInvokeTheorem == Safety => []NoEmptyInvoke
<1>1. IInv => NoEmptyInvoke
  <2> SUFFICES ASSUME IInv, NEW t \in Threads, pc[t] = "invoke" PROVE memset = "registered"
    BY DEF NoEmptyInvoke
  <2>1. owner \in Copies /\ main[owner] \in {"notify", "done"}
    BY GateAssumption DEF IInv, CallInv, StageInv, TypeOK, GateOpen
  <2>. QED
    BY <2>1 DEF IInv, StageInv, OwnerInv
<1>. QED
  BY <1>1, TypeCorrect, PTL

\* With both copies installed (CheckModules) no game thread gets its memset back.
THEOREM NoDuplicateStartTheorem == Safety => []NoDuplicateStart
<1>1. IInv => NoDuplicateStart
  BY GateAssumption DEF IInv, CallInv, StageInv, TypeOK, GateOpen, NoDuplicateStart, Started
<1>. QED
  BY <1>1, TypeCorrect, PTL

\* Nobody is inside memsetWait but the one that holds memsetHookMutex (m2utils.cpp:223-238).
THEOREM OneInsideTheorem == Safety => []OneInside
<1>1. IInv => OneInside
  BY DEF IInv, CallInv
<1>. QED
  BY <1>1, TypeCorrect, PTL

-----------------------------------------------------------------------------
(* The handshake implements the latch: every step is one of the latch's or *)
(* leaves it alone.                                                        *)

LEMMA GateInit == Init => Gate!Init
BY DEF Init, Gate!Init, GateOpen

LEMMA GateStepRefines == IInv /\ Next => [Gate!Next]_(Gate!vars)
<1> SUFFICES ASSUME IInv, Next PROVE [Gate!Next]_(Gate!vars)
  OBVIOUS
<1> DEFINE in == {t \in Threads : pc[t] # "idle"}
<1> USE GateAssumption DEF IInv, TypeOK, GateOpen
<1>1. ASSUME UNCHANGED <<gateVars, owner>>
      PROVE  UNCHANGED Gate!vars
  BY <1>1 DEF gateVars, Gate!vars
<1>2. ASSUME NEW c \in Copies, AttachHook(c), UNCHANGED gateVars
      PROVE  UNCHANGED Gate!vars
  BY <1>2 DEF AttachHook, gateVars, Gate!vars, StageInv, Copies
<1>3. ASSUME NEW c \in Copies, ReleaseLock(c) \/ NotifyAll(c), UNCHANGED owner
      PROVE  UNCHANGED Gate!vars
  <2>1. \A t \in Threads : pc'[t] = "idle" <=> pc[t] = "idle"
    BY <1>3 DEF ReleaseLock, NotifyAll
  <2>. QED
    BY <1>3, <2>1 DEF ReleaseLock, NotifyAll, Gate!vars
<1>4. ASSUME NEW c \in Copies, SetFinished(c), UNCHANGED owner
      PROVE  [Gate!Open]_(Gate!vars)
  BY <1>4 DEF SetFinished, Gate!Open, Gate!vars
<1>5. ASSUME NEW t \in Threads, Call(t), UNCHANGED modVars
      PROVE  Gate!Arrive(t)
  BY <1>5 DEF Call, modVars, Gate!Arrive
<1>6. ASSUME NEW t \in Threads, UNCHANGED modVars,
             LockHook(t) \/ Test(t) \/ LockFinished(t) \/ TestPredicate(t) \/ Wake(t)
      PROVE  UNCHANGED Gate!vars
  <2>1. \A s \in Threads : pc'[s] = "idle" <=> pc[s] = "idle"
    BY <1>6 DEF LockHook, Test, LockFinished, TestPredicate, Wake
  <2>2. UNCHANGED <<owner, finished, passed>>
    BY <1>6 DEF LockHook, Test, LockFinished, TestPredicate, Wake, modVars
  <2>. QED
    BY <2>1, <2>2 DEF Gate!vars
<1>7. ASSUME NEW t \in Threads, Invoke(t), UNCHANGED modVars
      PROVE  Gate!Pass(t)
  BY <1>7 DEF Invoke, modVars, Gate!Pass, CallInv
<1>8. ASSUME NEW c \in Copies,
             AttachHookFails(c) \/ AttachRegister(c) \/ AttachThread(c) \/ ModStep(c),
             UNCHANGED gateVars
      PROVE  UNCHANGED Gate!vars
  BY <1>1, <1>8 DEF AttachHookFails, AttachRegister, AttachThread, ModStep, CheckModules,
                    Startup, EndMain, Install, Register
<1> HIDE DEF IInv, TypeOK, GateOpen
<1>. QED
  BY <1>2, <1>3, <1>4, <1>5, <1>6, <1>7, <1>8
  DEF Next, ReleaseStep, GateStep, modVars, Gate!Next

\* Start-up implements the one-shot latch: no thread gets through before it is open,
\* it never shuts again, and nobody gets through that did not arrive (memsetWait).
THEOREM LatchTheorem == Safety => Gate!Safety
<1>1. IInv /\ UNCHANGED vars => UNCHANGED Gate!vars
  BY DEF vars, modVars, gateVars, Gate!vars, GateOpen
<1>2. IInv /\ [Next]_vars => [Gate!Next]_(Gate!vars)
  BY <1>1, GateStepRefines
<1>. QED
  BY GateInit, <1>2, TypeCorrect, PTL DEF Safety, Gate!Safety
=============================================================================
