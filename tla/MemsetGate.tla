----------------------------- MODULE MemsetGate -----------------------------
(***************************************************************************)
(* The start-up of the mod (dllmain.cpp, M2Fix::Main, M2Utils::memset...). *)
(*                                                                         *)
(* The loader of the game attaches the DLL: that hooks the game's memset   *)
(* and starts the mod's thread.  The mod's thread installs every other     *)
(* hook while the game already runs, so the hooked memset holds the first  *)
(* game thread that calls it until the mod's thread is done: this thread   *)
(* sleeps on a condition variable with memsetHookMutex held, and everybody *)
(* else queues on that mutex.                                              *)
(*                                                                         *)
(* A hook is live as soon as InlineHook::create returns, and only then is  *)
(* it put in M2Hook::m_hooks, where its replacement function looks for the *)
(* original.  A replacement that runs in between invokes an empty hook.    *)
(***************************************************************************)
CONSTANTS
  Threads,   \* The threads of the game.
  Hooks,     \* The other game functions the mod's thread hooks.
  None       \* No thread, no copy.

Copies == {"single", "double"}   \* MGSM2Fix.asi and MGSM2Fix32.asi or ...64.asi

ASSUME GateAssumption ==
  /\ None \notin Threads \cup Copies
  /\ Threads \cap Copies = {}

VARIABLES
  files,          \* The copies of the mod installed next to the game.
  process,        \* "up" or "exited".
  attach,         \* Where each copy's DllMain is.
  main,           \* Where each copy's ThreadProc is.
  todo,           \* The functions Main has still to hook.
  hook,           \* The state of the hook of each of them.
  owner,          \* The copy whose memsetWait replaces the game's memset.
  memset,         \* The state of that hook.
  called,         \* memsetHookCalled of the owner.
  hookMutex,      \* The holder of memsetHookMutex.
  finished,       \* mainThreadFinished of each copy.
  finishedMutex,  \* The holder of mainThreadFinishedMutex.
  pc,             \* Where each game thread is in memsetWait.
  passed          \* The game threads that memsetWait has returned to.

modVars  == <<attach, main, todo, hook, owner, memset>>
gateVars == <<called, hookMutex, finished, finishedMutex, pc, passed>>
vars     == <<files, process, modVars, gateVars>>

HookState == {"absent", "live", "registered"}

Init ==
  /\ files \in (SUBSET Copies) \ {{}}
  /\ process = "up"
  /\ attach = [c \in Copies |-> "out"]
  /\ main = [c \in Copies |-> "none"]
  /\ todo = Hooks
  /\ hook = [h \in Hooks |-> "absent"]
  /\ owner = None
  /\ memset = "absent"
  /\ called = FALSE
  /\ hookMutex = None
  /\ finished = [c \in Copies |-> FALSE]
  /\ finishedMutex = None
  /\ pc = [t \in Threads |-> "idle"]
  /\ passed = {}

Duplicate == files = Copies

GateOpen == owner # None /\ finished[owner]

-----------------------------------------------------------------------------
(* DllMain of one copy after another: memsetHook, then CreateThread.       *)

\* The hook of memset goes live.  A second copy cannot find the signature, which
\* starts at the bytes the first copy's jump has overwritten.
AttachHook(c) ==
  /\ c \in files
  /\ \A d \in Copies : attach[d] \in {"out", "attached"}
  /\ attach[c] = "out"
  /\ owner = None
  /\ owner' = c
  /\ memset' = "live"
  /\ attach' = [attach EXCEPT ![c] = "hooking"]
  /\ UNCHANGED <<main, todo, hook>>

\* Faulty variant: a hook that could not be made is stored all the same.
AttachHookIgnored(c) ==
  /\ c \in files
  /\ \A d \in Copies : attach[d] \in {"out", "attached"}
  /\ attach[c] = "out"
  /\ attach' = [attach EXCEPT ![c] = "hooked"]
  /\ memset' = "registered"
  /\ UNCHANGED <<main, todo, hook, owner>>

\* The scan or InlineHook::create fails: Main goes on without the hook.
AttachHookFails(c) ==
  /\ c \in files
  /\ \A d \in Copies : attach[d] \in {"out", "attached"}
  /\ attach[c] = "out"
  /\ attach' = [attach EXCEPT ![c] = "hooked"]
  /\ UNCHANGED <<main, todo, hook, owner, memset>>

AttachRegister(c) ==
  /\ attach[c] = "hooking"
  /\ memset' = "registered"
  /\ attach' = [attach EXCEPT ![c] = "hooked"]
  /\ UNCHANGED <<main, todo, hook, owner>>

\* Faulty variant: the thread is created before the hook is stored.
AttachThreadEarly(c) ==
  /\ attach[c] \in {"hooking", "hooked"}
  /\ attach' = [attach EXCEPT ![c] = "attached"]
  /\ main' \in {main, [main EXCEPT ![c] = "check"]}
  /\ UNCHANGED <<todo, hook, owner, memset>>

\* CreateThread; when it fails DllMain returns and leaves the hook in place.
AttachThread(c) ==
  /\ attach[c] = "hooked"
  /\ attach' = [attach EXCEPT ![c] = "attached"]
  /\ main' \in {main, [main EXCEPT ![c] = "check"]}
  /\ UNCHANGED <<todo, hook, owner, memset>>

-----------------------------------------------------------------------------
(* ThreadProc: M2Fix::Main and memsetRelease.                              *)

\* Faulty variant: the duplicate is not looked for.
CheckModulesGoesOn(c) ==
  /\ main[c] = "check"
  /\ main' = [main EXCEPT ![c] = "start"]
  /\ UNCHANGED <<process, attach, todo, hook, owner, memset>>

\* With both files there, one copy sleeps for ever and the other ends the process.
CheckModules(c) ==
  /\ main[c] = "check"
  /\ \/ /\ Duplicate
        /\ c = "double"
        /\ process' = "exited"
        /\ UNCHANGED main
     \/ /\ Duplicate
        /\ c = "single"
        /\ main' = [main EXCEPT ![c] = "asleep"]
        /\ UNCHANGED process
     \/ /\ ~Duplicate
        /\ main' = [main EXCEPT ![c] = "start"]
        /\ UNCHANGED process
  /\ UNCHANGED <<attach, todo, hook, owner, memset>>

\* Logging and Patriots::Check may end the process; DetectGame may find no game.
Startup(c) ==
  /\ main[c] = "start"
  /\ \/ /\ process' = "exited"
        /\ UNCHANGED main
     \/ /\ main' \in {[main EXCEPT ![c] = s] : s \in {"install", "release"}}
        /\ UNCHANGED process
  /\ UNCHANGED <<attach, todo, hook, owner, memset>>

\* M2Hook::Hook: the scan or the hook may fail, and a hook that is made is live.
Install(c, h) ==
  /\ main[c] = "install"
  /\ h \in todo
  /\ todo' = todo \ {h}
  /\ \/ /\ hook' = [hook EXCEPT ![h] = "live"]
        /\ main' = [main EXCEPT ![c] = "register"]
     \/ UNCHANGED <<hook, main>>
  /\ UNCHANGED <<process, attach, owner, memset>>

\* m_hooks[function] = ...
Register(c, h) ==
  /\ main[c] = "register"
  /\ hook[h] = "live"
  /\ hook' = [hook EXCEPT ![h] = "registered"]
  /\ main' = [main EXCEPT ![c] = "install"]
  /\ UNCHANGED <<process, attach, todo, owner, memset>>

EndMain(c) ==
  /\ main[c] = "install"
  /\ todo = {}
  /\ main' = [main EXCEPT ![c] = "release"]
  /\ UNCHANGED <<process, attach, todo, hook, owner, memset>>

ModStep(c) ==
  \/ CheckModules(c)
  \/ Startup(c)
  \/ EndMain(c)
  \/ \E h \in Hooks : Install(c, h) \/ Register(c, h)

\* memsetRelease.  Only one copy ever gets here, so one finishedMutex is enough.
ReleaseLock(c) ==
  /\ main[c] = "release"
  /\ finishedMutex = None
  /\ finishedMutex' = c
  /\ main' = [main EXCEPT ![c] = "locked"]
  /\ UNCHANGED <<called, hookMutex, finished, pc, passed>>

SetFinished(c) ==
  /\ main[c] = "locked"
  /\ finished' = [finished EXCEPT ![c] = TRUE]
  /\ main' = [main EXCEPT ![c] = "notify"]
  /\ UNCHANGED <<called, hookMutex, finishedMutex, pc, passed>>

\* Faulty variant: nobody is notified.
NotifyNobody(c) ==
  /\ main[c] = "notify"
  /\ finishedMutex' = None
  /\ main' = [main EXCEPT ![c] = "done"]
  /\ UNCHANGED <<called, hookMutex, finished, pc, passed>>

\* notify_all, and the lock goes out of scope.
NotifyAll(c) ==
  /\ main[c] = "notify"
  /\ finishedMutex' = None
  /\ pc' = [t \in Threads |-> IF pc[t] = "sleep" THEN "wait" ELSE pc[t]]
  /\ main' = [main EXCEPT ![c] = "done"]
  /\ UNCHANGED <<called, hookMutex, finished, passed>>

ReleaseStep(c) == ReleaseLock(c) \/ SetFinished(c) \/ NotifyAll(c)

-----------------------------------------------------------------------------
(* memsetWait, in the game's threads.                                      *)

Call(t) ==
  /\ pc[t] = "idle"
  /\ memset # "absent"
  /\ pc' = [pc EXCEPT ![t] = "enter"]
  /\ UNCHANGED <<called, hookMutex, finished, finishedMutex, passed>>

\* Faulty variant: no memsetHookMutex.
LockHookMissing(t) ==
  /\ pc[t] = "enter"
  /\ hookMutex' = t
  /\ pc' = [pc EXCEPT ![t] = "test"]
  /\ UNCHANGED <<called, finished, finishedMutex, passed>>

LockHook(t) ==
  /\ pc[t] = "enter"
  /\ hookMutex = None
  /\ hookMutex' = t
  /\ pc' = [pc EXCEPT ![t] = "test"]
  /\ UNCHANGED <<called, finished, finishedMutex, passed>>

\* Faulty variant: the lock only covers the flag.
TestUnlocked(t) ==
  /\ pc[t] = "test"
  /\ called' = TRUE
  /\ hookMutex' = None
  /\ pc' = [pc EXCEPT ![t] = IF called \/ finished[owner] THEN "invoke" ELSE "wait"]
  /\ UNCHANGED <<finished, finishedMutex, passed>>

\* The first call waits, unless it sees mainThreadFinished, read with no lock.
Test(t) ==
  /\ pc[t] = "test"
  /\ called' = TRUE
  /\ pc' = [pc EXCEPT ![t] = IF called \/ finished[owner] THEN "invoke" ELSE "wait"]
  /\ UNCHANGED <<hookMutex, finished, finishedMutex, passed>>

LockFinished(t) ==
  /\ pc[t] = "wait"
  /\ finishedMutex = None
  /\ finishedMutex' = t
  /\ pc' = [pc EXCEPT ![t] = "predicate"]
  /\ UNCHANGED <<called, hookMutex, finished, passed>>

\* The predicate of wait, then either the wait is over or the thread gives up the
\* mutex and sleeps in one step.
TestPredicate(t) ==
  /\ pc[t] = "predicate"
  /\ finishedMutex' = None
  /\ pc' = [pc EXCEPT ![t] = IF finished[owner] THEN "invoke" ELSE "sleep"]
  /\ UNCHANGED <<called, hookMutex, finished, passed>>

\* Faulty variant: wait without its predicate.
WakeWithoutTest(t) ==
  /\ pc[t] = "sleep"
  /\ pc' = [pc EXCEPT ![t] = "invoke"]
  /\ UNCHANGED <<called, hookMutex, finished, finishedMutex, passed>>

\* A spurious wake-up: the predicate is tested again.
Wake(t) ==
  /\ pc[t] = "sleep"
  /\ pc' = [pc EXCEPT ![t] = "wait"]
  /\ UNCHANGED <<called, hookMutex, finished, finishedMutex, passed>>

\* Invoke calls the original memset and the lock of memsetWait goes out of scope.
Invoke(t) ==
  /\ pc[t] = "invoke"
  /\ hookMutex' = None
  /\ pc' = [pc EXCEPT ![t] = "idle"]
  /\ passed' = passed \cup {t}
  /\ UNCHANGED <<called, finished, finishedMutex>>

\* What a thread inside memsetWait does when it is given the processor and its lock.
GateStep(t) ==
  \/ LockHook(t)
  \/ Test(t)
  \/ LockFinished(t)
  \/ TestPredicate(t)
  \/ Invoke(t)

-----------------------------------------------------------------------------
Next ==
  /\ process = "up"
  /\ UNCHANGED files
  /\ \/ \E c \in Copies :
          \/ /\ AttachHook(c) \/ AttachHookFails(c) \/ AttachRegister(c) \/ AttachThread(c)
             /\ UNCHANGED <<process, gateVars>>
          \/ /\ ModStep(c)
             /\ UNCHANGED gateVars
          \/ /\ ReleaseStep(c)
             /\ UNCHANGED <<process, attach, todo, hook, owner, memset>>
     \/ \E t \in Threads :
          /\ Call(t) \/ GateStep(t) \/ Wake(t)
          /\ UNCHANGED <<process, modVars>>

Safety == Init /\ [][Next]_vars

\* The scheduler runs every thread of the process.  A thread that queues on a mutex
\* needs no more than that, but for mainThreadFinishedMutex in memsetRelease: spurious
\* wake-ups could take it again and again, so the mod's thread gets strong fairness.
\* Nothing is assumed of the loader, of new calls, or of wake-ups nobody sent.
Running(A) == process = "up" /\ A /\ UNCHANGED files
Fairness ==
  /\ \A c \in Copies :
       /\ WF_vars(Running(ModStep(c) /\ UNCHANGED gateVars))
       /\ SF_vars(Running(ReleaseStep(c) /\ UNCHANGED <<process, attach, todo, hook, owner, memset>>))
  /\ \A t \in Threads : WF_vars(Running(GateStep(t) /\ UNCHANGED <<process, modVars>>))

Spec == Safety /\ Fairness

-----------------------------------------------------------------------------
(* Properties.                                                             *)

\* Every variable has its type, memset is hooked exactly when a copy owns the hook,
\* and a thread is only ever inside memsetWait once it is hooked.
TypeOK ==
  /\ files \in SUBSET Copies
  /\ process \in {"up", "exited"}
  /\ attach \in [Copies -> {"out", "hooking", "hooked", "attached"}]
  /\ main \in [Copies -> {"none", "check", "asleep", "start", "install", "register",
                          "release", "locked", "notify", "done"}]
  /\ todo \in SUBSET Hooks
  /\ hook \in [Hooks -> HookState]
  /\ owner \in Copies \cup {None}
  /\ memset \in HookState
  /\ memset = "absent" <=> owner = None
  /\ called \in BOOLEAN
  /\ hookMutex \in Threads \cup {None}
  /\ finished \in [Copies -> BOOLEAN]
  /\ finishedMutex \in Threads \cup Copies \cup {None}
  /\ pc \in [Threads -> {"idle", "enter", "test", "wait", "predicate", "sleep", "invoke"}]
  /\ passed \in SUBSET Threads
  /\ owner = None => \A t \in Threads : pc[t] = "idle"

\* memsetWait (m2utils.cpp) holds the game back until the mod has started: once a
\* game thread has its memset back, memsetRelease has run and no function is left
\* hooked with its original not yet in m_hooks.
GateShut ==
  passed # {} => GateOpen /\ \A h \in Hooks : hook[h] # "live"

\* memsetWait never invokes its own hook before M2Hook::Hook has stored it, although
\* the hook is live first and the game may call memset in between: the wait covers it.
NoEmptyInvoke ==
  \A t \in Threads : pc[t] = "invoke" => memset = "registered"

\* CheckModules: when both copies are installed the game never gets past its first
\* hooked memset, whichever copy was loaded first and owns the hook.
NoDuplicateStart == Duplicate => passed = {}

\* At most one thread is past memsetHookMutex, asleep or not, and it holds it.
OneInside ==
  \A t \in Threads : pc[t] \notin {"idle", "enter"} => hookMutex = t

\* A thread that holds the game back gets its call back once the mod's thread has
\* been created, unless the process ends first: no wake-up is lost and the three
\* parties never wait for each other.
WaiterReturns ==
  \A t \in Threads :
    (hookMutex = t /\ ~Duplicate /\ owner # None /\ main[owner] # "none")
      ~> (hookMutex # t \/ process = "exited")

\* The handshake implements the one-shot latch of StartGate.
Gate == INSTANCE StartGate WITH
  open    <- GateOpen,
  inside  <- {t \in Threads : pc[t] # "idle"},
  through <- passed
GateSpec == Gate!Spec
=============================================================================
