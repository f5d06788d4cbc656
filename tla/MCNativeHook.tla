---------------------------- MODULE MCNativeHook ----------------------------
(* NativeHookHistory with a root VM and a coroutine, a plain and a filtered*)
(* native, and closures enough for every debug hook that can be in use.    *)
EXTENDS NativeHookHistory, TLC
Symmetry == Permutations(DebugClosures)
=============================================================================
