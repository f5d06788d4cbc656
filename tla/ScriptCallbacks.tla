---------------------------- MODULE ScriptCallbacks ----------------------------
(* Two handlers of SQHook for the game's scripts, which share no state.    *)
EXTENDS RamPatch, LoadScript

vars == <<ramVars, loadVars>>

Init == RamPatchInit /\ LoadScriptInit

Next ==
  \/ RamPatchNext /\ UNCHANGED loadVars
  \/ LoadScriptNext /\ UNCHANGED ramVars

Spec == Init /\ [][Next]_vars

\* The variables of both handlers have their types.
TypeOK == RamPatchTypeOK /\ LoadScriptTypeOK
=============================================================================
