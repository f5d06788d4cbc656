------------------------------ MODULE PsxMachine ------------------------------
(***************************************************************************)
(* The PlayStation's machine as the mod sees it: its modules, which the    *)
(* emulator loads and calls, and the geometry of the screen, which scripts *)
(* report at any time.                                                     *)
(***************************************************************************)
EXTENDS PsxModules, ScreenGeometry

vars == <<psxVars, geometryVars>>

Init == PsxInit /\ GeometryInit

Next ==
  \/ PsxNext /\ UNCHANGED geometryVars
  \/ GeometryNext /\ UNCHANGED psxVars

Spec == Init /\ [][Next]_vars
=============================================================================
