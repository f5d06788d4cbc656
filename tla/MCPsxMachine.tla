----------------------------- MODULE MCPsxMachine -----------------------------
(* Two user modules that share an address, a third with the id of one of   *)
(* them and its address in both segments, two kernel modules that share a  *)
(* vector, and a system module; a screen of three sizes, a minimised       *)
(* window and one without width.                                           *)
EXTENDS PsxMachine

Low(l) == [kseg |-> FALSE, at |-> l]
High(l) == [kseg |-> TRUE, at |-> l]

MCModules == 1 .. 6
MCKind == <<"user", "kernel", "user", "kernel", "system", "user">>
MCAccelerator == <<10, 0, 11, 0, 0, 11>>
MCTable == <<{High(1), Low(2)}, {Low(1), Low(2)}, {High(1), High(2)}, {Low(2)}, {}, {High(1), Low(1)}>>
MCHookTable ==
  <<{High(1), Low(2)}, {Low(1), Low(2)}, {High(1)}, {Low(1), Low(2)}, {}, {High(1), Low(1)}>>
MCMainTable == <<{High(1)}, {}, {High(1)}, {}, {}, {}>>

MCBounds == {<<0, 0>>, <<16, 9>>, <<0, 5>>}
MCModes == {3, 7}
=============================================================================
