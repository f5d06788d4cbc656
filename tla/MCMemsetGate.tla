---------------------------- MODULE MCMemsetGate ----------------------------
(* MemsetGate with three game threads and two functions to hook.           *)
EXTENDS MemsetGate
=============================================================================
