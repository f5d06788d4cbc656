---------------------------- MODULE MCConfigLookup ----------------------------
(* Addresses of five bits: entries of 5 and buffers of 6, so that 32 is no *)
(* multiple of the stride either.                                          *)
EXTENDS ConfigLookup
=============================================================================
