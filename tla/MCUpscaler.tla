------------------------------ MODULE MCUpscaler ------------------------------
(* A game with video memory in two textures, that releases and makes others. *)
EXTENDS Upscaler
=============================================================================
