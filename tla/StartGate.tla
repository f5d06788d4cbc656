------------------------------ MODULE StartGate ------------------------------
(***************************************************************************)
(* What the start-up handshake of M2Utils promises, without its locks: a   *)
(* latch that is opened once.  A game thread that calls the hooked memset  *)
(* arrives, and gets its call back only after the latch is open; while the *)
(* latch is open and somebody is inside, somebody gets through.            *)
(***************************************************************************)
CONSTANT Threads   \* The threads of the game.

VARIABLES
  open,     \* The mod's start-up is over.
  inside,   \* The threads in a call of the hooked memset.
  through   \* The threads that have got a call back at least once.

vars == <<open, inside, through>>

Init ==
  /\ open = FALSE
  /\ inside = {}
  /\ through = {}

Open ==
  /\ open' = TRUE
  /\ UNCHANGED <<inside, through>>

Arrive(t) ==
  /\ t \notin inside
  /\ inside' = inside \cup {t}
  /\ UNCHANGED <<open, through>>

Pass(t) ==
  /\ open
  /\ t \in inside
  /\ inside' = inside \ {t}
  /\ through' = through \cup {t}
  /\ UNCHANGED open

Next ==
  \/ Open
  \/ \E t \in Threads : Arrive(t) \/ Pass(t)

Safety == Init /\ [][Next]_vars

Spec == Safety /\ WF_vars(\E t \in Threads : Pass(t))
=============================================================================
