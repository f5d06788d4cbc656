----------------------------- MODULE MCCompatFlag -----------------------------
(* The flag beside two flags that are the user's own.                      *)
EXTENDS CompatFlag, TLC

CONSTANTS RunAsAdmin, HighDpiAware

MCOthers == {RunAsAdmin, HighDpiAware}
Symmetry == Permutations(MCOthers)

\* Histories of starts that no failed access, no edit and no turn of the option disturbs.
Undisturbed == ~failed /\ (pc # "off" => ~edited)
OptionBetween == option' # option => pc \in {"off", "done"}
=============================================================================
