--------------------------- MODULE MCScriptCallbacks ---------------------------
(* The two handlers share nothing, so that each is explored with the other *)
(* one at rest.                                                            *)
EXTENDS ScriptCallbacks

OtherAtRest == patches = <<>> \/ (LoadScript = {} /\ Calls = {} /\ excused = {})

Patch(o, n) == [offset |-> o, length |-> n]

\* In segments of 16: patches that are adjacent, one inside another one, two at one offset, one
\* in another segment, one at 0, one that is exempted, one without elements.
MCPatchLists == {
  <<Patch(18, 3), Patch(5, 2)>>,
  <<Patch(4, 3), Patch(5, 1), Patch(8, 2)>>,
  <<Patch(3, 1), Patch(35, 2), Patch(10, 2)>>,
  <<Patch(0, 3), Patch(1, 2), Patch(10, 2)>>,
  <<Patch(6, 0), Patch(2, 2)>>}

MCScripts == {"a", "b", "ab"}
MCKeys == {"a", "b"}
MCNames == [s \in MCScripts |-> IF s = "ab" THEN {"a", "b"} ELSE {s}]
=============================================================================
