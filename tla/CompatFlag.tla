------------------------------ MODULE CompatFlag ------------------------------
(***************************************************************************)
(* DisableWindowsFullscreenOptimization (mgs1.cpp): as the option says,    *)
(* every start of the game sets a flag in a registry value that belongs to *)
(* the user, or takes the flag back if a marker file says that an earlier  *)
(* start has set it.  The game may be killed between any two steps, each   *)
(* access may fail, and the user changes the option and, in the Properties *)
(* dialog, the value whenever he wants.                                    *)
(*                                                                         *)
(* A value is its flags and whether it begins with "~", which Windows puts *)
(* before them; no value is one without flags.                             *)
(***************************************************************************)
CONSTANTS
  Fso,    \* DISABLEDXMAXIMIZEDWINDOWEDMODE.
  Others  \* Compatibility flags that only the user sets.

ASSUME CompatFlagAssumption == Fso \notin Others

Value == {v \in [tilde : BOOLEAN, flags : SUBSET (Others \cup {Fso})] :
            v.flags = {} => ~v.tilde}
NoValue == [tilde |-> FALSE, flags |-> {}]

VARIABLES
  option,    \* bDisableWindowsFullscreenOptimization in the ini file.
  layer,     \* The registry value,
  owner,     \* and who has put Fso there: "nobody", "user", "mod".
  marker,    \* Whether the marker file exists.
  pc,        \* "off", or what the function does next; "done" when the game goes on.
  apply,     \* shouldApply.
  existed,   \* markerExists.
  value,     \* The value that the function works on.
  edited,    \* Whether the user has changed the value since it was last read, or since
             \* this start,
  failed,    \* an access has failed since this start,
  orphan     \* and there is no marker since a start was killed before it made it, or failed.

files == <<option, layer, owner, marker>>
locals == <<apply, existed, value>>
ghosts == <<edited, failed, orphan>>
vars == <<files, pc, locals, ghosts>>

Init ==
  /\ option \in BOOLEAN /\ marker = FALSE
  /\ layer \in Value /\ owner = IF Fso \in layer.flags THEN "user" ELSE "nobody"
  /\ pc = "off"
  /\ apply = FALSE /\ existed = FALSE /\ value = NoValue
  /\ edited = FALSE /\ failed = FALSE /\ orphan = FALSE

-----------------------------------------------------------------------------
(* The user and Windows.                                                   *)

SetOption ==
  /\ option' = ~option
  /\ UNCHANGED <<layer, owner, marker, pc, locals, ghosts>>

SetLayer(v, who) ==
  /\ layer' = v
  /\ owner' = IF Fso \in v.flags \cap layer.flags THEN owner
              ELSE IF Fso \in v.flags THEN who ELSE "nobody"

EditLayer(v) ==
  /\ v # layer /\ SetLayer(v, "user")
  /\ edited' = TRUE
  /\ UNCHANGED <<option, marker, pc, locals, failed, orphan>>

\* The game ends, or is killed.
Quit ==
  /\ pc # "off" /\ pc' = "off"
  /\ orphan' = (orphan \/ (pc = "mark" /\ ~marker))
  /\ UNCHANGED <<files, locals, edited, failed>>

-----------------------------------------------------------------------------
(* DisableWindowsFullscreenOptimization.                                   *)

\* shouldApply and shouldRemove.
Start ==
  /\ pc = "off"
  /\ apply' = option /\ existed' = marker
  /\ edited' = FALSE /\ failed' = FALSE
  /\ pc' = IF option \/ marker THEN "open" ELSE "done"
  /\ UNCHANGED <<files, value, orphan>>

OpenKeyFails ==
  /\ pc = "open" /\ pc' = "done"
  /\ failed' = TRUE
  /\ UNCHANGED <<files, locals, edited, orphan>>

\* The first query, for the size.  A failure is taken for no value.
QuerySize ==
  /\ pc = "open"
  /\ \/ layer # NoValue /\ pc' = "query" /\ UNCHANGED <<edited, failed>>
     \/ layer = NoValue /\ pc' = "write" /\ edited' = FALSE /\ UNCHANGED failed
     \/ pc' = "write" /\ failed' = TRUE /\ UNCHANGED edited
  /\ value' = NoValue
  /\ UNCHANGED <<files, apply, existed, orphan>>

\* The second query.  If it fails, as when the value has grown since, the value stays empty.
QueryData ==
  /\ pc = "query" /\ pc' = "write"
  /\ \/ value' = layer /\ edited' = FALSE /\ UNCHANGED failed
     \/ value' = NoValue /\ failed' = TRUE /\ UNCHANGED edited
  /\ UNCHANGED <<files, apply, existed, orphan>>

\* Faulty variant: the flag is only added behind a "~".
AppliedToTilde(v) ==
  [tilde |-> v.tilde \/ v.flags # {}, flags |-> IF v.flags = {} THEN {} ELSE v.flags \cup {Fso}]

Applied(v) == [tilde |-> v.tilde \/ v.flags # {}, flags |-> v.flags \cup {Fso}]

\* Faulty variant: a "~" that is left alone stays.
RevertedToTilde(v) == [v EXCEPT !.flags = @ \ {Fso}]

Reverted(v) ==
  IF v.flags \subseteq {Fso} THEN NoValue ELSE [v EXCEPT !.flags = @ \ {Fso}]

\* Faulty variant: the value is written or deleted whether it has changed or not.
WriteUnmodified ==
  /\ pc = "write" /\ pc' = "mark"
  /\ \/ SetLayer(IF apply THEN Applied(value) ELSE Reverted(value), "mod") /\ UNCHANGED failed
     \/ failed' = TRUE /\ UNCHANGED <<layer, owner>>
  /\ UNCHANGED <<option, marker, locals, edited, orphan>>

\* The value is written, or deleted if nothing is left, or left alone if nothing has changed.
\* The marker is kept up to date even if this fails.
Write ==
  /\ pc = "write" /\ pc' = "mark"
  /\ LET new == IF apply THEN Applied(value) ELSE Reverted(value)
     IN  \/ new # value /\ SetLayer(new, "mod") /\ UNCHANGED failed
         \/ new # value /\ failed' = TRUE /\ UNCHANGED <<layer, owner>>
         \/ new = value /\ UNCHANGED <<layer, owner, failed>>
  /\ UNCHANGED <<option, marker, locals, edited, orphan>>

\* Faulty variant: a marker that is there is removed.
MarkToggled ==
  /\ pc = "mark" /\ pc' = "done"
  /\ \/ marker' = ~existed /\ UNCHANGED failed
     \/ failed' = TRUE /\ UNCHANGED marker
  /\ orphan' = (~marker' /\ (orphan \/ failed'))
  /\ UNCHANGED <<option, layer, owner, locals, edited>>

\* The marker is made if there was none, or removed.
Mark ==
  /\ pc = "mark" /\ pc' = "done"
  /\ \/ marker' = apply /\ UNCHANGED failed
     \/ apply # existed /\ failed' = TRUE /\ UNCHANGED marker
  /\ orphan' = (~marker' /\ (orphan \/ failed'))
  /\ UNCHANGED <<option, layer, owner, locals, edited>>

-----------------------------------------------------------------------------
Program == Start \/ OpenKeyFails \/ QuerySize \/ QueryData \/ Write \/ Mark

Next ==
  \/ SetOption
  \/ \E v \in Value : EditLayer(v)
  \/ Quit
  \/ Program

Spec == Init /\ [][Next]_vars

-----------------------------------------------------------------------------
(* Properties.                                                             *)

\* Every variable has its type: Windows is never left a value without flags.
TypeOK ==
  /\ option \in BOOLEAN /\ marker \in BOOLEAN
  /\ layer \in Value /\ value \in Value
  /\ owner \in {"nobody", "user", "mod"} /\ (owner = "nobody" <=> Fso \notin layer.flags)
  /\ pc \in {"off", "open", "query", "write", "mark", "done"}
  /\ apply \in BOOLEAN /\ existed \in BOOLEAN
  /\ edited \in BOOLEAN /\ failed \in BOOLEAN /\ orphan \in BOOLEAN

\* A start that nothing disturbs does what the option says, whatever an earlier start, that
\* was killed or failed at any point, has left: with the option on the flag is set and the
\* marker there, with the option off there is no marker and no flag that it stood for.
Settled ==
  pc = "done" /\ ~edited /\ ~failed =>
    /\ marker = apply
    /\ apply => Fso \in layer.flags
    /\ ~apply /\ existed => Fso \notin layer.flags

\* The function leaves the user's other flags alone, unless he edits the value after it was
\* read, or Windows fails to give it and the option is on: then it is taken for empty and
\* written anew. With the option off a value that could not be read is not written.
OthersKept ==
  [][pc = "write" /\ pc' = "mark" /\ ~edited /\ (failed => ~apply) =>
       layer'.flags \cap Others = layer.flags \cap Others]_vars

\* A flag that the mod has set has its marker, by which a start with the option off knows
\* that it has to take it back. Excepted is one set by a start that was killed before it
\* made the marker, or kept by one of whose accesses one failed, until a start with the
\* option on makes up for it.
Marked == owner = "mod" /\ ~marker => orphan \/ (pc = "mark" /\ apply)

\* "Only remove if we're the ones who initially applied the compatibility setting."
RemovesOwn ==
  [][pc = "write" /\ pc' = "mark" /\ owner = "user" => Fso \in layer'.flags]_vars
=============================================================================
