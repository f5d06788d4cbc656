--------------------------- MODULE CompatFlagProofs ---------------------------
(* Proofs about CompatFlag, for any set of flags.                          *)
EXTENDS CompatFlag, TLAPS

Running == {"open", "query", "write", "mark"}

\* The function only goes on with the option on, or with a marker.
MarkerInv ==
  pc \in Running => /\ marker = existed
                    /\ apply \/ existed

\* A value that was read while the flag was the mod's has the flag, and is written without it
\* before the marker is removed.
OwnerInv ==
  /\ pc = "write" /\ owner = "mod" /\ ~failed => Fso \in value.flags
  /\ pc = "mark" /\ ~apply /\ ~failed => owner # "mod"

\* What a start that nothing has disturbed has reached, and what one has in hand whose value
\* could not be read.
ProgressInv ==
  /\ pc \in {"open", "query"} => ~failed
  /\ pc = "write" /\ failed => value = NoValue
  /\ ~edited /\ ~failed =>
       /\ pc = "query" => value = NoValue
       /\ pc = "write" => value = layer
       /\ pc = "mark" => (apply <=> Fso \in layer.flags)

IInv == TypeOK /\ MarkerInv /\ OwnerInv /\ ProgressInv /\ Settled /\ Marked

\* Windows is never left a value without flags.
LEMMA ValueLemma ==
  ASSUME NEW v \in Value
  PROVE  /\ NoValue \in Value
         /\ Applied(v) \in Value /\ Fso \in Applied(v).flags
         /\ Reverted(v) \in Value /\ Fso \notin Reverted(v).flags
BY CompatFlagAssumption DEF Value, NoValue, Applied, Reverted

\* Neither of them touches the other flags.
LEMMA OthersLemma ==
  ASSUME NEW v \in Value
  PROVE  /\ Applied(v).flags \cap Others = v.flags \cap Others
         /\ Reverted(v).flags \cap Others = v.flags \cap Others
BY CompatFlagAssumption DEF Value, NoValue, Applied, Reverted

LEMMA NoValueLemma == NoValue \in Value
BY DEF NoValue, Value

LEMMA InitLemma == Init => IInv
BY NoValueLemma DEF Init, IInv, TypeOK, MarkerInv, OwnerInv, ProgressInv, Settled, Marked,
         Running

LEMMA NextLemma == IInv /\ [Next]_vars => IInv'
<1> SUFFICES ASSUME IInv, [Next]_vars PROVE IInv'
  OBVIOUS
<1> USE DEF IInv, TypeOK
<1>1. CASE SetOption
  BY <1>1 DEF SetOption, locals, ghosts, MarkerInv, OwnerInv, ProgressInv, Settled, Marked,
         Running
<1>2. ASSUME NEW v \in Value, EditLayer(v) PROVE IInv'
  BY <1>2 DEF EditLayer, SetLayer, locals, MarkerInv, OwnerInv, ProgressInv, Settled, Marked,
         Running
<1>3. CASE Quit
  BY <1>3 DEF Quit, files, locals, ghosts, MarkerInv, OwnerInv, ProgressInv, Settled, Marked,
         Running
<1>4. CASE Start
  BY <1>4 DEF Start, files, MarkerInv, OwnerInv, ProgressInv, Settled, Marked,
         Running
<1>5. CASE OpenKeyFails
  BY <1>5 DEF OpenKeyFails, files, locals, MarkerInv, OwnerInv, ProgressInv, Settled, Marked,
         Running
<1>6. CASE QuerySize
  <2>1. layer = NoValue => owner = "nobody"
    BY DEF NoValue
  <2>2. NoValue \in Value
    BY NoValueLemma
  <2>3. TypeOK'
    BY <1>6, <2>2 DEF QuerySize, files
  <2>4. OwnerInv' /\ ProgressInv' /\ Marked'
    BY <1>6, <2>1 DEF QuerySize, files, OwnerInv, ProgressInv, Marked
  <2>5. MarkerInv' /\ Settled'
    BY <1>6 DEF QuerySize, files, MarkerInv, Settled, Running
  <2> QED
    BY <2>3, <2>4, <2>5
<1>7. CASE QueryData
  <2>1. owner = "mod" => Fso \in layer.flags
    OBVIOUS
  <2>2. TypeOK'
    BY <1>7, NoValueLemma DEF QueryData, files
  <2>3. OwnerInv' /\ ProgressInv' /\ Marked'
    BY <1>7, <2>1 DEF QueryData, files, OwnerInv, ProgressInv, Marked
  <2>4. MarkerInv' /\ Settled'
    BY <1>7 DEF QueryData, files, MarkerInv, Settled, Running
  <2> QED
    BY <2>2, <2>3, <2>4
<1>8. CASE Write
  <2> DEFINE new == IF apply THEN Applied(value) ELSE Reverted(value)
  <2>1. new \in Value /\ (apply <=> Fso \in new.flags)
    BY ValueLemma
  <2> HIDE DEF new
  <2>2. layer' \in Value /\ owner' \in {"nobody", "user", "mod"}
    BY <1>8, <2>1 DEF Write, SetLayer, new
  <2>3. owner' = "nobody" <=> Fso \notin layer'.flags
    BY <1>8, <2>1 DEF Write, SetLayer, new
  <2>4. ~edited' /\ ~failed' => layer' = new
    BY <1>8 DEF Write, SetLayer, new, ProgressInv
  <2>5. ~apply /\ ~failed' => owner' # "mod"
    BY <1>8, <2>1 DEF Write, SetLayer, new, OwnerInv
  <2>6. owner' = "mod" => owner = "mod" \/ apply
    BY <1>8, <2>1 DEF Write, SetLayer, new
  <2> QED
    BY <1>8, <2>1, <2>2, <2>3, <2>4, <2>5, <2>6
    DEF Write, locals, MarkerInv, OwnerInv, ProgressInv, Settled, Marked, Running
<1>9. CASE Mark
  BY <1>9 DEF Mark, locals, MarkerInv, OwnerInv, ProgressInv, Settled, Marked,
         Running
<1>10. CASE UNCHANGED vars
  BY <1>10 DEF vars, files, locals, ghosts, MarkerInv, OwnerInv, ProgressInv, Settled, Marked,
         Running
<1> QED
  BY <1>1, <1>2, <1>3, <1>4, <1>5, <1>6, <1>7, <1>8, <1>9, <1>10 DEF Next, Program

\* The inductive invariant holds in every reachable state.
THEOREM TypeCorrect == Spec => [](TypeOK /\ IInv)
<1>1. IInv => TypeOK
  BY DEF IInv
<1> QED
  BY <1>1, InitLemma, NextLemma, PTL DEF Spec

\* A start that nothing disturbs does what the option says, after any earlier starts.
THEOREM SettledTheorem == Spec => []Settled
<1>1. IInv => Settled
  BY DEF IInv
<1> QED
  BY <1>1, TypeCorrect, PTL

\* A flag that the mod has set has its marker, unless a start was killed or failed between
\* the two and no start with the option on has made up for it.
THEOREM MarkedTheorem == Spec => []Marked
<1>1. IInv => Marked
  BY DEF IInv
<1> QED
  BY <1>1, TypeCorrect, PTL

\* The user's other flags stay as they are, unless he edits the value after it was read or
\* the option is on and the value could not be read.
THEOREM OthersKeptTheorem == Spec => OthersKept
<1>1. IInv /\ [Next]_vars =>
        [pc = "write" /\ pc' = "mark" /\ ~edited /\ (failed => ~apply) =>
           layer'.flags \cap Others = layer.flags \cap Others]_vars
  <2> SUFFICES ASSUME IInv, [Next]_vars, pc = "write", pc' = "mark", ~edited, failed => ~apply
               PROVE  layer'.flags \cap Others = layer.flags \cap Others
    OBVIOUS
  <2>1. value \in Value /\ ((failed /\ value = NoValue) \/ value = layer)
    BY DEF IInv, ProgressInv, TypeOK
  <2>2. Write
    BY DEF Next, SetOption, EditLayer, Quit, Program, Start, OpenKeyFails, QuerySize,
           QueryData, Mark, vars
  <2>3. CASE value = layer
    <3>1. layer' \in {layer, Applied(value), Reverted(value)}
      BY <2>2 DEF Write, SetLayer
    <3> QED
      BY <2>1, <2>3, <3>1, OthersLemma
  <2>4. CASE failed /\ value = NoValue
    <3>1. Reverted(value) = value
      BY <2>4 DEF Reverted, NoValue
    <3> QED
      BY <2>2, <2>4, <3>1 DEF Write
  <2> QED
    BY <2>1, <2>3, <2>4
<1> QED
  BY <1>1, TypeCorrect, PTL DEF Spec, OthersKept
=============================================================================
