------------------------------ MODULE LoadScript ------------------------------
(***************************************************************************)
(* The handlers for scripts that the game loads (sqhook.cpp, SQCall_ and   *)
(* SQReturn_util_load_script).  The mod notes the names that a call of     *)
(* util_load_script is given in one list, for all calls and coroutines,    *)
(* and when a call returns it runs the handlers whose keys are in one of   *)
(* the names; a handler replaces a method of the class that the script     *)
(* has defined.                                                            *)
(***************************************************************************)
EXTENDS Integers, SequencesExt

CONSTANTS
  Scripts,     \* The names of scripts,
  Keys,        \* the keys of LoadScriptTable,
  Names,       \* and for each script the keys that its name contains.
  Coroutines,  \* The VMs that load scripts.
  MaxCalls     \* How many calls may be open at a time.

ASSUME LoadScriptAssumption == Names \in [Scripts -> SUBSET Keys] /\ MaxCalls \in Nat

VARIABLES
  LoadScript,  \* The list.
  open,        \* The calls of each coroutine, the innermost last.
  class,       \* The class of a key: absent, plain or hooked.
  excused      \* The keys whose class was left plain by a call that failed or was disturbed.

loadVars == <<LoadScript, open, class, excused>>

LoadScriptInit ==
  /\ LoadScript = {}
  /\ open = [v \in Coroutines |-> <<>>]
  /\ class = [k \in Keys |-> "absent"]
  /\ excused = {}

KeysOf(scripts) == UNION {Names[s] : s \in scripts}

\* The open calls, all of them disturbed.
Disturbed(calls) ==
  [v \in Coroutines |-> [i \in DOMAIN calls[v] |-> [calls[v][i] EXCEPT !.disturbed = TRUE]]]

-----------------------------------------------------------------------------
\* Faulty variant: a name replaces the list, as an array does.
CallReplaces(v, array, scripts) ==
  /\ LoadScript' = scripts
  /\ open' = [(IF array THEN Disturbed(open) ELSE open) EXCEPT ![v] =
       Append(@, [scripts |-> scripts, left |-> scripts, disturbed |-> FALSE])]
  /\ UNCHANGED <<class, excused>>

\* SQCall_util_load_script: an array replaces the list, a name goes behind it.
Call(v, array, scripts) ==
  /\ LoadScript' = IF array THEN scripts ELSE LoadScript \cup scripts
  /\ open' = [(IF array THEN Disturbed(open) ELSE open) EXCEPT ![v] =
       Append(@, [scripts |-> scripts, left |-> scripts, disturbed |-> FALSE])]
  /\ UNCHANGED <<class, excused>>

\* The game runs a script, which defines its class anew.  It may call util_load_script itself.
RunScript(v, s) ==
  /\ open[v] # <<>> /\ s \in Last(open[v]).left
  /\ open' = [open EXCEPT ![v][Len(open[v])].left = @ \ {s}]
  /\ class' = [k \in Keys |-> IF k \in Names[s] THEN "plain" ELSE class[k]]
  /\ excused' = excused \ Names[s]
  /\ UNCHANGED LoadScript

\* SQReturn_util_load_script: the handlers run for what is in the list, which then is empty
\* for the calls that are still open.
Return(v) ==
  LET call == Last(open[v])
      handled == KeysOf(LoadScript)
  IN  /\ open[v] # <<>> /\ call.left = {}
      /\ class' = [k \in Keys |-> IF k \in handled /\ class[k] # "absent" THEN "hooked" ELSE class[k]]
      /\ excused' = (IF call.disturbed THEN excused \cup KeysOf(call.scripts) ELSE excused) \ handled
      /\ LoadScript' = {}
      /\ open' = Disturbed([open EXCEPT ![v] = Front(@)])

\* A script raises an error: the VM unwinds the call without an event.
Throw(v) ==
  /\ open[v] # <<>>
  /\ open' = [open EXCEPT ![v] = Front(@)]
  /\ excused' = excused \cup KeysOf(Last(open[v]).scripts)
  /\ UNCHANGED <<LoadScript, class>>

Calls == UNION {{<<v, i>> : i \in DOMAIN open[v]} : v \in Coroutines}

LoadScriptNext ==
  \E v \in Coroutines :
    \/ /\ Cardinality(Calls) < MaxCalls
       /\ \/ \E scripts \in SUBSET Scripts : Call(v, TRUE, scripts)
          \/ \E s \in Scripts : Call(v, FALSE, {s})
    \/ \E s \in Scripts : RunScript(v, s)
    \/ Return(v)
    \/ Throw(v)

LoadScriptSpec == LoadScriptInit /\ [][LoadScriptNext]_loadVars

-----------------------------------------------------------------------------
(* Properties.                                                             *)

OpenCall == [scripts : SUBSET Scripts, left : SUBSET Scripts, disturbed : BOOLEAN]

LoadScriptTypeOK ==
  /\ LoadScript \subseteq Scripts
  /\ open \in [Coroutines -> Seq(OpenCall)]
  /\ \A v \in Coroutines : \A i \in DOMAIN open[v] : open[v][i].left \subseteq open[v][i].scripts
  /\ class \in [Keys -> {"absent", "plain", "hooked"}]
  /\ excused \subseteq Keys

\* A class that a script has defined has its method replaced once the call that has loaded the
\* script is over, unless that call has failed, or another one has returned meanwhile or has begun
\* with an array and the list does not have the script any more (sqhook.cpp:317-344).
HandlersRun ==
  \A k \in Keys : class[k] = "plain" =>
    \/ k \in excused
    \/ \E v \in Coroutines : \E i \in DOMAIN open[v] : k \in KeysOf(open[v][i].scripts)
=============================================================================
