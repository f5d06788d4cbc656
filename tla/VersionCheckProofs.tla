-------------------------- MODULE VersionCheckProofs --------------------------
(* Proofs about VersionCheck, for any TTL and any number of versions.      *)
EXTENDS VersionCheck, TLAPS

\* A file is only younger than its answer after a notice, which it has then in it.
SinceInv ==
  cache # None => \/ cache.since = cache.age
                  \/ cache.warned = cache.latest /\ cache.since <= cache.age + TTL

\* The same of the local variables: what a notice is given of is no older than a TTL.
LocalInv ==
  /\ warned \in told \cup {None}
  /\ pc = "compare" => ~notice /\ (since <= TTL \/ warned = latest)
  /\ pc \in {"save", "flush"} =>
       IF notice THEN warned = latest /\ last = latest /\ since <= TTL ELSE since = 0
  /\ pc = "query" => ~notice

\* Unless a save has been lost, the file has the last notice in it, and so has warnedVersion.
LastInv ==
  ~broken => /\ pc \notin {"save", "flush"} => last = IF cache = None THEN None ELSE cache.warned
             /\ pc \in {"query", "save", "flush", "compare"} => warned = last

IInv == TypeOK /\ WarnedTold /\ SinceInv /\ LocalInv /\ LastInv

LEMMA InitLemma == Init => IInv
<1> SUFFICES ASSUME Init PROVE IInv
  OBVIOUS
<1>1. TypeOK
  <2>1. cache \in Cache \cup {None} /\ latest \in Version \cup {None} /\ warned \in Version \cup {None}
    BY DEF Init
  <2>2. since \in 0 .. MaxAge
    BY VersionCheckAssumption DEF Init
  <2>3. notice \in BOOLEAN /\ broken \in BOOLEAN
    BY DEF Init
  <2>4. told \subseteq Version /\ last \in told \cup {None}
    BY DEF Init
  <2> QED
    BY <2>1, <2>2, <2>3, <2>4 DEF Init, TypeOK
<1>2. WarnedTold /\ SinceInv /\ LocalInv /\ LastInv
  BY DEF Init, WarnedTold, SinceInv, LocalInv, LastInv
<1> QED
  BY <1>1, <1>2 DEF IInv

LEMMA NextLemma == IInv /\ [Next]_vars => IInv'
<1> SUFFICES ASSUME IInv, [Next]_vars PROVE IInv'
  OBVIOUS
<1> USE VersionCheckAssumption DEF IInv, TypeOK
<1>1. ASSUME NEW v \in Version, Install(v) PROVE IInv'
  BY <1>1 DEF Install, locals, ghosts, WarnedTold, SinceInv, LocalInv, LastInv
<1>2. ASSUME NEW v \in Version, NEW r \in Repos, Release(r, v) PROVE IInv'
  BY <1>2 DEF Release, locals, ghosts, WarnedTold, SinceInv, LocalInv, LastInv
<1>3. CASE Hour
  <2>1. cache \in Cache /\ cache' = [cache EXCEPT !.age = @ + 1, !.since = @ + 1]
    BY <1>3 DEF Hour
  <2>2. /\ cache' \in Cache
        /\ cache'.age = cache.age + 1 /\ cache'.since = cache.since + 1
        /\ cache'.warned = cache.warned /\ cache'.latest = cache.latest
    <3>1. cache.age \in 0 .. MaxAge /\ cache.since \in 0 .. MaxAge /\ cache.age <= cache.since
      BY <2>1 DEF Cache
    <3>2. cache.since + 1 \in 0 .. MaxAge /\ cache.age + 1 \in 0 .. MaxAge
      BY <1>3, <3>1 DEF Hour
    <3>3. cache' = [latest |-> cache.latest, age |-> cache.age + 1, warned |-> cache.warned,
                    since |-> cache.since + 1]
      BY <2>1 DEF Cache
    <3>4. cache.latest \in Version /\ cache.warned \in Version \cup {None}
      BY <2>1 DEF Cache
    <3>5. cache.age + 1 <= cache.since + 1
      BY <3>1
    <3> HIDE <2>1
    <3> QED
      BY <3>2, <3>3, <3>4, <3>5 DEF Cache
  <2>3. cache.age \in Nat /\ cache.since \in Nat
    BY <2>1 DEF Cache
  <2> QED
    BY <1>3, <2>1, <2>2, <2>3 DEF Hour, world, locals, ghosts, WarnedTold, SinceInv, LocalInv, LastInv
<1>4. CASE Quit
  BY <1>4 DEF Quit, world, locals, WarnedTold, SinceInv, LocalInv, LastInv
<1>5. CASE Start
  BY <1>5 DEF Start, world, locals, ghosts, WarnedTold, SinceInv, LocalInv, LastInv
<1>6. CASE LoadCache
  <2>1. cache # None => /\ cache.latest \in Version /\ cache.warned \in Version \cup {None}
                        /\ cache.age \in 0 .. MaxAge /\ cache.since \in 0 .. MaxAge
    BY DEF Cache
  <2>2. TypeOK'
    <3>1. CASE cache = None
      <4>1. /\ latest' = None /\ warned' = None /\ pc' = "query" /\ notice' = FALSE
            /\ since' \in 0 .. MaxAge
        BY <1>6, <3>1 DEF LoadCache
      <4> QED
        BY <1>6, <4>1 DEF LoadCache, world, ghosts
    <3>2. CASE cache # None
      <4>1. /\ latest' \in Version /\ warned' \in Version \cup {None}
            /\ since' \in 0 .. MaxAge
        BY <1>6, <2>1, <3>2 DEF LoadCache
      <4>2. latest' # None
        BY <4>1
      <4>3. pc' \in {"compare", "query"} /\ notice' = FALSE
        BY <1>6, <3>2 DEF LoadCache
      <4> QED
        BY <1>6, <4>1, <4>2, <4>3 DEF LoadCache, world, ghosts
    <3> QED
      BY <3>1, <3>2
  <2>5. WarnedTold' /\ SinceInv'
    BY <1>6 DEF LoadCache, ghosts, WarnedTold, SinceInv
  <2>3. LocalInv'
    BY <1>6, <2>1 DEF LoadCache, ghosts, WarnedTold, SinceInv, LocalInv
  <2>4. LastInv'
    BY <1>6, <2>1 DEF LoadCache, ghosts, LastInv
  <2> QED
    BY <2>2, <2>3, <2>4, <2>5
<1>7. ASSUME NEW r \in Repos, Answer(r) PROVE IInv'
  <2>1. released[r] \in Version
    OBVIOUS
  <2> QED
    BY <1>7, <2>1 DEF Answer, world, ghosts, WarnedTold, SinceInv, LocalInv, LastInv
<1>8. CASE NoAnswer
  BY <1>8 DEF NoAnswer, world, locals, ghosts, WarnedTold, SinceInv, LocalInv, LastInv
<1>9. CASE SaveCache
  <2>1. TypeOK'
    BY <1>9 DEF SaveCache, AfterSave, world, locals
  <2>2. WarnedTold' /\ SinceInv'
    BY <1>9 DEF SaveCache, locals, WarnedTold, SinceInv
  <2>3. LocalInv'
    BY <1>9 DEF SaveCache, AfterSave, locals, LocalInv
  <2>4. LastInv'
    BY <1>9 DEF SaveCache, locals, LastInv
  <2> QED
    BY <2>1, <2>2, <2>3, <2>4
<1>10. CASE Flush
  <2>1. /\ cache' = [latest |-> latest, age |-> 0, warned |-> warned, since |-> since]
        /\ latest \in Version
    BY <1>10 DEF Flush
  <2>2. /\ cache' \in Cache
        /\ cache'.latest = latest /\ cache'.age = 0
        /\ cache'.warned = warned /\ cache'.since = since
    BY <2>1 DEF Cache
  <2> QED
    BY <1>10, <2>2 DEF Flush, AfterSave, world, locals, WarnedTold, SinceInv, LocalInv, LastInv
<1>11. CASE Compare
  <2>1. latest \in Version
    BY <1>11 DEF Compare
  <2> QED
    BY <1>11, <2>1 DEF Compare, world, WarnedTold, SinceInv, LocalInv, LastInv
<1>12. CASE UNCHANGED vars
  BY <1>12 DEF vars, world, locals, ghosts, WarnedTold, SinceInv, LocalInv, LastInv
<1> QED
  BY <1>1, <1>2, <1>3, <1>4, <1>5, <1>6, <1>7, <1>8, <1>9, <1>10, <1>11, <1>12 DEF Next, Program

\* The inductive invariant holds in every reachable state.
THEOREM TypeCorrect == Spec => [](TypeOK /\ IInv)
<1>1. IInv => TypeOK
  BY DEF IInv
<1> QED
  BY <1>1, InitLemma, NextLemma, PTL DEF Spec

\* The file says of no version that there was a notice of it when there was none.
THEOREM WarnedToldTheorem == Spec => []WarnedTold
<1>1. IInv => WarnedTold
  BY DEF IInv
<1> QED
  BY <1>1, TypeCorrect, PTL

\* No answer that the file gives is older than two TTLs.
THEOREM WithinTwoTheorem == Spec => []WithinTwo
<1>1. IInv => WithinTwo
  <2> SUFFICES ASSUME IInv, cache # None, cache.age <= TTL
               PROVE  cache.since <= TTL + TTL
    BY DEF WithinTwo
  <2>1. cache.age \in Nat /\ cache.since \in Nat /\ TTL \in Nat
    BY VersionCheckAssumption DEF IInv, TypeOK, Cache
  <2> QED
    BY <2>1 DEF IInv, SinceInv
<1> QED
  BY <1>1, TypeCorrect, PTL

\* Two notices of a version have one of another version or a lost save between them.
THEOREM NotTwiceTheorem == Spec => NotTwice
<1>1. IInv /\ [Next]_vars => [~notice /\ notice' => broken \/ last # latest]_vars
  <2> SUFFICES ASSUME IInv, [Next]_vars, ~notice, notice'
               PROVE  broken \/ last # latest
    OBVIOUS
  <2>1. Compare
    BY DEF Next, Install, Release, Hour, Quit, Program, Start, LoadCache, Answer, NoAnswer,
           SaveCache, Flush, vars, locals
  <2> QED
    BY <2>1 DEF Compare, IInv, LastInv
<1> QED
  BY <1>1, TypeCorrect, PTL DEF Spec, NotTwice
=============================================================================
