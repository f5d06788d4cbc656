----------------------------- MODULE VersionCheck -----------------------------
(***************************************************************************)
(* The update notice (versionchecker.cpp).  When the game starts, the mod  *)
(* takes the latest version from its cache file, or asks the primary or    *)
(* the fallback repository if there is none or its time is more than a TTL *)
(* ago, and gives a notice of every version newer than its own, once: the  *)
(* file says of which version the last notice was.  The game may be killed *)
(* at any point, a query and the opening of the file may fail, and the two *)
(* repositories need not have the same release.                            *)
(*                                                                         *)
(* A version is a number, which stands for what compareSemVer makes of its *)
(* text.  An hour does not begin while a start is checked.                 *)
(***************************************************************************)
EXTENDS Naturals

CONSTANTS
  MaxVersion,  \* Bounds the versions.
  MaxAge,      \* Bounds the age of an answer.
  TTL,         \* iCacheTTLHours.
  None

Version == 1 .. MaxVersion
Repos == {"PRIMARY_REPO_URL", "FALLBACK_REPO_URL"}

\* A file: its version, its age, the version of the last notice, and for how long its version
\* has been an answer.
Cache ==
  {c \in [latest : Version, age : 0 .. MaxAge, warned : Version \cup {None}, since : 0 .. MaxAge] :
     c.age <= c.since}

ASSUME VersionCheckAssumption ==
  /\ TTL \in Nat /\ MaxAge \in Nat /\ MaxVersion \in Nat
  /\ None \notin Version \cup Cache

VARIABLES
  installed,  \* VERSION_STRING.
  released,   \* The version that each repository has.
  cache,      \* The file, or None for one with less than two lines.
  pc,         \* "off", or what checkForUpdates does next; "done" when the game goes on.
  latest, since, warned,  \* Its local variables cachedLatest, with its age, and warnedVersion,
  notice,     \* and whether it has given the notice.
  told,       \* The versions of which there was a notice,
  last,       \* the last of them,
  broken      \* and whether that may not have got into the file.

world == <<installed, released>>
locals == <<latest, since, warned, notice>>
ghosts == <<told, last, broken>>
vars == <<world, cache, pc, locals, ghosts>>

Init ==
  /\ installed \in Version /\ released \in [Repos -> Version]
  /\ cache = None
  /\ pc = "off"
  /\ latest = None /\ since = 0 /\ warned = None /\ notice = FALSE
  /\ told = {} /\ last = None /\ broken = FALSE

-----------------------------------------------------------------------------
(* The user, the repositories and the clock.                               *)

Install(v) ==
  /\ pc = "off" /\ installed' = v
  /\ UNCHANGED <<released, cache, pc, locals, ghosts>>

Release(r, v) ==
  /\ v > released[r] /\ released' = [released EXCEPT ![r] = v]
  /\ UNCHANGED <<installed, cache, pc, locals, ghosts>>

Hour ==
  /\ pc \in {"off", "done"}
  /\ cache # None /\ cache.since < MaxAge
  /\ cache' = [cache EXCEPT !.age = @ + 1, !.since = @ + 1]
  /\ UNCHANGED <<world, pc, locals, ghosts>>

\* The game ends, or is killed.
Quit ==
  /\ pc # "off" /\ pc' = "off"
  /\ broken' = (broken \/ pc \in {"save", "flush"})
  /\ UNCHANGED <<world, cache, locals, told, last>>

-----------------------------------------------------------------------------
(* checkForUpdates.                                                        *)

Start ==
  /\ pc = "off" /\ pc' = "load"
  /\ UNCHANGED <<world, cache, locals, ghosts>>

\* Faulty variant: an empty file is taken for a cache.
LoadCacheUnchecked ==
  /\ pc = "load"
  /\ notice' = FALSE
  /\ IF cache = None
       THEN latest' = None /\ warned' = None /\ since' = 0 /\ pc' = "compare"
       ELSE /\ latest' = cache.latest /\ warned' = cache.warned /\ since' = cache.since
            /\ pc' = IF cache.age <= TTL THEN "compare" ELSE "query"
  /\ UNCHANGED <<world, cache, ghosts>>

LoadCache ==
  /\ pc = "load"
  /\ notice' = FALSE
  /\ IF cache = None
       THEN latest' = None /\ warned' = None /\ since' = 0 /\ pc' = "query"
       ELSE /\ latest' = cache.latest /\ warned' = cache.warned /\ since' = cache.since
            /\ pc' = IF cache.age <= TTL THEN "compare" ELSE "query"
  /\ UNCHANGED <<world, cache, ghosts>>

\* Faulty variants: the file is saved without the version of the last notice, and with the
\* version that there is no notice of yet.
AnswerForgets(r) ==
  /\ pc = "query" /\ pc' = "save"
  /\ latest' = released[r] /\ since' = 0 /\ warned' = None
  /\ UNCHANGED <<world, cache, notice, ghosts>>
AnswerWarned(r) ==
  /\ pc = "query" /\ pc' = "save"
  /\ latest' = released[r] /\ since' = 0 /\ warned' = released[r]
  /\ UNCHANGED <<world, cache, notice, ghosts>>

\* The primary repository answers, or fails and the fallback does.
Answer(r) ==
  /\ pc = "query" /\ pc' = "save"
  /\ latest' = released[r] /\ since' = 0
  /\ UNCHANGED <<world, cache, warned, notice, ghosts>>

\* Both fail, and the version check is skipped.
NoAnswer ==
  /\ pc = "query" /\ pc' = "done"
  /\ UNCHANGED <<world, cache, locals, ghosts>>

AfterSave == IF notice THEN "done" ELSE "compare"

\* saveCache.  Opening the file empties it, and its lines get there when it is closed.
SaveCache ==
  /\ pc = "save"
  /\ \/ cache' = None /\ pc' = "flush" /\ UNCHANGED broken
     \/ pc' = AfterSave /\ broken' = TRUE /\ UNCHANGED cache
  /\ UNCHANGED <<world, locals, told, last>>

Flush ==
  /\ pc = "flush" /\ pc' = AfterSave
  /\ cache' = [latest |-> latest, age |-> 0, warned |-> warned, since |-> since]
  /\ broken' = (broken /\ ~notice)
  /\ UNCHANGED <<world, locals, told, last>>

\* Faulty variant: there is a notice at every start.
CompareAlways ==
  /\ pc = "compare"
  /\ IF installed < latest
       THEN /\ told' = told \cup {latest} /\ last' = latest
            /\ warned' = latest /\ notice' = TRUE
            /\ pc' = "save"
       ELSE /\ pc' = "done"
            /\ UNCHANGED <<told, last, warned, notice>>
  /\ UNCHANGED <<world, cache, latest, since, broken>>

Compare ==
  /\ pc = "compare"
  /\ IF installed < latest /\ warned # latest
       THEN /\ told' = told \cup {latest} /\ last' = latest
            /\ warned' = latest /\ notice' = TRUE
            /\ pc' = "save"
       ELSE /\ pc' = "done"
            /\ UNCHANGED <<told, last, warned, notice>>
  /\ UNCHANGED <<world, cache, latest, since, broken>>

-----------------------------------------------------------------------------
Program ==
  Start \/ LoadCache \/ (\E r \in Repos : Answer(r)) \/ NoAnswer \/ SaveCache \/ Flush \/ Compare

Next ==
  \/ \E v \in Version : Install(v) \/ \E r \in Repos : Release(r, v)
  \/ Hour
  \/ Quit
  \/ Program

Spec == Init /\ [][Next]_vars

-----------------------------------------------------------------------------
(* Properties.                                                             *)

\* Every variable has its type: what is compared is a version, from the file or an answer.
TypeOK ==
  /\ installed \in Version /\ released \in [Repos -> Version]
  /\ cache \in Cache \cup {None}
  /\ pc \in {"off", "load", "query", "save", "flush", "compare", "done"}
  /\ latest \in Version \cup {None} /\ warned \in Version \cup {None}
  /\ pc \in {"save", "flush", "compare"} => latest # None
  /\ since \in 0 .. MaxAge
  /\ notice \in BOOLEAN /\ broken \in BOOLEAN
  /\ told \subseteq Version /\ last \in told \cup {None}

\* The file only says that there was a notice of a version if there was one: a game killed
\* between the two saves of a start leaves a file with which the next start gives it.
WarnedTold == cache # None => cache.warned \in told \cup {None}

\* There is no second notice of a version without one of another version in between, in
\* whatever order the repositories answer and versions are installed, unless the first has
\* not got into the file.
NotTwice == [][~notice /\ notice' => broken \/ last # latest]_vars

\* The time of the file is also set when a notice is given for a version that is read from
\* it, but not again after that: what the file gives is no older than two TTLs.
WithinTwo == cache # None /\ cache.age <= TTL => cache.since <= TTL + TTL

\* "Under 24 hours since last update check. Skipping update check."
SkipsUnderTTL == [][pc = "load" /\ pc' = "compare" => since' <= TTL]_vars
=============================================================================
