----------------------------- MODULE ConfigLookup -----------------------------
(***************************************************************************)
(* The look-ups of the game's configuration (config.cpp, GetCfgValueEx).   *)
(* Where the compiler has inlined the look-up of a value, the mod hooks    *)
(* that of an index into a table of the game's, and for a value of its own *)
(* returns an index out of bounds: one that the game's arithmetic, modulo  *)
(* the size of an address, takes to an entry the mod has allocated.  It    *)
(* frees what it has allocated with the next look-up.                      *)
(***************************************************************************)
EXTENDS Integers

CONSTANTS
  Word,        \* The number of addresses, 2^32: the hook is only made in 32-bit games.
  Addend,      \* sizeof(M2InteropString), 24 there,
  Pointer,     \* sizeof(std::uintptr_t), 4.
  ConfigKeys,  \* The keys the game asks for,
  Overridden,  \* and those the mod has a value for.
  None

Stride == Addend + 3 * Pointer
TableSize == 2 * Pointer
BufferSize == TableSize + (Stride - 1)

ASSUME ConfigAssumption ==
  /\ Word \in Nat \ {0} /\ Addend \in Nat /\ Pointer \in Nat \ {0}
  /\ Overridden \subseteq ConfigKeys
  /\ None \notin Nat

VARIABLES
  base,    \* ctx[1] + addend: the values of the game's first entry.
  result,  \* The mod's string, or None,
  text,    \* and the key whose value it has.
  buffer,  \* The mod's buffer, or None,
  table,   \* and the entry in it.
  asked,   \* The key of the last look-up,
  answer   \* and its answer, None if that was the game's.

configVars == <<base, result, text, buffer, table, asked, answer>>

\* An object of n bytes at a, and one of m bytes at b, do not overlap.
Apart(a, n, b, m) == a + n <= b \/ b + m <= a

\* Where the allocator may put n bytes: not over an entry of the game's.
Places(n) == {a \in 0 .. Word - n : Apart(a, n, base - Addend, Stride)}

ConfigInit ==
  /\ base \in Addend .. Word - Stride + Addend
  /\ result = None /\ buffer = None /\ answer = None
  /\ text \in ConfigKeys /\ asked = text
  /\ table = 0

-----------------------------------------------------------------------------
\* The arithmetic of std::uintptr_t.
Minus(a, b) == (a - b) % Word

\* Faulty variant: the remainder is added and not what it lacks.
OffsetRemainder(a) == Minus(a, base) % Stride

\* From the address of a buffer to the entry in it.
Offset(a) ==
  LET offset == Stride - (Minus(a, base) % Stride)
  IN  IF offset = Stride THEN 0 ELSE offset

Distance(a) == Minus(a, base)

\* GetCfgValueEx for a key that is overridden.  The string and the buffer of the last look-up
\* are free again.
LookUpOverridden(key) ==
  \E s \in Places(Addend), b \in Places(BufferSize) :
    /\ Apart(s, Addend, b, BufferSize)
    /\ result' = s /\ text' = key
    /\ buffer' = b /\ table' = b + Offset(b)
    /\ answer' = Distance(table') \div Stride
    /\ asked' = key
    /\ UNCHANGED base

\* For any other key, which the game looks up itself.
LookUpOther(key) ==
  /\ result' = None /\ buffer' = None /\ answer' = None
  /\ asked' = key
  /\ UNCHANGED <<base, text, table>>

\* The game looks a key up twice, to see whether it is there and to read it.
GetCfgValueEx(key) ==
  IF key \in Overridden THEN LookUpOverridden(key) ELSE LookUpOther(key)

ConfigNext == \E key \in ConfigKeys : GetCfgValueEx(key)

ConfigSpec == ConfigInit /\ [][ConfigNext]_configVars

-----------------------------------------------------------------------------
(* Properties.                                                             *)

\* Where the game finds the entry of an index.
Entry(i) == (base + Stride * i) % Word

\* An index of the mod's takes the game to the entry that was made for the key it has asked for,
\* which lies in the mod's buffer, wherever table and buffer are; the distance is a multiple of
\* the stride ("Should never happen", config.cpp:174).  After a look-up that is not overridden
\* nothing is allocated (config.cpp:102).
IndexExact ==
  IF answer # None
  THEN /\ Entry(answer) = table
       /\ Distance(table) % Stride = 0
       /\ buffer <= table /\ table + TableSize <= buffer + BufferSize
       /\ Apart(result, Addend, table, TableSize)
       /\ text = asked
  ELSE result = None /\ buffer = None
=============================================================================
