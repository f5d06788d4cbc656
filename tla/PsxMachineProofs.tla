--------------------------- MODULE PsxMachineProofs ---------------------------
(* A hook finds what it has replaced, for any modules and tables, and      *)
(* stretches by the ratio of the screen, for any bounds.                   *)
EXTENDS PsxMachine, WellFoundedInduction, TLAPS

(***************************************************************************)
(* The inductive invariant: the entries that hold a hook are those of the  *)
(* modules that had a clone when the hooks were made, and the maps have    *)
(* what was in them.  Before, there is no such module.                     *)
(***************************************************************************)
BindInv == InitializeFinished \/ early = {}

EntriesInv ==
  entries = [e \in Modules \X Address |->
    IF e[1] \in early /\ e[2] \in Listed(e[1]) THEN Hook ELSE e]

\* The modules of a kind whose hooks at an address were made.
Hooked(kind, id, a) ==
  {m \in early : Kind[m] = kind /\ (kind = "user" => Accelerator[m] = id) /\ a \in Listed(m)}

\* What the last module among some had at an address.
Last(ms, a) == IF ms = {} THEN Null ELSE <<LastOf(ms), a>>

UserInv ==
  \A k \in Id \X Address : UserHandlers[k] = Last(Hooked("user", k[1], k[2]), k[2])

KernelInv ==
  \A a \in Address : KernelHandlers[a] = Last(Hooked("kernel", 0, a), a)

CpuInv == Execute = Hook => R3000_ExecuteFunc = processor

MapInv == BindInv /\ EntriesInv /\ UserInv /\ KernelInv
IInv == PsxTypeOK /\ MapInv /\ CpuInv

\* The last module of a set is one of them.
LEMMA LastIn ==
  ASSUME NEW ms \in SUBSET Modules, ms # {}
  PROVE  LastOf(ms) \in ms
BY PsxAssumption DEF LastOf

LEMMA ListedType ==
  ASSUME NEW m \in Modules
  PROVE  Listed(m) \subseteq Address /\ Listed(m) \subseteq Table[m]
BY PsxAssumption DEF Listed

LEMMA BoundType ==
  ASSUME PsxTypeOK, NEW kind, NEW id, NEW a
  PROVE  Bound(kind, id, a) \in SUBSET Modules
BY DEF Bound, PsxTypeOK

\* The initial state has the invariant.
LEMMA InitInv == PsxInit => IInv
<1>. SUFFICES ASSUME PsxInit PROVE IInv
  OBVIOUS
<1>. USE DEF PsxInit
<1>1. PsxTypeOK
  BY DEF PsxTypeOK, Handler
<1>2. BindInv
  BY DEF BindInv
<1>3. EntriesInv
  BY DEF EntriesInv
<1>4. UserInv /\ KernelInv
  BY DEF UserInv, KernelInv, Hooked, Last
<1>5. CpuInv
  BY PsxAssumption DEF CpuInv
<1>. QED
  BY <1>1, <1>2, <1>3, <1>4, <1>5 DEF IInv, MapInv

\* Making the hooks keeps the types.
LEMMA BindType ==
  ASSUME PsxTypeOK, BindModules
  PROVE  /\ entries' \in [Modules \X Address -> Handler]
         /\ UserHandlers' \in [Id \X Address -> Handler]
         /\ KernelHandlers' \in [Address -> Handler]
<1>1. entries' \in [Modules \X Address -> Handler]
  BY DEF BindModules, PsxTypeOK, Handler
<1>2. ASSUME NEW kind, NEW id, NEW a \in Address, Bound(kind, id, a) # {}
      PROVE  entries[<<LastOf(Bound(kind, id, a)), a>>] \in Handler
  <2>1. LastOf(Bound(kind, id, a)) \in Modules
    BY <1>2, BoundType, LastIn
  <2>. QED
    BY <2>1 DEF PsxTypeOK
<1>3. UserHandlers' \in [Id \X Address -> Handler]
  <2>1. ASSUME NEW k \in Id \X Address, Bound("user", k[1], k[2]) # {}
        PROVE  entries[<<LastOf(Bound("user", k[1], k[2])), k[2]>>] \in Handler
    BY <1>2, <2>1
  <2>. QED
    BY <2>1 DEF BindModules, PsxTypeOK
<1>4. KernelHandlers' \in [Address -> Handler]
  <2>1. ASSUME NEW a \in Address, Bound("kernel", 0, a) # {}
        PROVE  entries[<<LastOf(Bound("kernel", 0, a)), a>>] \in Handler
    BY <1>2, <2>1
  <2>. QED
    BY <2>1 DEF BindModules, PsxTypeOK
<1>. QED
  BY <1>1, <1>3, <1>4

\* The hooks that are made while no entry has one are in the entries, and the maps have what
\* was there.
LEMMA BindMaps ==
  ASSUME PsxTypeOK, MapInv, early = {}, BindModules, early' = mapped, mapped' = mapped,
         InitializeFinished'
  PROVE  MapInv'
<1>1. entries = [e \in Modules \X Address |-> e]
  BY DEF MapInv, EntriesInv
<1>2. BindInv'
  BY DEF BindInv
<1>3. EntriesInv'
  BY <1>1 DEF EntriesInv, BindModules, Listed
<1>4. ASSUME NEW kind, NEW id, NEW a \in Address
      PROVE  /\ Hooked(kind, id, a)' = Bound(kind, id, a)
             /\ Hooked(kind, id, a) = {}
             /\ Bound(kind, id, a) # {} =>
                  entries[<<LastOf(Bound(kind, id, a)), a>>] = <<LastOf(Bound(kind, id, a)), a>>
  <2>1. Hooked(kind, id, a)' = Bound(kind, id, a) /\ Hooked(kind, id, a) = {}
    BY DEF Hooked, Bound, Listed
  <2>2. Bound(kind, id, a) # {} => LastOf(Bound(kind, id, a)) \in Modules
    BY BoundType, LastIn
  <2>. QED
    BY <1>1, <2>1, <2>2
<1>5. UserInv'
  <2>. SUFFICES ASSUME NEW k \in Id \X Address
                PROVE  UserHandlers'[k] = Last(Hooked("user", k[1], k[2])', k[2])
    BY DEF UserInv, Last
  <2>1. k[2] \in Address
    OBVIOUS
  <2>2. UserHandlers[k] = Null
    BY <1>4, <2>1 DEF MapInv, UserInv, Last
  <2>3. UserHandlers'[k] = IF Bound("user", k[1], k[2]) = {} THEN Null
                           ELSE entries[<<LastOf(Bound("user", k[1], k[2])), k[2]>>]
    BY <2>2 DEF BindModules
  <2>. QED
    BY <1>4, <2>1, <2>3 DEF Last
<1>6. KernelInv'
  <2>. SUFFICES ASSUME NEW a \in Address
                PROVE  KernelHandlers'[a] = Last(Hooked("kernel", 0, a)', a)
    BY DEF KernelInv, Last
  <2>1. KernelHandlers[a] = Null
    BY <1>4 DEF MapInv, KernelInv, Last
  <2>2. KernelHandlers'[a] = IF Bound("kernel", 0, a) = {} THEN Null
                             ELSE entries[<<LastOf(Bound("kernel", 0, a)), a>>]
    BY <2>1 DEF BindModules
  <2>. QED
    BY <1>4, <2>2 DEF Last
<1>. QED
  BY <1>2, <1>3, <1>5, <1>6 DEF MapInv

\* What the maps depend on.
LEMMA MapsUnchanged ==
  ASSUME MapInv, UNCHANGED <<entries, handlers>>
  PROVE  MapInv'
BY DEF MapInv, BindInv, EntriesInv, UserInv, KernelInv, Hooked, Last, Listed, handlers

\* Every step keeps the invariant.
LEMMA NextInv == IInv /\ [PsxNext]_psxVars => IInv'
<1>. SUFFICES ASSUME IInv, [PsxNext]_psxVars PROVE IInv'
  OBVIOUS
<1>0. PsxTypeOK /\ MapInv /\ CpuInv
  BY DEF IInv
<1>1. CASE NewMachine
  <2>. USE <1>1 DEF NewMachine, clones, handlers
  <2>1. PsxTypeOK'
    BY <1>0 DEF PsxTypeOK
  <2>2. MapInv'
    BY <1>0, MapsUnchanged
  <2>3. CpuInv'
    BY PsxAssumption DEF CpuInv
  <2>. QED
    BY <2>1, <2>2, <2>3 DEF IInv
<1>2. ASSUME NEW m \in Modules, LoadModule(m) PROVE IInv'
  <2>. USE <1>2 DEF LoadModule, Clone
  <2>1. PsxTypeOK'
    BY <1>0 DEF PsxTypeOK, handlers
  <2>2. MapInv'
    BY <1>0, MapsUnchanged
  <2>3. CpuInv'
    BY <1>0 DEF CpuInv
  <2>. QED
    BY <2>1, <2>2, <2>3 DEF IInv
<1>3. CASE onInitializeFinish
  <2>. USE <1>3 DEF onInitializeFinish, machine
  <2>1. CpuInv'
    BY <1>0 DEF CpuInv
  <2>2. CASE InitializeFinished
    <3>1. PsxTypeOK'
      BY <1>0, <2>2 DEF PsxTypeOK
    <3>2. MapInv'
      BY <1>0, <2>2, MapsUnchanged DEF handlers, PsxTypeOK
    <3>. QED
      BY <2>1, <3>1, <3>2 DEF IInv
  <2>3. CASE ~InitializeFinished
    <3>1. early = {}
      BY <1>0, <2>3 DEF MapInv, BindInv
    <3>2. BindModules /\ early' = mapped /\ mapped' = mapped /\ InitializeFinished' = TRUE
      BY <2>3
    <3>3. MapInv'
      BY <1>0, <3>1, <3>2, BindMaps
    <3>4. PsxTypeOK'
      BY <1>0, <3>2, BindType DEF PsxTypeOK
    <3>. QED
      BY <2>1, <3>3, <3>4 DEF IInv
  <2>. QED
    BY <2>2, <2>3
<1>4. ASSUME NEW m \in Modules, NEW a \in Table[m], PSXmain(m, a) PROVE IInv'
  <2>. USE <1>4 DEF PSXmain, clones, handlers
  <2>1. PsxTypeOK'
    BY <1>0 DEF PsxTypeOK
  <2>2. MapInv'
    BY <1>0, MapsUnchanged
  <2>3. CpuInv'
    BY <1>0 DEF CpuInv, PsxTypeOK
  <2>. QED
    BY <2>1, <2>2, <2>3 DEF IInv
<1>5. CASE UNCHANGED psxVars
  <2>. USE <1>5 DEF psxVars, clones, handlers, machine
  <2>1. PsxTypeOK'
    BY <1>0 DEF PsxTypeOK
  <2>2. MapInv'
    BY <1>0, MapsUnchanged
  <2>3. CpuInv'
    BY <1>0 DEF CpuInv
  <2>. QED
    BY <2>1, <2>2, <2>3 DEF IInv
<1>. QED
  BY <1>1, <1>2, <1>3, <1>4, <1>5 DEF PsxNext

LEMMA Invariance == PsxSpec => []IInv
BY InitInv, NextInv, PTL DEF PsxSpec

-----------------------------------------------------------------------------
\* What a look-up of an address finds.
LEMMA FoundRight ==
  ASSUME IInv, NEW m \in Modules, Kind[m] = "user", NEW a \in Address, NEW pc \in Address,
         pc.at = a.at
  PROVE  /\ Found(Accelerator[m], pc) # Null =>
              Found(Accelerator[m], pc) \in Originals(m, a) \cap (Modules \X {pc})
         /\ m \in early /\ pc \in Listed(m) => Found(Accelerator[m], pc) # Null
<1> DEFINE ms == Hooked("user", Accelerator[m], pc)
<1>1. ms \in SUBSET Modules
  BY DEF IInv, PsxTypeOK, Hooked
<1>2. Found(Accelerator[m], pc) = Last(ms, pc)
  BY DEF IInv, MapInv, UserInv, Found, Id
<1>3. ASSUME NEW n \in ms
      PROVE  <<n, pc>> \in Originals(m, a) \cap (Modules \X {pc}) /\ <<n, pc>> # Null
  BY <1>1, PsxAssumption DEF Hooked, Originals
<1>4. m \in early /\ pc \in Listed(m) => m \in ms
  BY DEF Hooked
<1> HIDE DEF ms
<1>5. ms # {} => LastOf(ms) \in ms
  BY <1>1, LastIn
<1>. QED
  BY <1>2, <1>3, <1>4, <1>5 DEF Last

\* A hook finds a handler of the place, whatever the segment of the call.
LEMMA HandlerRight ==
  ASSUME IInv, NEW m \in early, Kind[m] = "user", NEW a \in Listed(m),
         NEW pc \in Address, pc.at = a.at
  PROVE  /\ UserHandler(Accelerator[m], pc) \in Originals(m, a)
         /\ pc = a => UserHandler(Accelerator[m], pc) \in Modules \X {a}
<1>. DEFINE high == [pc EXCEPT !.kseg = TRUE]
            low == [pc EXCEPT !.kseg = FALSE]
<1>1. m \in Modules /\ a \in Address
  BY ListedType DEF IInv, PsxTypeOK
<1>2. high \in Address /\ low \in Address /\ high.at = a.at /\ low.at = a.at
  BY DEF Address
<1>3. a = high \/ a = low
  BY <1>1 DEF Address
<1>4. ASSUME NEW p \in {pc, high, low}
      PROVE  /\ Found(Accelerator[m], p) # Null =>
                   Found(Accelerator[m], p) \in Originals(m, a) \cap (Modules \X {p})
             /\ p = a => Found(Accelerator[m], p) # Null
  <2>1. p \in Address /\ p.at = a.at
    BY <1>2
  <2>2. a \in Listed(m) /\ m \in early
    OBVIOUS
  <2> HIDE DEF high, low
  <2>. QED
    BY <1>1, <2>1, <2>2, FoundRight
<1> HIDE DEF high, low
<1>5. UserHandler(Accelerator[m], pc) =
        IF Found(Accelerator[m], pc) # Null THEN Found(Accelerator[m], pc)
        ELSE IF Found(Accelerator[m], high) # Null THEN Found(Accelerator[m], high)
        ELSE Found(Accelerator[m], low)
  BY DEF UserHandler, high, low
<1>. QED
  BY <1>3, <1>4, <1>5

\* So does a hook of a kernel module.
LEMMA KernelRight ==
  ASSUME IInv, NEW m \in early, Kind[m] = "kernel", NEW a \in Listed(m)
  PROVE  KernelHandlers[a] \in Originals(m, a) \cap (Modules \X {a})
<1> DEFINE ms == Hooked("kernel", 0, a)
<1>1. ms \in SUBSET Modules /\ m \in ms /\ a \in Address
  BY ListedType DEF IInv, PsxTypeOK, Hooked
<1>2. KernelHandlers[a] = Last(ms, a)
  BY <1>1 DEF IInv, MapInv, KernelInv
<1>3. ASSUME NEW n \in ms
      PROVE  <<n, a>> \in Originals(m, a) \cap (Modules \X {a})
  BY <1>1 DEF Hooked, Originals
<1> HIDE DEF ms
<1>4. LastOf(ms) \in ms
  BY <1>1, LastIn
<1>. QED
  BY <1>1, <1>2, <1>3, <1>4 DEF Last

-----------------------------------------------------------------------------
(* The geometry of the screen.                                             *)

\* The least of some numbers.
LEMMA Least ==
  ASSUME NEW T \in SUBSET Nat, T # {}
  PROVE  \E n \in T : \A m \in T : n <= m
<1>1. PICK n \in T : \A m \in T : <<m, n>> \notin OpToRel(<, Nat)
  BY WFMin, NatLessThanWellFounded, Zenon
<1>2. \A m \in T : ~(m < n)
  BY <1>1, Zenon DEF OpToRel
<1>. QED
  BY <1>2

\* The greatest of some bounded numbers: the one that is the least below the bound.
LEMMA Greatest ==
  ASSUME NEW S \in SUBSET Nat, S # {}, NEW b \in Nat, \A n \in S : n <= b
  PROVE  Max(S) \in S /\ \A n \in S : n <= Max(S)
<1> DEFINE T == {b - n : n \in S}
<1>1. T \in SUBSET Nat /\ T # {}
  <2>1. \A n \in S : b - n \in Nat
    OBVIOUS
  <2>. QED
    BY <2>1, Zenon
<1> HIDE DEF T
<1>2. PICK t \in T : \A m \in T : t <= m
  BY <1>1, Least
<1>3. PICK x \in S : t = b - x
  BY DEF T
<1>4. \A n \in S : x >= n
  <2> TAKE n \in S
  <2>1. b - n \in T
    BY DEF T
  <2>. QED
    BY <1>2, <1>3, <2>1
<1>5. Max(S) \in S /\ \A n \in S : Max(S) >= n
  BY <1>4, Zenon DEF Max
<1>. QED
  BY <1>5

\* std::gcd divides both of its arguments.
LEMMA GcdDivides ==
  ASSUME NEW x \in Nat, NEW y \in Nat, x # 0 \/ y # 0
  PROVE  Gcd(x, y) \in Nat \ {0} /\ x % Gcd(x, y) = 0 /\ y % Gcd(x, y) = 0
<1> DEFINE D == {d \in 1 .. Max({x, y}) : x % d = 0 /\ y % d = 0}
<1>1. Max({x, y}) \in Nat \ {0}
  <2>1. Max({x, y}) \in {x, y} /\ \A n \in {x, y} : n <= Max({x, y})
    BY Greatest, x <= x + y, y <= x + y
  <2>. QED
    BY <2>1
<1>2. 1 \in D /\ D \in SUBSET Nat /\ \A d \in D : d <= Max({x, y})
  BY <1>1
<1>3. Max(D) \in D
  BY <1>1, <1>2, Greatest
<1>4. Gcd(x, y) = Max(D)
  BY DEF Gcd
<1>. HIDE DEF D
<1>5. \A d \in D : d \in Nat \ {0} /\ x % d = 0 /\ y % d = 0
  BY <1>1 DEF D
<1>. QED
  BY <1>3, <1>4, <1>5

\* A scale of the bounds of a screen: their ratio to 4:3, and no division by zero but for a
\* screen without width.
Fits(w, h, x, y) == (x = 0 => w = 0) /\ 3 * w * y = 4 * h * x

\* What a number is times the quotient by one of its divisors.
LEMMA Quotient ==
  ASSUME NEW n \in Nat, NEW d \in Nat \ {0}, n % d = 0
  PROVE  n \div d \in Nat /\ n = d * (n \div d)
OBVIOUS

LEMMA ScaleFits ==
  ASSUME NEW w \in Nat, NEW h \in Nat, Gcd(4 * h, 3 * w) # 0
  PROVE  LET gcd == Gcd(4 * h, 3 * w)
         IN  /\ (3 * w) \div gcd \in Nat /\ (4 * h) \div gcd \in Nat
             /\ Fits(w, h, (3 * w) \div gcd, (4 * h) \div gcd)
<1> DEFINE g == Gcd(4 * h, 3 * w)
           x == (3 * w) \div g
           y == (4 * h) \div g
<1>1. 4 * h # 0 \/ 3 * w # 0
  BY DEF Gcd
<1>2. g \in Nat \ {0} /\ (4 * h) % g = 0 /\ (3 * w) % g = 0
  BY <1>1, GcdDivides
<1> HIDE DEF g
<1>3. x \in Nat /\ y \in Nat /\ 3 * w = g * x /\ 4 * h = g * y
  BY <1>2, Quotient
<1> HIDE DEF x, y
<1>4. (3 * w) * y = (4 * h) * x
  BY <1>2, <1>3
<1>5. x = 0 => w = 0
  BY <1>2, <1>3
<1>. QED
  BY <1>3, <1>4, <1>5 DEF g, x, y, Fits

(***************************************************************************)
(* What SQHook holds fits, whether or not the last bounds had a divisor,   *)
(* and what it has handed to the machine did when it held that.            *)
(***************************************************************************)
ScreenInv ==
  /\ ScreenWidth \in Nat /\ ScreenHeight \in Nat /\ ScreenScaleX \in Nat /\ ScreenScaleY \in Nat
  /\ ScreenMode \in Nat
  /\ Fits(ScreenWidth, ScreenHeight, ScreenScaleX, ScreenScaleY)

MachineInv ==
  \E w, h, x, y, mode \in Nat : geometry = Geometry(w, h, x, y, mode) /\ Fits(w, h, x, y)

LEMMA GcdZero ==
  ASSUME NEW w \in Nat, NEW h \in Nat, Gcd(4 * h, 3 * w) = 0
  PROVE  w = 0 /\ h = 0
BY GcdDivides

LEMMA GeometryStep ==
  ASSUME ScreenInv, MachineInv, [GeometryNext]_geometryVars
  PROVE  ScreenInv' /\ MachineInv'
<1>1. ASSUME NEW b \in Bounds, GetScreenBounds(b[1], b[2])
      PROVE  ScreenInv' /\ MachineInv'
  <2> DEFINE w == b[1]
             h == b[2]
             gcd == Gcd(4 * h, 3 * w)
  <2>1. w \in Nat /\ h \in Nat
    BY GeometryAssumption
  <2> HIDE DEF w, h
  <2>2. CASE gcd = 0
    <3>1. /\ ScreenWidth' = 0 /\ ScreenHeight' = 0
          /\ UNCHANGED <<ScreenScaleX, ScreenScaleY, ScreenMode, geometry>>
      BY <1>1, <2>1, <2>2, GcdZero DEF GetScreenBounds, w, h
    <3>. QED
      BY <3>1 DEF ScreenInv, MachineInv, Fits
  <2>3. CASE gcd # 0
    <3>1. /\ ScreenWidth' = w /\ ScreenHeight' = h
          /\ ScreenScaleX' = (3 * w) \div gcd /\ ScreenScaleY' = (4 * h) \div gcd
          /\ UNCHANGED ScreenMode
          /\ UpdateScreenGeometry
      BY <1>1, <2>3 DEF GetScreenBounds, w, h
    <3>2. ScreenInv'
      BY <2>1, <2>3, <3>1, ScaleFits DEF ScreenInv
    <3>. QED
      BY <3>1, <3>2 DEF UpdateScreenGeometry, ScreenInv, MachineInv
  <2>. QED
    BY <2>2, <2>3
<1>2. ASSUME NEW mode \in Modes, SetAutoSize(mode)
      PROVE  ScreenInv' /\ MachineInv'
  <2>1. ScreenInv'
    BY <1>2, GeometryAssumption DEF SetAutoSize, ScreenInv
  <2>. QED
    BY <1>2, <2>1 DEF SetAutoSize, UpdateScreenGeometry, ScreenInv, MachineInv
<1>3. CASE UNCHANGED geometryVars
  BY <1>3 DEF geometryVars, screen, ScreenInv, MachineInv
<1>. QED
  BY <1>1, <1>2, <1>3 DEF GeometryNext

LEMMA GeometryInvariance == GeometrySpec => [](ScreenInv /\ MachineInv)
<1>1. GeometryInit => ScreenInv /\ MachineInv
  BY DEF GeometryInit, ScreenInv, MachineInv, Fits
<1>. QED
  BY <1>1, GeometryStep, PTL DEF GeometrySpec

-----------------------------------------------------------------------------
(* Theorems.                                                               *)

LEMMA Parts == Spec => PsxSpec /\ GeometrySpec
<1>1. Init => PsxInit /\ GeometryInit
  BY DEF Init
<1>2. [Next]_vars => [PsxNext]_psxVars /\ [GeometryNext]_geometryVars
  BY DEF Next, vars
<1>. QED
  BY <1>1, <1>2, PTL DEF Spec, PsxSpec, GeometrySpec

\* The types of the bridge's state.
THEOREM TypeCorrect == Spec => []PsxTypeOK
<1>1. IInv => PsxTypeOK
  BY DEF IInv
<1>. QED
  BY <1>1, Parts, Invariance, PTL

\* Each hook calls what the emulator had in the place that the hook has taken, whatever modules,
\* tables and ids there are and however the machines come and go: the handler of its own entry,
\* or of one with the same key, which the maps cannot tell from it, and never a hook or a null
\* (PSX::UserHandler, PSX::BindUserModules, PSX::BindKernelModules, PSX::main).
THEOREM OwnOriginalHolds == Spec => []OwnOriginal
<1>1. IInv => OwnOriginal
  <2>. SUFFICES ASSUME IInv PROVE OwnOriginal
    OBVIOUS
  <2>1. ASSUME NEW m \in loaded, NEW a \in Table[m], entries[<<m, a>>] = Hook
        PROVE  /\ \A pc \in Calls(m, a) : Reached(m, pc) \in Originals(m, a)
               /\ Reached(m, a) \in Modules \X {a}
    <3>1. m \in Modules /\ a \in Address
      BY PsxAssumption DEF IInv, PsxTypeOK
    <3>2. m \in early /\ a \in Listed(m)
      BY <2>1, <3>1, PsxAssumption DEF IInv, MapInv, EntriesInv
    <3>3. Kind[m] = "user" \/ Kind[m] = "kernel"
      BY <3>2 DEF IInv, PsxTypeOK
    <3>4. CASE Kind[m] = "user"
      BY <3>1, <3>2, <3>4, HandlerRight DEF Reached, Calls
    <3>5. CASE Kind[m] = "kernel"
      BY <3>2, <3>5, KernelRight DEF Reached, Calls
    <3>. QED
      BY <3>3, <3>4, <3>5
  <2>2. Execute = Hook => R3000_ExecuteFunc = processor
    BY DEF IInv, CpuInv
  <2>. QED
    BY <2>1, <2>2 DEF OwnOriginal
<1>. QED
  BY <1>1, Parts, Invariance, PTL

\* No machine that comes later lacks a hook that was made (PSX::LoadKernelModule and
\* PSX::LoadUserModule give every machine the same clone).
THEOREM HooksHoldAlways == Spec => []HooksHold
<1>1. IInv => HooksHold
  <2>. SUFFICES ASSUME IInv, NEW m \in early, NEW a \in Listed(m)
                PROVE  entries[<<m, a>>] = Hook
    BY DEF HooksHold
  <2>1. m \in Modules /\ a \in Address
    BY ListedType DEF IInv, PsxTypeOK
  <2>. QED
    BY <2>1 DEF IInv, MapInv, EntriesInv
<1>. QED
  BY <1>1, Parts, Invariance, PTL

\* For any bounds and modes in any order, the GTE hooks stretch by the ratio that the screen the
\* machine has been told of has to 4:3, and divide by zero only if it has no width
\* (SQReturn_util_get_multimonitor_screen_bounds, PSX::GTE_RotTransPersSX2).
THEOREM ProjectedTheorem == Spec => []Projected
<1>1. MachineInv => Projected
  <2> SUFFICES ASSUME NEW w \in Nat, NEW h \in Nat, NEW x \in Nat, NEW y \in Nat, NEW mode \in Nat,
                      geometry = Geometry(w, h, x, y, mode), Fits(w, h, x, y)
               PROVE  Projected
    BY DEF MachineInv
  <2>1. /\ geometry.width = w /\ geometry.height = h /\ geometry.scale_x = x
        /\ geometry.scale_y = y /\ geometry.mode = mode
    BY DEF Geometry
  <2>2. CASE mode = 3
    BY <2>1, <2>2 DEF Projected, Denominator, Numerator, Fits
  <2>3. CASE mode # 3
    BY <2>1, <2>3 DEF Projected, Denominator
  <2>. QED
    BY <2>2, <2>3
<1>. QED
  BY <1>1, Parts, GeometryInvariance, PTL
=============================================================================
