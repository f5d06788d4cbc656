---------------------------- MODULE ScreenGeometry ----------------------------
(***************************************************************************)
(* The geometry of the screen (sqhook.cpp, psx.cpp).  Two script functions *)
(* tell the mod the bounds of the screen and the mode the game is shown    *)
(* in; SQHook keeps both with the scale that it computes from the bounds,  *)
(* and hands all of it to the machine.  The machine's GTE hooks stretch    *)
(* what is projected by the scale.                                         *)
(*                                                                         *)
(* 4 * height and 3 * width are far below 2^32.                            *)
(***************************************************************************)
EXTENDS Integers, FiniteSetsExt

CONSTANTS
  Bounds,  \* The bounds that the game may report, as pairs of width and height,
  Modes    \* and the modes of SettingScreen.

ASSUME GeometryAssumption == Bounds \subseteq Nat \X Nat /\ Modes \subseteq Nat

VARIABLES
  ScreenWidth, ScreenHeight, ScreenScaleX, ScreenScaleY, ScreenMode,  \* SQHook's,
  geometry                                                            \* and the machine's.

screen == <<ScreenWidth, ScreenHeight, ScreenScaleX, ScreenScaleY, ScreenMode>>
geometryVars == <<screen, geometry>>

Geometry(w, h, x, y, mode) == [width |-> w, height |-> h, scale_x |-> x, scale_y |-> y, mode |-> mode]

GeometryInit ==
  /\ ScreenWidth = 0 /\ ScreenHeight = 0 /\ ScreenScaleX = 0 /\ ScreenScaleY = 0 /\ ScreenMode = 0
  /\ geometry = Geometry(0, 0, 0, 0, 0)

\* std::gcd.
Gcd(x, y) ==
  IF x = 0 /\ y = 0 THEN 0 ELSE Max({d \in 1 .. Max({x, y}) : x % d = 0 /\ y % d = 0})

\* PSX::UpdateScreenGeometry, with what SQHook holds by then.
UpdateScreenGeometry ==
  geometry' = Geometry(ScreenWidth', ScreenHeight', ScreenScaleX', ScreenScaleY', ScreenMode')

\* Faulty variant: the scale is computed from the bounds that were there before.
StaleBounds(w, h) ==
  /\ ScreenWidth' = w /\ ScreenHeight' = h
  /\ LET gcd == Gcd(4 * ScreenHeight, 3 * ScreenWidth)
     IN  IF gcd = 0 THEN UNCHANGED <<ScreenScaleX, ScreenScaleY, ScreenMode, geometry>>
         ELSE /\ ScreenScaleX' = (3 * ScreenWidth) \div gcd
              /\ ScreenScaleY' = (4 * ScreenHeight) \div gcd
              /\ UNCHANGED ScreenMode
              /\ UpdateScreenGeometry

\* SQReturn_util_get_multimonitor_screen_bounds: without a greatest common divisor, as for the
\* bounds of a minimised window, nothing is handed on.
GetScreenBounds(w, h) ==
  /\ ScreenWidth' = w /\ ScreenHeight' = h
  /\ LET gcd == Gcd(4 * h, 3 * w)
     IN  IF gcd = 0 THEN UNCHANGED <<ScreenScaleX, ScreenScaleY, ScreenMode, geometry>>
         ELSE /\ ScreenScaleX' = (3 * w) \div gcd /\ ScreenScaleY' = (4 * h) \div gcd
              /\ UNCHANGED ScreenMode
              /\ UpdateScreenGeometry

\* _SQReturn_setting_screen_set_parameter_auto_size.
SetAutoSize(mode) ==
  /\ ScreenMode' = mode
  /\ UNCHANGED <<ScreenWidth, ScreenHeight, ScreenScaleX, ScreenScaleY>>
  /\ UpdateScreenGeometry

GeometryNext ==
  \/ \E b \in Bounds : GetScreenBounds(b[1], b[2])
  \/ \E mode \in Modes : SetAutoSize(mode)

GeometrySpec == GeometryInit /\ [][GeometryNext]_geometryVars

-----------------------------------------------------------------------------
(* GTE_RotTransPersSX2 and GTE_RotTransPersSX2P multiply a coordinate by   *)
(* Numerator and divide it by Denominator, with bInternalWidescreen on.    *)

Denominator ==
  IF geometry.mode = 3 THEN geometry.scale_x ELSE IF geometry.mode = 7 THEN 4 ELSE 1
Numerator ==
  IF geometry.mode = 3 THEN geometry.scale_y ELSE IF geometry.mode = 7 THEN 3 ELSE 1

-----------------------------------------------------------------------------
(* Properties.                                                             *)

\* In whatever order bounds, degenerate ones among them, and modes are reported, what the GTE
\* hooks divide by is not zero unless the machine has the screen's mode and no width, and then
\* they stretch by the ratio of the bounds that the machine has to 4:3 (psx.cpp:355-394).
Projected ==
  /\ Denominator = 0 => geometry.mode = 3 /\ geometry.width = 0
  /\ geometry.mode = 3 =>
       3 * geometry.width * Numerator = 4 * geometry.height * Denominator
=============================================================================
