----------------------------- MODULE VizzzCore -----------------------------
(***************************************************************************)
(* The level arithmetic of include/vizzz_core.h, and the fade              *)
(* interpolation of updateFade_locked in src/main.cpp.                     *)
(*                                                                         *)
(* A channel level is a uint8_t.  Its largest value is the parameter Full  *)
(* (255 in the firmware): every shift by 8 in the code is a multiplication *)
(* or a division by Scale = Full + 1, so the same definitions are checked  *)
(* at full width for the pure functions and at 3 or 4 bits inside the      *)
(* state machines.                                                         *)
(***************************************************************************)
EXTENDS Integers

CONSTANTS
  Full,   \* UINT8_MAX: the level of a channel, or a dimmer, fully on
  U32     \* number of values of a uint32_t

ASSUME FullAssumption == Full \in Nat \ {0}
ASSUME U32Assumption  == U32 \in Nat \ {0}

Level == 0 .. Full
Scale == Full + 1

Abs(x) == IF x < 0 THEN -x ELSE x
MaxOf(a, b) == IF a >= b THEN a ELSE b
MinOf(a, b) == IF a <= b THEN a ELSE b

\* Arduino's constrain(x, lo, hi): lo wins when the interval is empty.
constrain(x, lo, hi) == IF x < lo THEN lo ELSE IF x > hi THEN hi ELSE x

\* uint8 * uint8 >> 8; a dimmer at Full is the identity.
applyMaster(value, master) ==
  IF master >= Full THEN value ELSE (value * master) \div Scale

\* mutant: the ceiling is off by one
clampLevelOffByOne(value, ceiling) == IF value > ceiling THEN ceiling + 1 ELSE value

clampLevel(value, ceiling) == IF value > ceiling THEN ceiling ELSE value

\* mutant: the downward branch forgets that the last step may be shorter
slewTowardUndershoot(current, target, step) ==
  IF step = 0 \/ current = target THEN target
  ELSE IF target > current
       THEN IF current + step > target THEN target ELSE current + step
       ELSE current - step

slewToward(current, target, step) ==
  IF step = 0 \/ current = target THEN target
  ELSE IF target > current
       THEN IF current + step > target THEN target ELSE current + step
       ELSE IF target + step < current THEN current - step ELSE target

\* k of updateFade_locked: elapsed is shifted in 32 bits before the division.
fadeK(elapsed, timeMs) == ((elapsed * Scale) % U32) \div timeMs

\* mutant: the difference is taken without its sign
fadeLevelUnsigned(from, to, k) == from + (Abs(to - from) * k) \div Scale

\* from + ((delta * k) >> 8): the shift of a negative int rounds down, as \div.
fadeLevel(from, to, k) == from + ((to - from) * k) \div Scale
=============================================================================
