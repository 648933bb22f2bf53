----------------------------- MODULE SafeOutput ------------------------------
(***************************************************************************)
(* What the firmware promises to the fixtures on the DMX line, whatever    *)
(* the consoles, the network and the effects ask for: from one computed    *)
(* frame to the next a channel moves by at most the slew step of the       *)
(* safety profile in force, stays below the profile's ceiling, and, when   *)
(* the profile has just become stricter, comes down to the new ceiling at  *)
(* the full slew rate and never turns back up on the way.                  *)
(***************************************************************************)
EXTENDS VizzzCore

CONSTANTS MAX_CH, SAFE_MAX_LEVEL, SAFE_SLEW_STEP,
          BURN_SAFE_MAX_LEVEL, BURN_SAFE_SLEW_STEP

VARIABLES level,   \* the level of every channel in the last frame
          burn     \* is the burn-safe profile in force?

svars == <<level, burn>>

Chan == 1 .. MAX_CH

CeilingOf(b)  == IF b THEN BURN_SAFE_MAX_LEVEL ELSE SAFE_MAX_LEVEL
SlewStepOf(b) == IF b THEN BURN_SAFE_SLEW_STEP ELSE SAFE_SLEW_STEP

SInit ==
  /\ level = [c \in Chan |-> 0]
  /\ burn \in BOOLEAN

Frame ==
  /\ level' \in [Chan -> Level]
  /\ \A c \in Chan :
       /\ Abs(level'[c] - level[c]) <= SlewStepOf(burn)
       /\ level'[c] <= MaxOf(level[c] - SlewStepOf(burn), CeilingOf(burn))
  /\ UNCHANGED burn

SwitchProfile ==
  /\ burn' \in BOOLEAN
  /\ UNCHANGED level

SNext == Frame \/ SwitchProfile

SSpec == SInit /\ [][SNext]_svars
=============================================================================
