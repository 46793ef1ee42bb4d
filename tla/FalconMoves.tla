----------------------------- MODULE FalconMoves -----------------------------
(***************************************************************************)
(* What the host boundary tells apart in Captain Falcon's fighter: the     *)
(* class of the current state, and what one tick or one collision result   *)
(* may make of it.  FalconHost runs against this abstraction, and          *)
(* FalconFighter, the whole move timeline, is shown to keep to it.         *)
(***************************************************************************)
EXTENDS Naturals

\* "idle": wait, fall and landing, the states of the dive's grace period;
\* "run": every other state without an attack; "jab": the normal attacks.
Classes == {"idle", "run", "jab", "punch", "kick", "kickair", "dive"}
Moves   == Classes \cup {"catch", "throw"}

\* The classes a free fighter may take up at a tick; Classes is every one.
CONSTANT Starts
ASSUME StartsAssumption == Starts \subseteq Classes

\* impact_guard_state: the specials that own a native sprite consequence.
impact_guard_state(m) == m \in {"punch", "kick", "kickair"}

dive_iframe_state(m) == m \in {"dive", "catch", "throw"}

\* The classes a tick may reach.  Only a catch leads to the throw, and only
\* a collision result leads to the catch.
TickMoves(m) ==
  CASE m = "dive"  -> {"dive", "idle"}
    [] m = "catch" -> {"catch", "throw", "idle"}
    [] m = "throw" -> {"throw"} \cup Starts
    [] OTHER       -> Starts

\* The classes a collision result may reach.
ResolveMoves(m, hit) ==
  IF hit.connected /\ m = "dive" THEN {"catch"}
  ELSE IF hit.wall /\ m = "kick" /\ hit.grounded THEN {"idle"}
  ELSE IF hit.grounded /\ ~hit.imposed
  THEN CASE m = "kickair" -> {"idle"}
         [] m \in {"idle", "punch", "kick"} -> {m}
         [] OTHER -> {m, "idle"}
  ELSE {m} \cup {"idle"} \cup IF m = "kick" THEN {"run"} ELSE {}

\* The attack a tick may emit: the first frame of a move has none.
Attacks(m) ==
  CASE m \in {"jab", "punch", "kick", "kickair"} -> {"none", "strike"}
    [] m = "dive" -> {"none", "catch"}
    [] OTHER -> {"none"}
=============================================================================
