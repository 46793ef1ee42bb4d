--------------------------- MODULE FalconFighter ---------------------------
(***************************************************************************)
(* Captain Falcon's locomotion and move timeline                           *)
(* (src/mods/falcon/falcon_locomotion.c) driven by the controller around   *)
(* it (captain_falcon_foreign.c).  One host frame is two steps: Tick, the  *)
(* fighter's whole falcon_tick with the footing the host reports, and      *)
(* Resolve, what the host's collision permitted.                           *)
(*                                                                         *)
(* Velocities keep what the code branches on: vy is the sign of vel_air_y, *)
(* with the launch value of a fresh jump and the fast-fall speed apart;    *)
(* horizontal speed steers nothing and is left out.  A frame counter is    *)
(* kept exactly where the code asks for it (Marks) and as the last mark    *)
(* passed elsewhere, so that every run of the real counter is a run of     *)
(* this one.  anim_frame, state_frame and kneebend_anim_frame are reset    *)
(* and advanced together and are one field here.                           *)
(***************************************************************************)
EXTENDS Integers, FiniteSets

CONSTANTS
  Inputs,       \* the FalconInputRaw records the host may deliver
  Hits,         \* the collision results it may report
  MaxJumps      \* cap on the count of jumps (it grows without end in water)

ASSUME InputsAssumption ==
  Inputs \subseteq [stick_x : -80 .. 80, stick_y : -80 .. 80,
                    jump_pressed : BOOLEAN, attack : BOOLEAN,
                    special : BOOLEAN, unlimited : BOOLEAN]
ASSUME HitsAssumption ==
  Hits \subseteq [grounded : BOOLEAN, ceiling : BOOLEAN, wall : BOOLEAN,
                  connected : BOOLEAN, imposed : {"none", "up", "down"}]
ASSUME MaxJumpsAssumption == MaxJumps \in Nat /\ MaxJumps >= 2

VARIABLES
  f,        \* the FalconFighter record
  phase,    \* "tick": the host's frame begins; "resolve": its collision is due
  attack,   \* the tick's attack: "none", "strike" or "catch" (contact_only)
  cues,     \* the audio cues the tick emitted
  move,     \* history: the cues of the current special so far, and a repeat
  credit    \* history: the aerial jumps still due before the next landing

vars == <<f, phase, attack, cues, move, credit>>

----------------------------------------------------------------------------
(* The states of FalconState, and their lengths.                            *)

Walks     == {"WALK_SLOW", "WALK_MIDDLE", "WALK_FAST"}
Landings  == {"LANDING_LIGHT", "LANDING_HEAVY"}
Jumps     == {"JUMP_F", "JUMP_B"}
AerialJumps == {"JUMP_AERIAL_F", "JUMP_AERIAL_B"}
Falls     == {"FALL", "FALL_AERIAL"}
AirAttacks == {"ATTACK_AIR_N", "ATTACK_AIR_F", "ATTACK_AIR_B", "ATTACK_AIR_LW"}
Punches   == {"PUNCH_GROUND", "PUNCH_AIR"}
Dives     == {"DIVE_GROUND", "DIVE_AIR"}
GroundMoves == {"JAB", "FTILT", "PUNCH_GROUND", "KICK_GROUND"}

FalconState ==
  {"WAIT", "DASH", "RUN", "RUN_BRAKE", "TURN", "TURN_RUN", "KNEEBEND",
   "KICK_GROUND_AIR", "KICK_LANDING", "KICK_AIR", "KICK_BOUND",
   "DIVE_CATCH", "DIVE_THROW", "DIVE_FALL", "DIVE_LANDING"}
    \cup Walks \cup Landings \cup Jumps \cup AerialJumps \cup Falls
    \cup AirAttacks \cup GroundMoves \cup Punches \cup Dives

\* A length of 0 is a loop: the animation never ends by itself.
s_state_length ==
  [s \in FalconState |->
    CASE s = "DASH" -> 21
      [] s = "RUN" -> 14
      [] s = "RUN_BRAKE" -> 6
      [] s \in {"TURN", "KNEEBEND"} -> 4
      [] s = "TURN_RUN" -> 19
      [] s \in Jumps \cup {"KICK_GROUND_AIR"} -> 30
      [] s \in AerialJumps -> 6
      [] s = "LANDING_LIGHT" -> 8
      [] s \in {"LANDING_HEAVY", "DIVE_CATCH"} -> 16
      [] s = "JAB" -> 21
      [] s = "FTILT" -> 29
      [] s = "ATTACK_AIR_N" -> 49
      [] s = "ATTACK_AIR_F" -> 44
      [] s = "ATTACK_AIR_B" -> 35
      [] s = "ATTACK_AIR_LW" -> 40
      [] s \in Punches -> 89
      [] s = "KICK_GROUND" -> 85
      [] s = "KICK_LANDING" -> 45
      [] s = "KICK_AIR" -> 50
      [] s \in {"KICK_BOUND", "DIVE_THROW"} -> 60
      [] s \in Dives -> 65
      [] s = "DIVE_LANDING" -> 17          \* 11 / 0.65 = 16.9, reached at 17
      [] OTHER -> 0]                       \* WAIT, the walks and the falls

\* The frames at which the code asks something of the counter, per state.
Marks ==
  [s \in FalconState |->
    {0, 1, s_state_length[s]} \cup
    CASE s = "DASH" -> {5, 6, 16, 17, 20}
      [] s = "RUN_BRAKE" -> {4, 5}
      [] s \in Landings -> {4}
      [] s = "JAB" -> {5, 9}
      [] s = "FTILT" -> {9, 16}
      [] s = "ATTACK_AIR_N" -> {4, 28}
      [] s = "ATTACK_AIR_F" -> {7, 13, 21, 29}
      [] s = "ATTACK_AIR_B" -> {7, 19}
      [] s = "ATTACK_AIR_LW" -> {7, 8, 25}
      [] s \in Punches -> {42, 43, 56}
      [] s \in {"KICK_GROUND", "KICK_AIR"} -> {12, 13, 32}
      [] s = "KICK_GROUND_AIR" -> {16}
      [] s \in Dives -> {13, 14, 16, 45}
      [] s \in {"KICK_LANDING", "DIVE_CATCH"} -> {2}
      [] OTHER -> {}]

\* anim_frame and state_frame advance by one: exactly when the next frame is
\* a mark, and otherwise either on to the next mark or not yet that far.
NextFrames(s, t) ==
  IF t + 1 \in Marks[s] THEN {t + 1}
  ELSE {t} \cup {m \in Marks[s] : m > t /\ \A n \in Marks[s] : n > t => m <= n}

set_status(g, s) == [g EXCEPT !.state = s, !.frame = 0]

is_air_state(s) ==
  s \in Jumps \cup AerialJumps \cup Falls \cup AirAttacks \cup Dives
          \cup {"PUNCH_AIR", "KICK_GROUND_AIR", "KICK_AIR", "KICK_BOUND",
                "DIVE_CATCH", "DIVE_THROW", "DIVE_FALL"}

anim_ended(g) == s_state_length[g.state] > 0 /\ g.frame >= s_state_length[g.state]

----------------------------------------------------------------------------
(* Vertical physics.  A fresh launch is many frames of gravity above zero;  *)
(* after its first tick the sign may change at any later one.               *)

VSpeed == {"launch", "up", "rest", "down", "fast"}
Rising(v) == v \in {"launch", "up"}
Falling(v) == v \in {"down", "fast"}

phys_gravity(v) ==
  CASE v = "launch" -> {"up"}
    [] v = "up" -> {"up", "rest", "down"}
    [] OTHER -> {"down"}                \* the clamp ends a fast fall as well

phys_check_set_fastfall(g, in) ==
  IF ~g.is_fastfall /\ Falling(g.vy) /\ in.stick_y <= -53 /\ g.tap_y < 4
  THEN [g EXCEPT !.is_fastfall = TRUE, !.tap_y = 4]
  ELSE g

\* Friction, traction and the walk's stick speed move horizontally only.
phys_ground(g) == {g}

phys_air_tick(g0, in) ==
  LET g == phys_check_set_fastfall(g0, in)
  IN  IF g.is_fastfall THEN {[g EXCEPT !.vy = "fast"]}
      ELSE {[g EXCEPT !.vy = v] : v \in phys_gravity(g.vy)}

\* The dive's own speed is horizontal, its rise comes from the root motion.
phys_falcon_dive_launch(g) == {[g EXCEPT !.vy = "rest"]}

\* The fall after a dive clamps the horizontal speed differently.
phys_falcon_dive_fall(g, in) == phys_air_tick(g, in)

----------------------------------------------------------------------------
(* State entry.                                                             *)

Toward(g, in) == in.stick_x * g.lr         \* the stick relative to the facing
Sign(n) == IF n < 0 THEN -1 ELSE 1
Abs(n) == IF n < 0 THEN -n ELSE n

enter_wait(g) == set_status([g EXCEPT !.grounded = TRUE], "WAIT")

walk_status_for(in) ==
  IF Abs(in.stick_x) >= 62 THEN "WALK_FAST"
  ELSE IF Abs(in.stick_x) >= 26 THEN "WALK_MIDDLE" ELSE "WALK_SLOW"

enter_dash(g) == set_status([g EXCEPT !.tap_x = 4], "DASH")

enter_turn(g, lr_dash) ==
  set_status([g EXCEPT !.turn_flag1 = FALSE, !.turn_lr_dash = lr_dash,
                       !.turn_lr_turn = -g.lr], "TURN")

enter_turn_run(g) == set_status([g EXCEPT !.turn_flag1 = FALSE], "TURN_RUN")

\* The kneebend's working set (source, short hop, peak stick) selects among
\* launch heights, every one of them far above a frame of gravity.
enter_kneebend(g) == set_status(g, "KNEEBEND")

\* jump_force_button and the stick's own force differ in height only.

enter_jump(g, in) ==
  set_status([g EXCEPT !.grounded = FALSE, !.vy = "launch", !.tap_y = 4,
                       !.jumps_used = 1],
             IF Toward(g, in) > -10 THEN "JUMP_F" ELSE "JUMP_B")

enter_jump_aerial(g, in) ==
  set_status([g EXCEPT !.grounded = FALSE, !.vy = "launch", !.tap_y = 4,
                !.jumps_used = IF @ < MaxJumps THEN @ + 1 ELSE @],
             IF Toward(g, in) >= -10 THEN "JUMP_AERIAL_F" ELSE "JUMP_AERIAL_B")

\* Mutant: the state falls while the fighter still believes in the ground.
EnterFallStateOnly(g) ==
  set_status(g, IF g.jumps_used >= 2 THEN "FALL_AERIAL" ELSE "FALL")

enter_fall(g) ==
  set_status([g EXCEPT !.grounded = FALSE],
             IF g.jumps_used >= 2 THEN "FALL_AERIAL" ELSE "FALL")

Touchdown(g) ==
  [g EXCEPT !.grounded = TRUE, !.jumps_used = 0, !.is_fastfall = FALSE,
            !.vy = "rest"]

enter_landing(g) ==
  set_status(Touchdown(g), IF g.is_fastfall /\ g.vy = "fast"
                           THEN "LANDING_HEAVY" ELSE "LANDING_LIGHT")

is_falcon_kick_wall_state(s) ==
  s \in {"KICK_GROUND", "KICK_GROUND_AIR", "KICK_AIR"}

\* Mutant: the wall recoils the fighter, as in the source game.
KickRecoils(g, grounded) ==
  IF grounded THEN enter_wait(g)
  ELSE set_status([g EXCEPT !.grounded = FALSE, !.vy = "rest"], "KICK_BOUND")

enter_falcon_kick_wall_stop(g, grounded) ==
  LET stopped == [g EXCEPT !.vy = "rest"]
  IN  IF grounded THEN enter_wait(stopped) ELSE enter_fall(stopped)

enter_falcon_dive(g, s) ==
  set_status([g EXCEPT !.grounded = FALSE, !.jumps_used = 2,
                       !.is_fastfall = FALSE, !.vy = "rest"], s)

enter_falcon_dive_catch(g) ==
  set_status([g EXCEPT !.grounded = FALSE, !.vy = "rest"], "DIVE_CATCH")

enter_falcon_dive_throw(g) ==
  set_status([g EXCEPT !.grounded = FALSE, !.vy = "rest"], "DIVE_THROW")

enter_falcon_dive_fall(g) ==
  set_status([g EXCEPT !.grounded = FALSE, !.jumps_used = 2], "DIVE_FALL")

enter_falcon_dive_landing(g) == set_status(Touchdown(g), "DIVE_LANDING")

\* Mutant: the landing enters the grounded punch from its first frame.
PunchRestarts(g) == set_status([g EXCEPT !.vy = "rest"], "PUNCH_GROUND")

\* An aerial punch that reaches the floor keeps its frame.
PunchLands(g) == [g EXCEPT !.state = "PUNCH_GROUND", !.vy = "rest"]

enter_special(g, in, kick, dive, punch) ==
  IF in.stick_y <= -40 THEN set_status(g, kick)
  ELSE IF in.stick_y >= 40 THEN enter_falcon_dive(g, dive)
  ELSE set_status([g EXCEPT !.lr = IF Toward(g, in) < 0 THEN -@ ELSE @], punch)

enter_ground_special(g, in) ==
  enter_special(g, in, "KICK_GROUND", "DIVE_GROUND", "PUNCH_GROUND")

enter_air_special(g, in) ==
  enter_special(g, in, "KICK_AIR", "DIVE_AIR", "PUNCH_AIR")

----------------------------------------------------------------------------
(* Interrupt checks.  A check that applies is the set of its one result, a  *)
(* check that does not is empty, and a ?? b is the first that applies.      *)

a ?? b == IF a # {} THEN a ELSE b
When(cond, g) == IF cond THEN {g} ELSE {}

check_ground_special(g, in) == When(in.special, enter_ground_special(g, in))

check_air_special(g, in) == When(in.special, enter_air_special(g, in))

\* Up and down tilts are reserved: the button is consumed and nothing starts.
check_ground_attack(g, in) ==
  When(in.attack,
       IF Abs(in.stick_y) >= 20 THEN g
       ELSE IF Abs(in.stick_x) >= 20
       THEN set_status([g EXCEPT !.lr = Sign(in.stick_x)], "FTILT")
       ELSE set_status(g, "JAB"))

check_air_attack(g, in) ==
  When(in.attack,
       IF in.stick_y <= -20 THEN set_status(g, "ATTACK_AIR_LW")
       ELSE IF in.stick_y >= 20 THEN g
       ELSE IF Abs(in.stick_x) < 20 THEN set_status(g, "ATTACK_AIR_N")
       ELSE set_status(g, IF Toward(g, in) >= 0 THEN "ATTACK_AIR_F"
                                                ELSE "ATTACK_AIR_B"))

check_dash(g, in) ==
  When(Abs(in.stick_x) >= 56 /\ g.tap_x < 3,
       IF Toward(g, in) < 0 THEN enter_turn(g, -g.lr)
       ELSE enter_dash([g EXCEPT !.lr = Sign(in.stick_x)]))

check_turn(g, in) == When(Toward(g, in) <= -20, enter_turn(g, 0))

check_walk(g, in) ==
  When(Toward(g, in) >= 8, set_status(g, walk_status_for(in)))

check_wait(g, in) ==
  When(Toward(g, in) < 0 \/ Abs(in.stick_x) < 8, enter_wait(g))

kneebend_input_type(g, in, from_run) ==
  IF (IF from_run THEN in.stick_y > 44 ELSE in.stick_y >= 53) /\ g.tap_y <= 3
  THEN "stick"
  ELSE IF in.jump_pressed THEN "button" ELSE "none"

check_kneebend(g, in, from_run) ==
  When(kneebend_input_type(g, in, from_run) # "none", enter_kneebend(g))

check_jump_aerial(g, in) ==
  When(/\ in.unlimited \/ g.jumps_used < 2
       /\ (in.stick_y >= 53 /\ g.tap_y <= 3) \/ in.jump_pressed,
       enter_jump_aerial(g, in))

check_run_from_dash(g, in) ==
  When(g.frame = 16 /\ Toward(g, in) >= 50, set_status(g, "RUN"))

check_run_brake_from_run(g, in) ==
  When(Toward(g, in) < 50, set_status(g, "RUN_BRAKE"))

check_turn_run_from_run(g, in) ==
  When(Toward(g, in) <= -30, enter_turn_run(g))

----------------------------------------------------------------------------
(* The per-state procedures of one tick, in their order.                    *)

Flip(g, at) ==
  IF ~g.turn_flag1 /\ g.frame >= at
  THEN [g EXCEPT !.turn_flag1 = TRUE, !.lr = -@] ELSE g

\* What an ended animation turns into; a loop stays.
proc_update(g, in) ==
  LET s == g.state
      ToWait == {"DASH", "RUN_BRAKE", "DIVE_LANDING", "KICK_LANDING"}
                  \cup Landings \cup GroundMoves
      ToFall == Jumps \cup AerialJumps \cup AirAttacks
                  \cup {"PUNCH_AIR", "KICK_AIR", "KICK_BOUND", "DIVE_THROW"}
  IN  CASE s = "TURN" ->
             LET t == Flip(g, 4) IN IF anim_ended(t) THEN enter_wait(t) ELSE t
        [] s = "TURN_RUN" ->
             LET t == Flip(g, 19)
             IN  IF anim_ended(t) THEN set_status(t, "RUN") ELSE t
        [] s = "KNEEBEND" ->
             IF g.frame >= 4 THEN enter_jump(g, in) ELSE g
        [] s \in Dives ->
             LET t == [g EXCEPT !.lr = IF g.frame = 13 /\ Abs(in.stick_x) > 18
                                       THEN Sign(in.stick_x) ELSE @]
             IN  IF anim_ended(t) THEN enter_falcon_dive_fall(t) ELSE t
        [] s = "DIVE_CATCH" /\ anim_ended(g) -> enter_falcon_dive_throw(g)
        [] s = "KICK_GROUND_AIR" /\ anim_ended(g) ->
             IF g.grounded THEN enter_wait(g) ELSE enter_fall(g)
        [] s \in ToWait /\ anim_ended(g) -> enter_wait(g)
        [] s \in ToFall /\ anim_ended(g) -> enter_fall(g)
        [] OTHER -> g

Specials(g, in) == check_ground_special(g, in) ?? check_ground_attack(g, in)

GroundInterrupts(g, in) ==
  Specials(g, in) ?? check_kneebend(g, in, FALSE) ?? check_dash(g, in)
    ?? check_turn(g, in) ?? check_walk(g, in)

\* RUN_BRAKE's motion_flag1 is set by the only way into that state.
proc_interrupt(g, in) ==
  LET s == g.state
      taken ==
        CASE s = "WAIT" \/ (s \in Landings /\ g.frame >= 4) ->
               GroundInterrupts(g, in)
          [] s \in Walks ->
               Specials(g, in) ?? check_kneebend(g, in, FALSE)
                 ?? check_dash(g, in) ?? check_wait(g, in)
                 ?? {[g EXCEPT !.state = walk_status_for(in)]}
          [] s = "DASH" ->
               Specials(g, in)
                 ?? (IF g.frame \in 6 .. 20 /\ Toward(g, in) < 0
                     THEN check_dash(g, in) ELSE {})
                 ?? check_kneebend(g, in, TRUE) ?? check_run_from_dash(g, in)
          [] s = "RUN" ->
               Specials(g, in) ?? check_kneebend(g, in, TRUE)
                 ?? check_turn_run_from_run(g, in)
                 ?? check_run_brake_from_run(g, in)
          [] s = "RUN_BRAKE" ->
               Specials(g, in) ?? check_kneebend(g, in, TRUE)
                 ?? (IF g.frame <= 4 THEN check_turn_run_from_run(g, in) ELSE {})
          [] s = "TURN" ->
               Specials(g, in) ?? check_kneebend(g, in, FALSE)
                 ?? When(/\ g.turn_flag1 /\ g.turn_lr_dash # 0
                         /\ in.stick_x * g.turn_lr_turn >= 56 /\ g.tap_x < 3,
                         enter_dash(g))
          [] s = "TURN_RUN" -> Specials(g, in) ?? check_kneebend(g, in, TRUE)
          [] s \in Jumps \cup AerialJumps \cup Falls ->
               check_air_special(g, in) ?? check_air_attack(g, in)
                 ?? check_jump_aerial(g, in)
          [] OTHER -> {}
  IN  CHOOSE h \in taken ?? {g} : TRUE

proc_physics(g, in) ==
  CASE g.state \in Jumps \cup AerialJumps \cup Falls \cup AirAttacks
                     \cup {"PUNCH_AIR"} -> phys_air_tick(g, in)
    [] g.state = "KICK_GROUND_AIR" /\ ~g.grounded /\ g.frame >= 16 ->
         phys_air_tick(g, in)
    [] g.state \in Dives \cup {"DIVE_CATCH"} -> phys_falcon_dive_launch(g)
    [] g.state = "DIVE_FALL" -> phys_falcon_dive_fall(g, in)
    [] OTHER -> phys_ground(g)

\* The moves whose velocity is the root motion of the owner's animation; a
\* cache without the track leaves the velocity of proc_physics.
cf_root_motion_animation(g) ==
  \/ g.state \in {"KICK_GROUND", "KICK_LANDING", "KICK_AIR", "KICK_BOUND",
                  "DIVE_THROW"} \cup Dives
  \/ g.state = "KICK_GROUND_AIR" /\ (g.grounded \/ g.frame < 16)

RootMotion(g) ==
  IF cf_root_motion_animation(g) /\ ~g.grounded
  THEN {[g EXCEPT !.vy = v] : v \in {"up", "rest", "down", g.vy}} ELSE {g}

----------------------------------------------------------------------------
(* The tick.                                                                *)

\* Age of a stick tap: 1 on the frame the stick leaves the dead zone, 4 for
\* every age of four frames or more, a neutral stick (254 in the code) too.
Zone(stick) == IF stick >= 20 THEN 1 ELSE IF stick <= -20 THEN -1 ELSE 0

TapAge(age, was, now) ==
  IF now = 0 THEN 4 ELSE IF was # now THEN 1 ELSE IF age < 4 THEN age + 1 ELSE 4

update_tap_buffers(g, in) ==
  [g EXCEPT !.tap_x = TapAge(@, g.prev_x, Zone(in.stick_x)),
            !.tap_y = TapAge(@, g.prev_y, Zone(in.stick_y)),
            !.prev_x = Zone(in.stick_x), !.prev_y = Zone(in.stick_y)]

\* Adopt a footing the fighter did not choose.
Reconcile(g, in, cause) ==
  IF ~g.grounded /\ g.state = "KICK_GROUND"
  THEN LET h == [g EXCEPT !.jumps_used = 1]
       IN  IF g.frame >= 32 THEN set_status(h, "KICK_GROUND_AIR") ELSE h
  ELSE IF ~g.grounded /\ ~is_air_state(g.state)
  THEN IF cause = "launched"
       THEN enter_jump(g, in)
       ELSE [enter_fall(g) EXCEPT !.jumps_used = 0]
  ELSE IF g.grounded /\ is_air_state(g.state)
  THEN CASE g.state = "KICK_GROUND_AIR" -> g
         [] g.state = "PUNCH_AIR" -> PunchLands(g)
         [] g.state = "KICK_AIR" -> enter_wait(g)
         [] g.state = "DIVE_FALL" -> enter_falcon_dive_landing(g)
         [] OTHER -> enter_landing(g)
  ELSE g

emit_attack(g) ==
  LET t == g.frame
      In(lo, hi) == lo <= t /\ t < hi
      strike ==
        CASE g.state = "JAB" -> In(5, 9)
          [] g.state = "FTILT" -> In(9, 16)
          [] g.state = "ATTACK_AIR_N" -> In(4, 28)
          [] g.state = "ATTACK_AIR_F" -> In(7, 13) \/ In(21, 29)
          [] g.state = "ATTACK_AIR_B" -> In(7, 19)
          [] g.state = "ATTACK_AIR_LW" -> In(7, 25)
          [] g.state \in Punches -> In(42, 56)
          [] g.state \in {"KICK_GROUND", "KICK_AIR"} -> In(12, 32)
          [] g.state = "KICK_LANDING" -> t <= 1
          [] OTHER -> FALSE
  IN  IF strike THEN "strike"
      ELSE IF g.state \in Dives /\ In(13, 45) THEN "catch" ELSE "none"

emit_audio(g) ==
  LET At(states, t, set) == IF g.state \in states /\ g.frame = t THEN set ELSE {}
      Kicks == {"KICK_GROUND", "KICK_AIR"}
  IN  At(Jumps \cup AerialJumps, 0, {"JUMP_EFFORT"})
        \cup At(Punches, 0, {"PUNCH_FALCON"})
        \cup At(Kicks, 0, {"KICK", "KICK_SWING"})
        \cup At({"DIVE_THROW"}, 0, {"DIVE_EXPLODE", "DIVE_VOICE"})
        \cup At(Punches, 42, {"PUNCH_PUNCH", "PUNCH_IMPACT"})
        \cup At(Kicks, 12, {"KICK_START"})
        \cup At(Dives, 13, {"DIVE_LAUNCH"})
        \cup At({"ATTACK_AIR_LW"}, 7, {"KICK_SWING"})
        \cup At({"DIVE_CATCH"}, 1, {"DIVE_CATCH"})

\* A special is one move from its entry to its end, whatever the spellings
\* of its state in between.
Family(s) ==
  CASE s \in Punches -> "punch"
    [] s \in {"KICK_GROUND", "KICK_GROUND_AIR", "KICK_AIR"} -> "kick"
    [] s \in Dives \cup {"DIVE_CATCH", "DIVE_THROW"} -> "dive"
    [] OTHER -> "none"

\* A move begins when a tick enters one of its first states.
MoveStep(g, emitted, ticked) ==
  LET begins == ticked /\ g.frame = 0
                  /\ g.state \in Punches \cup Dives \cup {"KICK_GROUND", "KICK_AIR"}
      old == IF Family(g.state) = move.family /\ ~begins THEN move.cues ELSE {}
  IN  [family |-> Family(g.state), cues |-> old \cup emitted,
       again |-> Family(g.state) # "none" /\ old \cap emitted # {}]

\* The aerial jumps still due in this stay off the ground: one after a jump,
\* two after any other way into the air, none after a dive.
CreditStep(g, jumped) ==
  IF g.grounded THEN 2
  ELSE IF Family(g.state) = "dive" THEN IF credit < 0 THEN credit ELSE 0
  ELSE IF jumped THEN credit - 1
  ELSE IF f.grounded /\ g.state \in Jumps THEN 1 ELSE credit

falcon_tick(g0, in, grounded, cause) ==
  LET g1 == update_tap_buffers([g0 EXCEPT !.grounded = grounded], in)
      forced == \/ g1.state = "KICK_BOUND" /\ g1.frame = 0
                \/ g1.state = "DIVE_GROUND" /\ g1.frame <= 15
      g2 == Reconcile([g1 EXCEPT !.grounded = @ /\ ~forced], in, cause)
      advanced == {[g2 EXCEPT !.frame = t] : t \in NextFrames(g2.state, g2.frame)}
  IN  UNION {proc_physics(proc_interrupt(proc_update(g, in), in), in)
               : g \in advanced}

\* One controller frame: the host's footing and its reason, then the tick.
Tick(in, grounded, cause) ==
  /\ phase = "tick"
  /\ \E g \in UNION {RootMotion(h) : h \in falcon_tick(f, in, grounded, cause)} :
       /\ f' = g
       /\ attack' = emit_attack(g)
       /\ cues' = emit_audio(g)
       /\ move' = MoveStep(g, emit_audio(g), TRUE)
       /\ credit' = CreditStep(g, /\ ~in.unlimited
                                  /\ g.state \in AerialJumps /\ g.frame = 0)
  /\ phase' = "resolve"

----------------------------------------------------------------------------
(* The host's collision.                                                    *)

falcon_resolve(g, hit) ==
  LET stopped ==      \* ceiling, then the velocity the host imposes
        [g EXCEPT !.vy = IF hit.imposed # "none" THEN hit.imposed
                         ELSE IF hit.ceiling /\ Rising(@) THEN "rest" ELSE @]
      lands == hit.grounded /\ hit.imposed # "up"
      airborne ==
        IF hit.grounded /\ g.state = "DIVE_GROUND" /\ g.frame <= 15 THEN stopped
        ELSE IF lands
        THEN CASE g.state \in {"KICK_GROUND", "KICK_GROUND_AIR"} ->
                    [stopped EXCEPT !.grounded = TRUE, !.vy = "rest"]
               [] g.state = "PUNCH_AIR" ->
                    PunchLands([stopped EXCEPT !.grounded = TRUE])
               [] g.state = "KICK_AIR" -> enter_wait(stopped)
               [] g.state = "DIVE_FALL" -> enter_falcon_dive_landing(stopped)
               [] OTHER -> enter_landing(stopped)
        ELSE stopped
      offEdge ==
        LET h == [g EXCEPT !.vy = IF hit.imposed # "none" THEN hit.imposed ELSE @]
        IN  IF g.state # "KICK_GROUND" THEN enter_fall(h)
            ELSE IF g.frame >= 32
            THEN set_status([h EXCEPT !.jumps_used = 1, !.grounded = FALSE],
                            "KICK_GROUND_AIR")
            ELSE [h EXCEPT !.jumps_used = 1, !.grounded = FALSE]
  IN  IF hit.connected /\ g.state \in Dives THEN enter_falcon_dive_catch(g)
      ELSE IF hit.wall /\ is_falcon_kick_wall_state(g.state)
      THEN enter_falcon_kick_wall_stop(g, hit.grounded)
      ELSE IF ~g.grounded THEN airborne
      ELSE IF ~hit.grounded THEN offEdge ELSE g

\* A hit is reported only while the tick's attack was active.
Resolve(hit) ==
  /\ phase = "resolve"
  /\ hit.connected => attack # "none"
  /\ LET g == falcon_resolve(f, hit)
     IN  /\ f' = g
         /\ move' = MoveStep(g, {}, FALSE)
         /\ credit' = CreditStep(g, FALSE)
  /\ attack' = "none"
  /\ cues' = {}
  /\ phase' = "tick"

falcon_reset ==
  [state |-> "WAIT", frame |-> 0, grounded |-> TRUE, jumps_used |-> 0,
   is_fastfall |-> FALSE, vy |-> "rest", lr |-> 1, tap_x |-> 4, tap_y |-> 4,
   prev_x |-> 0, prev_y |-> 0,
   turn_flag1 |-> FALSE, turn_lr_dash |-> 0, turn_lr_turn |-> 0]

\* host_air_cause: none on the ground; read only when the ground is lost.
AirCauses ==
  {"none", "fell"} \cup (IF is_air_state(f.state) THEN {} ELSE {"launched"})

Init ==
  /\ f = falcon_reset
  /\ phase = "tick"
  /\ attack = "none"
  /\ cues = {}
  /\ move = [family |-> "none", cues |-> {}, again |-> FALSE]
  /\ credit = 2

Next ==
  \/ \E in \in Inputs, cause \in AirCauses : Tick(in, cause = "none", cause)
  \/ \E hit \in Hits : Resolve(hit)

Spec == Init /\ [][Next]_vars

----------------------------------------------------------------------------
(* Properties.                                                              *)

\* The fields keep their ranges; a tap's age is pinned and never wraps.
TypeOK ==
  /\ f \in [state : FalconState, frame : 0 .. 89, grounded : BOOLEAN,
            jumps_used : 0 .. MaxJumps, is_fastfall : BOOLEAN, vy : VSpeed,
            lr : {-1, 1}, tap_x : 1 .. 4, tap_y : 1 .. 4,
            prev_x : -1 .. 1, prev_y : -1 .. 1,
            turn_flag1 : BOOLEAN, turn_lr_dash : -1 .. 1,
            turn_lr_turn : -1 .. 1]
  /\ phase \in {"tick", "resolve"}
  /\ attack \in {"none", "strike", "catch"}

\* Fighter and footing agree after every tick and every collision, however
\* the host contradicts the fighter (lost floor, regained floor, imposed
\* launch, wall): an air state is airborne and a ground state stands.  The
\* exceptions are the two halves of a ground-born Falcon Kick, whose status
\* outlives the floor and the air (falcon_tick, falcon_resolve).
GroundAirAgree ==
  /\ f.grounded => ~is_air_state(f.state) \/ f.state = "KICK_GROUND_AIR"
  /\ ~f.grounded => is_air_state(f.state) \/ f.state = "KICK_GROUND"

\* A special keeps one timeline through every change of spelling (an aerial
\* punch landing, a kick leaving the floor, a dive catching): no cue sounds
\* twice in one move, and contact opens only after the move's own cue, "never
\* damage before the visible fist / fire impact" (emit_attack, emit_audio).
CuesLeadContact ==
  /\ ~move.again
  /\ f.state \in Punches /\ attack = "strike" => "PUNCH_IMPACT" \in move.cues
  /\ f.state \in {"KICK_GROUND", "KICK_AIR"} /\ attack = "strike" =>
       "KICK_START" \in move.cues
  /\ attack = "catch" => "DIVE_LAUNCH" \in move.cues

\* Out of water a jump from the ground is followed by at most one aerial jump,
\* any other way into the air by at most two, and a Falcon Dive by none until
\* the fighter has stood again (check_jump_aerial, enter_falcon_dive).
AerialJumpsBounded == credit >= 0

\* "its vertical launch always uses the full controller range" and "its launch
\* velocity follows the source common aerial-jump formula": the tick that
\* enters a jump asks the host for an upward speed (enter_jump_aerial).
AerialJumpRises ==
  phase = "resolve" /\ f.state \in Jumps \cup AerialJumps /\ f.frame = 0 =>
    f.vy = "up"

\* What the host boundary tells apart in the fighter's state.
Class(s) ==
  CASE s \in {"WAIT", "FALL", "FALL_AERIAL", "LANDING_LIGHT", "LANDING_HEAVY",
              "DIVE_FALL", "DIVE_LANDING"} -> "idle"
    [] s \in Punches -> "punch"
    [] s = "KICK_GROUND" -> "kick"
    [] s = "KICK_AIR" -> "kickair"
    [] s \in Dives -> "dive"
    [] s = "DIVE_CATCH" -> "catch"
    [] s = "DIVE_THROW" -> "throw"
    [] s \in {"JAB", "FTILT"} \cup AirAttacks -> "jab"
    [] OTHER -> "run"

Host == INSTANCE FalconMoves
          WITH Starts <- {"idle", "run", "jab", "punch", "kick", "kickair", "dive"}

\* The fighter the host boundary is checked against (FalconHost) allows every
\* tick and every collision result of the real one, and no attack opens on the
\* tick that begins a move (falcon_tick, falcon_resolve).
MovesAbstracted ==
  [][LET old == Class(f.state)
         new == Class(f'.state)
     IN  IF phase = "tick"
         THEN /\ new \in Host!TickMoves(old)
              /\ attack' \in IF new = old THEN Host!Attacks(new) ELSE {"none"}
         ELSE \A hit \in Hits :
                falcon_resolve(f, hit) = f' =>
                  new \in Host!ResolveMoves(old, [hit EXCEPT !.imposed = @ # "none"])]_vars

\* FighterConsistent: the three invariants of the fighter that hold in every
\* state, whatever is pressed and whatever the host's collision reports.
FighterConsistent == TypeOK /\ GroundAirAgree /\ AerialJumpsBounded
============================================================================
