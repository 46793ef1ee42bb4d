------------------------- MODULE FalconFighterProofs -------------------------
(* Captain Falcon's fighter for whatever the pad and the host's collision  *)
(* report: in every state fighter and footing agree, and the aerial jumps  *)
(* that are left are as many as the code means to give; a move's contact   *)
(* comes after its cue, and no cue comes twice; and the host boundary is   *)
(* checked against a fighter that may do all that this one does.           *)
EXTENDS FalconFighter, TLAPS

Fighter ==
  [state : FalconState, frame : 0 .. 89, grounded : BOOLEAN,
   jumps_used : 0 .. MaxJumps, is_fastfall : BOOLEAN, vy : VSpeed,
   lr : {-1, 1}, tap_x : 1 .. 4, tap_y : 1 .. 4,
   prev_x : -1 .. 1, prev_y : -1 .. 1,
   turn_flag1 : BOOLEAN, turn_lr_dash : -1 .. 1, turn_lr_turn : -1 .. 1]

Pads == [stick_x : -80 .. 80, stick_y : -80 .. 80, jump_pressed : BOOLEAN,
         attack : BOOLEAN, special : BOOLEAN, unlimited : BOOLEAN]

DiveStates == Dives \cup {"DIVE_CATCH", "DIVE_THROW"}

(* A state is entered at frame 0, on the ground or off it, with so many    *)
(* jumps used.                                                             *)
Entered(h, s, ground, jumps) ==
  /\ h \in Fighter /\ h.state = s /\ h.frame = 0
  /\ (h.grounded <=> ground) /\ h.jumps_used = jumps

LEMMA SetStatus ==
  ASSUME NEW g \in Fighter, NEW s \in FalconState
  PROVE  Entered(set_status(g, s), s, g.grounded, g.jumps_used)
<1> DEFINE c == [g EXCEPT !.state = s]
<1>1. /\ c \in Fighter /\ c.state = s /\ (c.grounded <=> g.grounded)
      /\ c.jumps_used = g.jumps_used
  BY DEF Fighter
<1>2. set_status(g, s) = [c EXCEPT !.frame = 0]
  BY DEF set_status
<1> HIDE DEF c
<1>3. 0 \in 0 .. 89
  OBVIOUS
<1> QED BY <1>1, <1>2, <1>3 DEF Fighter, Entered

(* The fields that the proofs speak of, of a fighter with others changed.  *)
Alike(h, g) ==
  /\ h \in Fighter /\ h.state = g.state /\ h.frame = g.frame
  /\ (h.grounded <=> g.grounded) /\ h.jumps_used = g.jumps_used

(* One field after the other.                                              *)
LEMMA FootingSet ==
  ASSUME NEW g \in Fighter, NEW b \in BOOLEAN, NEW h, h = [g EXCEPT !.grounded = b]
  PROVE  /\ h \in Fighter /\ h.state = g.state /\ h.frame = g.frame
         /\ (h.grounded <=> b) /\ h.jumps_used = g.jumps_used
BY DEF Fighter

LEMMA JumpsSet ==
  ASSUME NEW g \in Fighter, NEW n \in 0 .. MaxJumps, NEW h, h = [g EXCEPT !.jumps_used = n]
  PROVE  /\ h \in Fighter /\ h.state = g.state /\ h.frame = g.frame
         /\ (h.grounded <=> g.grounded) /\ h.jumps_used = n
BY DEF Fighter

LEMMA SpeedSet ==
  ASSUME NEW g \in Fighter, NEW v \in VSpeed, NEW h, h = [g EXCEPT !.vy = v]
  PROVE  Alike(h, g)
BY DEF Fighter, Alike

LEMMA FastfallSet ==
  ASSUME NEW g \in Fighter, NEW b \in BOOLEAN, NEW h, h = [g EXCEPT !.is_fastfall = b]
  PROVE  Alike(h, g)
BY DEF Fighter, Alike

LEMMA FacingSet ==
  ASSUME NEW g \in Fighter, NEW d \in {-1, 1}, NEW h, h = [g EXCEPT !.lr = d]
  PROVE  Alike(h, g)
BY DEF Fighter, Alike

LEMMA TapXSet ==
  ASSUME NEW g \in Fighter, NEW t \in 1 .. 4, NEW h, h = [g EXCEPT !.tap_x = t]
  PROVE  Alike(h, g)
BY DEF Fighter, Alike

LEMMA TapYSet ==
  ASSUME NEW g \in Fighter, NEW t \in 1 .. 4, NEW h, h = [g EXCEPT !.tap_y = t]
  PROVE  Alike(h, g)
BY DEF Fighter, Alike

LEMMA FlagSet ==
  ASSUME NEW g \in Fighter, NEW b \in BOOLEAN, NEW h, h = [g EXCEPT !.turn_flag1 = b]
  PROVE  Alike(h, g)
BY DEF Fighter, Alike

LEMMA Names ==
  /\ "WAIT" \in FalconState /\ "DASH" \in FalconState
  /\ "RUN" \in FalconState /\ "RUN_BRAKE" \in FalconState
  /\ "TURN" \in FalconState /\ "TURN_RUN" \in FalconState
  /\ "KNEEBEND" \in FalconState /\ "KICK_GROUND" \in FalconState
  /\ "KICK_GROUND_AIR" \in FalconState /\ "KICK_AIR" \in FalconState
  /\ "DIVE_CATCH" \in FalconState /\ "DIVE_THROW" \in FalconState
  /\ "DIVE_FALL" \in FalconState /\ "DIVE_LANDING" \in FalconState
  /\ "JAB" \in FalconState /\ "FTILT" \in FalconState
  /\ "PUNCH_GROUND" \in FalconState /\ "PUNCH_AIR" \in FalconState
  /\ "KICK_BOUND" \in FalconState
  /\ \A s \in Walks \cup Landings \cup Jumps \cup AerialJumps \cup Falls \cup AirAttacks
              \cup Dives \cup Punches : s \in FalconState
BY DEF FalconState, GroundMoves, Punches

LEMMA Speeds ==
  /\ "launch" \in VSpeed /\ "up" \in VSpeed /\ "rest" \in VSpeed
  /\ "down" \in VSpeed /\ "fast" \in VSpeed
BY DEF VSpeed

LEMMA EnterWait ==
  ASSUME NEW g \in Fighter
  PROVE  Entered(enter_wait(g), "WAIT", TRUE, g.jumps_used)
<1> DEFINE c == [g EXCEPT !.grounded = TRUE]
<1>1. enter_wait(g) = set_status(c, "WAIT")
  BY DEF enter_wait
<1>2. c = [g EXCEPT !.grounded = TRUE]
  OBVIOUS
<1> HIDE DEF c
<1>3. c \in Fighter /\ c.grounded /\ c.jumps_used = g.jumps_used
  BY <1>2, FootingSet
<1>4. "WAIT" \in FalconState
  BY Names
<1>5. Entered(set_status(c, "WAIT"), "WAIT", TRUE, g.jumps_used)
  BY <1>3, <1>4, SetStatus DEF Entered
<1> QED BY <1>1, <1>5

LEMMA EnterDash ==
  ASSUME NEW g \in Fighter
  PROVE  Entered(enter_dash(g), "DASH", g.grounded, g.jumps_used)
<1> DEFINE c == [g EXCEPT !.tap_x = 4]
<1>1. enter_dash(g) = set_status(c, "DASH")
  BY DEF enter_dash
<1>2. c = [g EXCEPT !.tap_x = 4]
  OBVIOUS
<1> HIDE DEF c
<1>3. c \in Fighter /\ (c.grounded <=> g.grounded) /\ c.jumps_used = g.jumps_used
  BY <1>2, TapXSet DEF Alike
<1>4. "DASH" \in FalconState
  BY Names
<1>5. Entered(set_status(c, "DASH"), "DASH", g.grounded, g.jumps_used)
  BY <1>3, <1>4, SetStatus DEF Entered
<1> QED BY <1>1, <1>5

LEMMA EnterTurn ==
  ASSUME NEW g \in Fighter, NEW d \in -1 .. 1
  PROVE  Entered(enter_turn(g, d), "TURN", g.grounded, g.jumps_used)
<1> DEFINE a == [g EXCEPT !.turn_flag1 = FALSE]
           b == [a EXCEPT !.turn_lr_dash = d]
           c == [b EXCEPT !.turn_lr_turn = -g.lr]
<1>1. enter_turn(g, d) = set_status(c, "TURN")
  BY DEF enter_turn
<1>2. -g.lr \in -1 .. 1
  BY DEF Fighter
<1>3. Alike(a, g)
  BY DEF Fighter, Alike
<1>4. /\ b = [a EXCEPT !.turn_lr_dash = d]
      /\ c = [b EXCEPT !.turn_lr_turn = -g.lr]
  OBVIOUS
<1> HIDE DEF a, b, c
<1>5. Alike(b, a)
  BY <1>3, <1>4 DEF Fighter, Alike
<1>6. Alike(c, b)
  BY <1>2, <1>4, <1>5 DEF Fighter, Alike
<1>7. c \in Fighter /\ (c.grounded <=> g.grounded) /\ c.jumps_used = g.jumps_used
  BY <1>3, <1>5, <1>6 DEF Alike
<1>8. "TURN" \in FalconState
  BY Names
<1>9. Entered(set_status(c, "TURN"), "TURN", g.grounded, g.jumps_used)
  BY <1>7, <1>8, SetStatus DEF Entered
<1> QED BY <1>1, <1>9

LEMMA EnterTurnRun ==
  ASSUME NEW g \in Fighter
  PROVE  Entered(enter_turn_run(g), "TURN_RUN", g.grounded, g.jumps_used)
<1> DEFINE c == [g EXCEPT !.turn_flag1 = FALSE]
<1>1. enter_turn_run(g) = set_status(c, "TURN_RUN")
  BY DEF enter_turn_run
<1>2. c = [g EXCEPT !.turn_flag1 = FALSE]
  OBVIOUS
<1> HIDE DEF c
<1>3. c \in Fighter /\ (c.grounded <=> g.grounded) /\ c.jumps_used = g.jumps_used
  BY <1>2, FlagSet DEF Alike
<1>4. "TURN_RUN" \in FalconState
  BY Names
<1>5. Entered(set_status(c, "TURN_RUN"), "TURN_RUN", g.grounded, g.jumps_used)
  BY <1>3, <1>4, SetStatus DEF Entered
<1> QED BY <1>1, <1>5

LEMMA EnterKneebend ==
  ASSUME NEW g \in Fighter
  PROVE  Entered(enter_kneebend(g), "KNEEBEND", g.grounded, g.jumps_used)
<1>1. "KNEEBEND" \in FalconState
  BY Names
<1> QED BY <1>1, SetStatus DEF enter_kneebend

LEMMA EnterJump ==
  ASSUME NEW g \in Fighter, NEW in
  PROVE  \E s \in Jumps : Entered(enter_jump(g, in), s, FALSE, 1)
<1> DEFINE a == [g EXCEPT !.grounded = FALSE]
           b == [a EXCEPT !.vy = "launch"]
           c == [b EXCEPT !.tap_y = 4]
           d == [c EXCEPT !.jumps_used = 1]
           s == IF Toward(g, in) > -10 THEN "JUMP_F" ELSE "JUMP_B"
<1>1. enter_jump(g, in) = set_status(d, s)
  BY DEF enter_jump
<1>2. a = [g EXCEPT !.grounded = FALSE]
  OBVIOUS
<1>3. c = [b EXCEPT !.tap_y = 4]
  OBVIOUS
<1>4. b = [a EXCEPT !.vy = "launch"]
  OBVIOUS
<1>5. d = [c EXCEPT !.jumps_used = 1]
  OBVIOUS
<1>6. s \in Jumps
  BY DEF Jumps
<1> HIDE DEF a, b, c, d, s
<1>7. a \in Fighter /\ ~a.grounded /\ a.jumps_used = g.jumps_used
  BY <1>2, FootingSet
<1>8. "launch" \in VSpeed
  BY DEF VSpeed
<1>9. b \in Fighter /\ ~b.grounded /\ b.jumps_used = g.jumps_used
  BY <1>4, <1>7, <1>8, SpeedSet DEF Alike
<1>10. c \in Fighter /\ ~c.grounded /\ c.jumps_used = g.jumps_used
  BY <1>3, <1>9, TapYSet DEF Alike
<1>11. 1 \in 0 .. MaxJumps
  BY MaxJumpsAssumption
<1>12. d \in Fighter /\ ~d.grounded /\ d.jumps_used = 1
  BY <1>5, <1>10, <1>11, JumpsSet
<1>13. s \in FalconState
  BY <1>6, Names
<1>14. Entered(set_status(d, s), s, FALSE, 1)
  BY <1>12, <1>13, SetStatus DEF Entered
<1> QED BY <1>1, <1>6, <1>14

LEMMA EnterJumpAerial ==
  ASSUME NEW g \in Fighter, NEW in, NEW n,
         n = IF g.jumps_used < MaxJumps THEN g.jumps_used + 1 ELSE g.jumps_used
  PROVE  \E s \in AerialJumps : Entered(enter_jump_aerial(g, in), s, FALSE, n)
<1> DEFINE a == [g EXCEPT !.grounded = FALSE]
           b == [a EXCEPT !.vy = "launch"]
           c == [b EXCEPT !.tap_y = 4]
           m == IF c.jumps_used < MaxJumps THEN c.jumps_used + 1 ELSE c.jumps_used
           d == [c EXCEPT !.jumps_used = m]
           s == IF Toward(g, in) >= -10 THEN "JUMP_AERIAL_F" ELSE "JUMP_AERIAL_B"
<1>1. enter_jump_aerial(g, in) = set_status(d, s)
  BY DEF enter_jump_aerial
<1>2. a = [g EXCEPT !.grounded = FALSE]
  OBVIOUS
<1>3. b = [a EXCEPT !.vy = "launch"]
  OBVIOUS
<1>4. c = [b EXCEPT !.tap_y = 4]
  OBVIOUS
<1>5. d = [c EXCEPT !.jumps_used = m]
  OBVIOUS
<1>6. m = IF c.jumps_used < MaxJumps THEN c.jumps_used + 1 ELSE c.jumps_used
  OBVIOUS
<1>7. s \in AerialJumps
  BY DEF AerialJumps
<1> HIDE DEF a, b, c, d, s, m
<1>8. a \in Fighter /\ ~a.grounded /\ a.jumps_used = g.jumps_used
  BY <1>2, FootingSet
<1>9. "launch" \in VSpeed
  BY DEF VSpeed
<1>10. b \in Fighter /\ ~b.grounded /\ b.jumps_used = g.jumps_used
  BY <1>3, <1>8, <1>9, SpeedSet DEF Alike
<1>11. c \in Fighter /\ ~c.grounded /\ c.jumps_used = g.jumps_used
  BY <1>4, <1>10, TapYSet DEF Alike
<1>12. g.jumps_used \in 0 .. MaxJumps
  BY DEF Fighter
<1>13. m = n /\ m \in 0 .. MaxJumps
  BY <1>6, <1>11, <1>12, MaxJumpsAssumption
<1>14. d \in Fighter /\ ~d.grounded /\ d.jumps_used = n
  BY <1>5, <1>11, <1>13, JumpsSet
<1>15. s \in FalconState
  BY <1>7, Names
<1>16. Entered(set_status(d, s), s, FALSE, n)
  BY <1>14, <1>15, SetStatus DEF Entered
<1> QED BY <1>1, <1>7, <1>16

LEMMA EnterFall ==
  ASSUME NEW g \in Fighter
  PROVE  \E s \in Falls : Entered(enter_fall(g), s, FALSE, g.jumps_used)
<1> DEFINE a == [g EXCEPT !.grounded = FALSE]
           s == IF g.jumps_used >= 2 THEN "FALL_AERIAL" ELSE "FALL"
<1>1. enter_fall(g) = set_status(a, s)
  BY DEF enter_fall
<1>2. a = [g EXCEPT !.grounded = FALSE]
  OBVIOUS
<1>3. s \in Falls
  BY DEF Falls
<1> HIDE DEF a, s
<1>4. a \in Fighter /\ ~a.grounded /\ a.jumps_used = g.jumps_used
  BY <1>2, FootingSet
<1>5. s \in FalconState
  BY <1>3, Names
<1>6. Entered(set_status(a, s), s, FALSE, g.jumps_used)
  BY <1>4, <1>5, SetStatus DEF Entered
<1> QED BY <1>1, <1>3, <1>6

LEMMA Lands ==
  ASSUME NEW g \in Fighter, NEW h, h = Touchdown(g)
  PROVE  h \in Fighter /\ h.grounded /\ h.jumps_used = 0
<1> DEFINE a == [g EXCEPT !.grounded = TRUE]
           b == [a EXCEPT !.jumps_used = 0]
           c == [b EXCEPT !.is_fastfall = FALSE]
<1>1. h = [c EXCEPT !.vy = "rest"]
  BY DEF Touchdown
<1>2. a = [g EXCEPT !.grounded = TRUE]
  OBVIOUS
<1>3. b = [a EXCEPT !.jumps_used = 0]
  OBVIOUS
<1>4. c = [b EXCEPT !.is_fastfall = FALSE]
  OBVIOUS
<1> HIDE DEF a, b, c
<1>5. a \in Fighter /\ a.grounded
  BY <1>2, FootingSet
<1>6. 0 \in 0 .. MaxJumps
  BY MaxJumpsAssumption
<1>7. b \in Fighter /\ b.grounded /\ b.jumps_used = 0
  BY <1>3, <1>5, <1>6, JumpsSet
<1>8. c \in Fighter /\ c.grounded /\ c.jumps_used = 0
  BY <1>4, <1>7, FastfallSet DEF Alike
<1>9. "rest" \in VSpeed
  BY DEF VSpeed
<1> QED BY <1>1, <1>8, <1>9, SpeedSet DEF Alike

LEMMA EnterLanding ==
  ASSUME NEW g \in Fighter
  PROVE  \E s \in Landings : Entered(enter_landing(g), s, TRUE, 0)
<1> DEFINE h == Touchdown(g)
           s == IF g.is_fastfall /\ g.vy = "fast" THEN "LANDING_HEAVY" ELSE "LANDING_LIGHT"
<1>1. enter_landing(g) = set_status(h, s)
  BY DEF enter_landing
<1>2. s \in Landings
  BY DEF Landings
<1>3. h \in Fighter /\ h.grounded /\ h.jumps_used = 0
  BY Lands
<1> HIDE DEF h, s
<1>4. s \in FalconState
  BY <1>2, Names
<1>5. Entered(set_status(h, s), s, TRUE, 0)
  BY <1>3, <1>4, SetStatus DEF Entered
<1> QED BY <1>1, <1>2, <1>5

LEMMA EnterDiveLanding ==
  ASSUME NEW g \in Fighter
  PROVE  Entered(enter_falcon_dive_landing(g), "DIVE_LANDING", TRUE, 0)
<1> DEFINE h == Touchdown(g)
<1>1. enter_falcon_dive_landing(g) = set_status(h, "DIVE_LANDING")
  BY DEF enter_falcon_dive_landing
<1>2. h \in Fighter /\ h.grounded /\ h.jumps_used = 0
  BY Lands
<1> HIDE DEF h
<1>3. "DIVE_LANDING" \in FalconState
  BY Names
<1>4. Entered(set_status(h, "DIVE_LANDING"), "DIVE_LANDING", TRUE, 0)
  BY <1>2, <1>3, SetStatus DEF Entered
<1> QED BY <1>1, <1>4

LEMMA EnterDive ==
  ASSUME NEW g \in Fighter, NEW s \in Dives
  PROVE  Entered(enter_falcon_dive(g, s), s, FALSE, 2)
<1> DEFINE a == [g EXCEPT !.grounded = FALSE]
           b == [a EXCEPT !.jumps_used = 2]
           c == [b EXCEPT !.is_fastfall = FALSE]
           d == [c EXCEPT !.vy = "rest"]
<1>1. enter_falcon_dive(g, s) = set_status(d, s)
  BY DEF enter_falcon_dive
<1>2. a = [g EXCEPT !.grounded = FALSE]
  OBVIOUS
<1>3. b = [a EXCEPT !.jumps_used = 2]
  OBVIOUS
<1>4. c = [b EXCEPT !.is_fastfall = FALSE]
  OBVIOUS
<1>5. d = [c EXCEPT !.vy = "rest"]
  OBVIOUS
<1> HIDE DEF a, b, c, d
<1>6. a \in Fighter /\ ~a.grounded
  BY <1>2, FootingSet
<1>7. 2 \in 0 .. MaxJumps
  BY MaxJumpsAssumption
<1>8. b \in Fighter /\ ~b.grounded /\ b.jumps_used = 2
  BY <1>3, <1>6, <1>7, JumpsSet
<1>9. c \in Fighter /\ ~c.grounded /\ c.jumps_used = 2
  BY <1>4, <1>8, FastfallSet DEF Alike
<1>10. "rest" \in VSpeed
  BY DEF VSpeed
<1>11. d \in Fighter /\ ~d.grounded /\ d.jumps_used = 2
  BY <1>5, <1>9, <1>10, SpeedSet DEF Alike
<1>12. s \in FalconState
  BY Names
<1>13. Entered(set_status(d, s), s, FALSE, 2)
  BY <1>11, <1>12, SetStatus DEF Entered
<1> QED BY <1>1, <1>13

LEMMA EnterCatch ==
  ASSUME NEW g \in Fighter
  PROVE  Entered(enter_falcon_dive_catch(g), "DIVE_CATCH", FALSE, g.jumps_used)
<1> DEFINE a == [g EXCEPT !.grounded = FALSE]
           b == [a EXCEPT !.vy = "rest"]
<1>1. enter_falcon_dive_catch(g) = set_status(b, "DIVE_CATCH")
  BY DEF enter_falcon_dive_catch
<1>2. a = [g EXCEPT !.grounded = FALSE]
  OBVIOUS
<1>3. b = [a EXCEPT !.vy = "rest"]
  OBVIOUS
<1> HIDE DEF a, b
<1>4. a \in Fighter /\ ~a.grounded /\ a.jumps_used = g.jumps_used
  BY <1>2, FootingSet
<1>5. "rest" \in VSpeed
  BY DEF VSpeed
<1>6. b \in Fighter /\ ~b.grounded /\ b.jumps_used = g.jumps_used
  BY <1>3, <1>4, <1>5, SpeedSet DEF Alike
<1>7. "DIVE_CATCH" \in FalconState
  BY Names
<1>8. Entered(set_status(b, "DIVE_CATCH"), "DIVE_CATCH", FALSE, g.jumps_used)
  BY <1>6, <1>7, SetStatus DEF Entered
<1> QED BY <1>1, <1>8

LEMMA EnterThrow ==
  ASSUME NEW g \in Fighter
  PROVE  Entered(enter_falcon_dive_throw(g), "DIVE_THROW", FALSE, g.jumps_used)
<1> DEFINE a == [g EXCEPT !.grounded = FALSE]
           b == [a EXCEPT !.vy = "rest"]
<1>1. enter_falcon_dive_throw(g) = set_status(b, "DIVE_THROW")
  BY DEF enter_falcon_dive_throw
<1>2. a = [g EXCEPT !.grounded = FALSE]
  OBVIOUS
<1>3. b = [a EXCEPT !.vy = "rest"]
  OBVIOUS
<1> HIDE DEF a, b
<1>4. a \in Fighter /\ ~a.grounded /\ a.jumps_used = g.jumps_used
  BY <1>2, FootingSet
<1>5. "rest" \in VSpeed
  BY DEF VSpeed
<1>6. b \in Fighter /\ ~b.grounded /\ b.jumps_used = g.jumps_used
  BY <1>3, <1>4, <1>5, SpeedSet DEF Alike
<1>7. "DIVE_THROW" \in FalconState
  BY Names
<1>8. Entered(set_status(b, "DIVE_THROW"), "DIVE_THROW", FALSE, g.jumps_used)
  BY <1>6, <1>7, SetStatus DEF Entered
<1> QED BY <1>1, <1>8

LEMMA EnterDiveFall ==
  ASSUME NEW g \in Fighter
  PROVE  Entered(enter_falcon_dive_fall(g), "DIVE_FALL", FALSE, 2)
<1> DEFINE a == [g EXCEPT !.grounded = FALSE]
           b == [a EXCEPT !.jumps_used = 2]
<1>1. enter_falcon_dive_fall(g) = set_status(b, "DIVE_FALL")
  BY DEF enter_falcon_dive_fall
<1>2. a = [g EXCEPT !.grounded = FALSE]
  OBVIOUS
<1>3. b = [a EXCEPT !.jumps_used = 2]
  OBVIOUS
<1> HIDE DEF a, b
<1>4. a \in Fighter /\ ~a.grounded /\ a.jumps_used = g.jumps_used
  BY <1>2, FootingSet
<1>5. 2 \in 0 .. MaxJumps
  BY MaxJumpsAssumption
<1>6. b \in Fighter /\ ~b.grounded /\ b.jumps_used = 2
  BY <1>3, <1>4, <1>5, JumpsSet
<1>7. "DIVE_FALL" \in FalconState
  BY Names
<1>8. Entered(set_status(b, "DIVE_FALL"), "DIVE_FALL", FALSE, 2)
  BY <1>6, <1>7, SetStatus DEF Entered
<1> QED BY <1>1, <1>8

(* What a fighter must be while the procedures of one tick run over it, c  *)
(* being the aerial jumps still due: a footing that suits its state, and   *)
(* jumps used that leave no more than c.                                   *)
Suits(s, ground) ==
  /\ ground => ~is_air_state(s) \/ s = "KICK_GROUND_AIR"
  /\ ~ground => is_air_state(s) \/ s = "KICK_GROUND"

Sound(g, c) ==
  /\ g \in Fighter
  /\ Suits(g.state, g.grounded)
  /\ g.state \in DiveStates => g.jumps_used >= 2
  /\ g.state \in Jumps => g.jumps_used >= 1
  /\ ~g.grounded => c + g.jumps_used >= 2
  /\ ~g.grounded /\ g.state = "KICK_GROUND" => c = 2

(* An aerial jump is at its first frame only in the tick that enters it.   *)
Settled(g) == g.state \in AerialJumps => g.frame # 0

(* The same with the aerial jump of this tick, which one of those due paid.*)
Paid(g, in, c) ==
  g.state \in AerialJumps /\ g.frame = 0 /\ ~in.unlimited =>
    c >= 1 /\ c + g.jumps_used >= 3

Good(g, in, c) == Sound(g, c) /\ Paid(g, in, c)
AllGood(S, in, c) == \A g \in S : Good(g, in, c)

LEMMA GroundNames ==
  /\ ~is_air_state("WAIT") /\ ~is_air_state("DASH") /\ ~is_air_state("RUN")
  /\ ~is_air_state("RUN_BRAKE") /\ ~is_air_state("TURN") /\ ~is_air_state("TURN_RUN")
  /\ ~is_air_state("KNEEBEND") /\ ~is_air_state("KICK_GROUND")
  /\ ~is_air_state("DIVE_LANDING") /\ ~is_air_state("JAB") /\ ~is_air_state("FTILT")
  /\ ~is_air_state("PUNCH_GROUND")
  /\ \A s \in Walks \cup Landings : ~is_air_state(s)
BY DEF is_air_state, Walks, Landings, Jumps, AerialJumps, Falls, AirAttacks, Dives

LEMMA AirNames ==
  /\ is_air_state("PUNCH_AIR") /\ is_air_state("KICK_GROUND_AIR")
  /\ is_air_state("KICK_AIR") /\ is_air_state("KICK_BOUND")
  /\ is_air_state("DIVE_CATCH") /\ is_air_state("DIVE_THROW")
  /\ is_air_state("DIVE_FALL")
  /\ \A s \in Jumps \cup AerialJumps \cup Falls \cup AirAttacks \cup Dives :
       is_air_state(s)
BY DEF is_air_state

(* The states apart from the jumps and the dives.                          *)
Plain == FalconState \ (DiveStates \cup Jumps \cup AerialJumps)

LEMMA PlainNames ==
  /\ "WAIT" \in Plain /\ "DASH" \in Plain /\ "RUN" \in Plain
  /\ "RUN_BRAKE" \in Plain /\ "TURN" \in Plain /\ "TURN_RUN" \in Plain
  /\ "KNEEBEND" \in Plain /\ "KICK_GROUND" \in Plain /\ "KICK_GROUND_AIR" \in Plain
  /\ "KICK_AIR" \in Plain /\ "DIVE_FALL" \in Plain /\ "DIVE_LANDING" \in Plain
  /\ "JAB" \in Plain /\ "FTILT" \in Plain /\ "PUNCH_GROUND" \in Plain
  /\ "PUNCH_AIR" \in Plain /\ "KICK_BOUND" \in Plain
  /\ \A s \in Walks \cup Landings \cup Falls \cup AirAttacks : s \in Plain
<1>1. \A s \in Walks \cup Landings \cup Falls \cup AirAttacks :
        s \notin DiveStates \cup Jumps \cup AerialJumps
  BY DEF Walks, Landings, Falls, AirAttacks, DiveStates, Dives, Jumps, AerialJumps
<1>2. \A s \in {"WAIT", "DASH", "RUN", "RUN_BRAKE", "TURN", "TURN_RUN", "KNEEBEND",
                "KICK_GROUND", "KICK_GROUND_AIR", "KICK_AIR", "DIVE_FALL",
                "DIVE_LANDING", "JAB", "FTILT", "PUNCH_GROUND", "PUNCH_AIR",
                "KICK_BOUND"} :
        s \notin DiveStates \cup Jumps \cup AerialJumps
  BY DEF DiveStates, Dives, Jumps, AerialJumps
<1> QED BY <1>1, <1>2, Names DEF Plain

(* Entering a state on the ground, or a plain one off it.                  *)
LEMMA EnteredGround ==
  ASSUME NEW h, NEW s \in Plain, NEW n, Entered(h, s, TRUE, n), ~is_air_state(s),
         NEW in, NEW c
  PROVE  Good(h, in, c) /\ Settled(h)
BY DEF Entered, Good, Sound, Suits, Paid, Settled, Plain

LEMMA EnteredAir ==
  ASSUME NEW h, NEW s \in Plain, NEW n, Entered(h, s, FALSE, n), is_air_state(s),
         NEW in, NEW c, c + n >= 2, s # "KICK_GROUND"
  PROVE  Good(h, in, c) /\ Settled(h)
BY DEF Entered, Good, Sound, Suits, Paid, Settled, Plain

LEMMA EnteredDive ==
  ASSUME NEW h, NEW s \in DiveStates, NEW n \in Nat, n >= 2, Entered(h, s, FALSE, n),
         NEW in, NEW c \in Nat
  PROVE  Good(h, in, c) /\ Settled(h)
<1>1. is_air_state(s) /\ s \notin Jumps \cup AerialJumps /\ s # "KICK_GROUND"
  BY DEF is_air_state, DiveStates, Dives, Jumps, AerialJumps
<1>2. c + n >= 2
  OBVIOUS
<1> QED BY <1>1, <1>2 DEF Entered, Good, Sound, Suits, Paid, Settled

LEMMA EnteredJump ==
  ASSUME NEW h, NEW s \in Jumps, Entered(h, s, FALSE, 1),
         NEW in, NEW c \in Nat, c >= 1
  PROVE  Good(h, in, c) /\ Settled(h)
<1>1. is_air_state(s) /\ s \notin DiveStates \cup AerialJumps /\ s # "KICK_GROUND"
  BY DEF is_air_state, DiveStates, Dives, Jumps, AerialJumps
<1>2. c + 1 >= 2
  OBVIOUS
<1> QED BY <1>1, <1>2 DEF Entered, Good, Sound, Suits, Paid, Settled

LEMMA DiveIsGood ==
  ASSUME NEW g \in Fighter, NEW s \in Dives, NEW in, NEW c \in Nat
  PROVE  Good(enter_falcon_dive(g, s), in, c)
<1> DEFINE h == enter_falcon_dive(g, s)
<1>1. Entered(h, s, FALSE, 2)
  BY EnterDive
<1> HIDE DEF h
<1>2. /\ is_air_state(s) /\ s \notin Jumps \cup AerialJumps /\ s # "KICK_GROUND"
      /\ c + 2 >= 2
  BY DEF is_air_state, Dives, Jumps, AerialJumps
<1>3. Good(h, in, c)
  BY <1>1, <1>2 DEF Entered, Good, Sound, Suits, Paid
<1> QED BY <1>3 DEF h

(* A fighter alike is as good.                                             *)
LEMMA AlikeIsSound ==
  ASSUME NEW g, NEW h, Alike(h, g), NEW c, Sound(g, c)
  PROVE  Sound(h, c) /\ (Settled(g) => Settled(h))
BY DEF Alike, Sound, Suits, Settled

LEMMA AlikeIsGood ==
  ASSUME NEW g, NEW h, Alike(h, g), NEW in, NEW c, Good(g, in, c)
  PROVE  Good(h, in, c)
BY AlikeIsSound DEF Good, Paid, Alike

LEMMA WaitIsGood ==
  ASSUME NEW g \in Fighter, NEW in, NEW c
  PROVE  Good(enter_wait(g), in, c) /\ Settled(enter_wait(g))
<1>1. "WAIT" \in Plain /\ ~is_air_state("WAIT")
  BY PlainNames, GroundNames
<1> QED BY <1>1, EnterWait, EnteredGround

LEMMA FallIsGood ==
  ASSUME NEW g \in Fighter, NEW in, NEW c, c + g.jumps_used >= 2
  PROVE  Good(enter_fall(g), in, c) /\ Settled(enter_fall(g))
<1>1. PICK s \in Falls : Entered(enter_fall(g), s, FALSE, g.jumps_used)
  BY EnterFall
<1>2. s \in Plain /\ is_air_state(s)
  BY PlainNames, AirNames
<1>3. s # "KICK_GROUND"
  BY DEF Falls
<1> QED BY <1>1, <1>2, <1>3, EnteredAir

LEMMA JumpIsGood ==
  ASSUME NEW g \in Fighter, NEW in, NEW c \in Nat, c >= 1
  PROVE  Good(enter_jump(g, in), in, c) /\ Settled(enter_jump(g, in))
<1>1. PICK s \in Jumps : Entered(enter_jump(g, in), s, FALSE, 1)
  BY EnterJump
<1> QED BY <1>1, EnteredJump

LEMMA LandingIsGood ==
  ASSUME NEW g \in Fighter, NEW in, NEW c
  PROVE  /\ Good(enter_landing(g), in, c) /\ Settled(enter_landing(g))
         /\ Good(enter_falcon_dive_landing(g), in, c)
         /\ Settled(enter_falcon_dive_landing(g))
<1>1. PICK s \in Landings : Entered(enter_landing(g), s, TRUE, 0)
  BY EnterLanding
<1>2. s \in Plain /\ ~is_air_state(s)
  BY PlainNames, GroundNames
<1>3. "DIVE_LANDING" \in Plain /\ ~is_air_state("DIVE_LANDING")
  BY PlainNames, GroundNames
<1> QED BY <1>1, <1>2, <1>3, EnterDiveLanding, EnteredGround

(* A state of the ground entered by a grounded fighter, and one of the air *)
(* by an airborne one.                                                     *)
LEMMA StatusIsGood ==
  ASSUME NEW g, NEW in, NEW c, Sound(g, c), NEW s \in Plain,
         s # "KICK_GROUND" \/ g.grounded, is_air_state(s) <=> ~g.grounded
  PROVE  Good(set_status(g, s), in, c) /\ Settled(set_status(g, s))
<1>1. g \in Fighter /\ s \in FalconState
  BY DEF Sound, Plain
<1>2. Entered(set_status(g, s), s, g.grounded, g.jumps_used)
  BY <1>1, SetStatus
<1>3. CASE g.grounded
  <2>1. Entered(set_status(g, s), s, TRUE, g.jumps_used)
    BY <1>2, <1>3 DEF Entered
  <2> QED BY <2>1, <1>3, EnteredGround
<1>4. CASE ~g.grounded
  <2>1. Entered(set_status(g, s), s, FALSE, g.jumps_used)
    BY <1>2, <1>4 DEF Entered
  <2>2. c + g.jumps_used >= 2
    BY <1>4 DEF Sound
  <2> QED BY <2>1, <2>2, <1>4, EnteredAir
<1> QED BY <1>3, <1>4

LEMMA Flipped ==
  ASSUME NEW g \in Fighter, NEW at
  PROVE  Alike(Flip(g, at), g)
<1>1. CASE ~(~g.turn_flag1 /\ g.frame >= at)
  <2>1. Flip(g, at) = g
    BY <1>1 DEF Flip
  <2> QED BY <2>1 DEF Alike
<1>2. CASE ~g.turn_flag1 /\ g.frame >= at
  <2> DEFINE a == [g EXCEPT !.turn_flag1 = TRUE]
  <2>1. Flip(g, at) = [a EXCEPT !.lr = -g.lr]
    BY <1>2 DEF Flip
  <2>2. a = [g EXCEPT !.turn_flag1 = TRUE]
    OBVIOUS
  <2>3. -g.lr \in {-1, 1}
    BY DEF Fighter
  <2> HIDE DEF a
  <2>4. Alike(a, g)
    BY <2>2, FlagSet
  <2>5. Alike(Flip(g, at), a)
    BY <2>1, <2>3, <2>4, FacingSet DEF Alike
  <2> QED BY <2>4, <2>5 DEF Alike
<1> QED BY <1>1, <1>2

(* What the end of an animation turns a fighter into.                      *)
LEMMA Updated ==
  ASSUME NEW g, NEW in \in Pads, NEW c \in Nat, Sound(g, c), Settled(g),
         g.state = "KNEEBEND" => c = 2
  PROVE  Sound(proc_update(g, in), c) /\ Settled(proc_update(g, in))
<1> DEFINE h == proc_update(g, in)
           ToWait == {"DASH", "RUN_BRAKE", "DIVE_LANDING", "KICK_LANDING"}
                       \cup Landings \cup GroundMoves
           ToFall == Jumps \cup AerialJumps \cup AirAttacks
                       \cup {"PUNCH_AIR", "KICK_AIR", "KICK_BOUND", "DIVE_THROW"}
<1>1. g \in Fighter
  BY DEF Sound
<1>2. CASE g.state = "TURN"
  <2> DEFINE t == Flip(g, 4)
  <2>1. h = IF anim_ended(t) THEN enter_wait(t) ELSE t
    BY <1>2 DEF proc_update, Dives, GroundMoves, Landings, Jumps, AerialJumps, AirAttacks
  <2>2. Alike(t, g)
    BY <1>1, Flipped
  <2> HIDE DEF t, h
  <2>3. Sound(t, c) /\ Settled(t) /\ t \in Fighter
    BY <2>2, AlikeIsSound DEF Sound
  <2>4. Sound(enter_wait(t), c) /\ Settled(enter_wait(t))
    BY <2>3, WaitIsGood DEF Good
  <2> QED BY <2>1, <2>3, <2>4 DEF h
<1>3. CASE g.state = "TURN_RUN"
  <2> DEFINE t == Flip(g, 19)
  <2>1. h = IF anim_ended(t) THEN set_status(t, "RUN") ELSE t
    BY <1>3 DEF proc_update, Dives, GroundMoves, Landings, Jumps, AerialJumps, AirAttacks
  <2>2. Alike(t, g)
    BY <1>1, Flipped
  <2> HIDE DEF t, h
  <2>3. Sound(t, c) /\ Settled(t) /\ t \in Fighter
    BY <2>2, AlikeIsSound DEF Sound
  <2>4. t.grounded
    BY <1>3, <2>2, <2>3, GroundNames DEF Alike, Sound, Suits
  <2>5. "RUN" \in Plain /\ ~is_air_state("RUN")
    BY PlainNames, GroundNames
  <2>6. Sound(set_status(t, "RUN"), c) /\ Settled(set_status(t, "RUN"))
    BY <2>3, <2>4, <2>5, StatusIsGood DEF Good
  <2> QED BY <2>1, <2>3, <2>6 DEF h
<1>4. CASE g.state = "KNEEBEND"
  <2>1. h = IF g.frame >= 4 THEN enter_jump(g, in) ELSE g
    BY <1>4 DEF proc_update, Dives, GroundMoves, Landings, Jumps, AerialJumps, AirAttacks
  <2>2. Sound(enter_jump(g, in), c) /\ Settled(enter_jump(g, in))
    BY <1>1, <1>4, JumpIsGood DEF Good
  <2> HIDE DEF h
  <2> QED BY <2>1, <2>2 DEF h
<1>5. CASE g.state \in Dives
  <2> DEFINE d == IF g.frame = 13 /\ Abs(in.stick_x) > 18 THEN Sign(in.stick_x) ELSE g.lr
             t == [g EXCEPT !.lr = d]
  <2>1. h = IF anim_ended(t) THEN enter_falcon_dive_fall(t) ELSE t
    BY <1>5 DEF proc_update, Dives, GroundMoves, Landings, Jumps, AerialJumps, AirAttacks
  <2>2. d \in {-1, 1}
    BY <1>1 DEF Fighter, Sign
  <2>3. t = [g EXCEPT !.lr = d]
    OBVIOUS
  <2> HIDE DEF t, d, h
  <2>4. Alike(t, g)
    BY <1>1, <2>2, <2>3, FacingSet
  <2>5. Sound(t, c) /\ Settled(t) /\ t \in Fighter
    BY <2>4, AlikeIsSound DEF Sound
  <2>6. Entered(enter_falcon_dive_fall(t), "DIVE_FALL", FALSE, 2)
    BY <2>5, EnterDiveFall
  <2>7. "DIVE_FALL" \in Plain /\ is_air_state("DIVE_FALL") /\ c + 2 >= 2
    BY PlainNames, AirNames
  <2>8. Sound(enter_falcon_dive_fall(t), c) /\ Settled(enter_falcon_dive_fall(t))
    BY <2>6, <2>7, EnteredAir DEF Good
  <2> QED BY <2>1, <2>5, <2>8 DEF h
<1>6. CASE g.state = "DIVE_CATCH"
  <2>1. h = IF anim_ended(g) THEN enter_falcon_dive_throw(g) ELSE g
    BY <1>6 DEF proc_update, Dives, GroundMoves, Landings, Jumps, AerialJumps, AirAttacks
  <2>2. Entered(enter_falcon_dive_throw(g), "DIVE_THROW", FALSE, g.jumps_used)
    BY <1>1, EnterThrow
  <2>3. g.jumps_used \in Nat /\ g.jumps_used >= 2
    BY <1>1, <1>6, MaxJumpsAssumption DEF Sound, DiveStates, Fighter
  <2>4. Sound(enter_falcon_dive_throw(g), c) /\ Settled(enter_falcon_dive_throw(g))
    BY <2>2, <2>3, EnteredDive DEF Good, DiveStates
  <2> HIDE DEF h
  <2> QED BY <2>1, <2>4 DEF h
<1>7. CASE g.state = "KICK_GROUND_AIR"
  <2>1. h = IF anim_ended(g)
            THEN IF g.grounded THEN enter_wait(g) ELSE enter_fall(g)
            ELSE g
    BY <1>7 DEF proc_update, Dives, GroundMoves, Landings, Jumps, AerialJumps, AirAttacks
  <2>2. Sound(enter_wait(g), c) /\ Settled(enter_wait(g))
    BY <1>1, WaitIsGood DEF Good
  <2>3. ~g.grounded => Sound(enter_fall(g), c) /\ Settled(enter_fall(g))
    BY <1>1, FallIsGood DEF Good, Sound
  <2> HIDE DEF h
  <2> QED BY <2>1, <2>2, <2>3 DEF h
<1>8. CASE g.state \in ToWait
  <2>1. h = IF anim_ended(g) THEN enter_wait(g) ELSE g
    BY <1>8 DEF proc_update, Dives, GroundMoves, Landings, Jumps, AerialJumps, AirAttacks
  <2>2. Sound(enter_wait(g), c) /\ Settled(enter_wait(g))
    BY <1>1, WaitIsGood DEF Good
  <2> HIDE DEF h
  <2> QED BY <2>1, <2>2 DEF h
<1>9. CASE g.state \in ToFall
  <2>1. h = IF anim_ended(g) THEN enter_fall(g) ELSE g
    BY <1>9 DEF proc_update, Dives, GroundMoves, Landings, Jumps, AerialJumps, AirAttacks
  <2>2. is_air_state(g.state) /\ g.state # "KICK_GROUND_AIR"
    BY <1>9, AirNames DEF Jumps, AerialJumps, AirAttacks
  <2>3. Sound(enter_fall(g), c) /\ Settled(enter_fall(g))
    BY <1>1, <2>2, FallIsGood DEF Good, Sound, Suits
  <2> HIDE DEF h
  <2> QED BY <2>1, <2>3 DEF h
<1>10. CASE /\ g.state \notin {"TURN", "TURN_RUN", "KNEEBEND", "DIVE_CATCH",
                               "KICK_GROUND_AIR"} \cup Dives
            /\ g.state \notin ToWait /\ g.state \notin ToFall
  <2>1. h = g
    BY <1>10 DEF proc_update
  <2> QED BY <2>1
<1> QED BY <1>2, <1>3, <1>4, <1>5, <1>6, <1>7, <1>8, <1>9, <1>10

(* The first check that applies.                                           *)
LEMMA FirstIsGood ==
  ASSUME NEW in, NEW c, NEW S, NEW T, AllGood(S, in, c), AllGood(T, in, c)
  PROVE  AllGood(S ?? T, in, c)
BY DEF AllGood, ??

LEMMA WhenIsGood ==
  ASSUME NEW in, NEW c, NEW cond \in BOOLEAN, NEW g, cond => Good(g, in, c)
  PROVE  AllGood(When(cond, g), in, c)
BY DEF AllGood, When

LEMMA NoneIsGood ==
  ASSUME NEW in, NEW c
  PROVE  AllGood({}, in, c)
BY DEF AllGood

(* The checks of a fighter on the ground.                                  *)
LEMMA SpecialIsGood ==
  ASSUME NEW g, NEW in \in Pads, NEW c \in Nat, Good(g, in, c),
         NEW kick \in Plain, NEW dive \in Dives, NEW punch \in Plain,
         is_air_state(kick) <=> ~g.grounded, is_air_state(punch) <=> ~g.grounded,
         g.grounded \/ kick # "KICK_GROUND", punch # "KICK_GROUND"
  PROVE  Good(enter_special(g, in, kick, dive, punch), in, c)
<1> DEFINE d == IF Toward(g, in) < 0 THEN -g.lr ELSE g.lr
           t == [g EXCEPT !.lr = d]
<1>1. g \in Fighter /\ Sound(g, c)
  BY DEF Good, Sound
<1>2. Good(set_status(g, kick), in, c)
  BY <1>1, StatusIsGood
<1>3. Good(enter_falcon_dive(g, dive), in, c)
  BY <1>1, DiveIsGood
<1>4. d \in {-1, 1}
  BY <1>1 DEF Fighter
<1>5. t = [g EXCEPT !.lr = d]
  OBVIOUS
<1>6. enter_special(g, in, kick, dive, punch) =
        IF in.stick_y <= -40 THEN set_status(g, kick)
        ELSE IF in.stick_y >= 40 THEN enter_falcon_dive(g, dive)
        ELSE set_status(t, punch)
  BY DEF enter_special
<1> HIDE DEF t, d
<1>7. Alike(t, g)
  BY <1>1, <1>4, <1>5, FacingSet
<1>8. Sound(t, c) /\ (t.grounded <=> g.grounded)
  BY <1>1, <1>7, AlikeIsSound DEF Alike
<1>9. Good(set_status(t, punch), in, c)
  BY <1>8, StatusIsGood
<1> QED BY <1>2, <1>3, <1>6, <1>9

LEMMA GroundSpecial ==
  ASSUME NEW g, NEW in \in Pads, NEW c \in Nat, Good(g, in, c), g.grounded
  PROVE  AllGood(check_ground_special(g, in), in, c)
<1>1. "DIVE_GROUND" \in Dives
  BY DEF Dives
<1>2. /\ "KICK_GROUND" \in Plain /\ "PUNCH_GROUND" \in Plain
      /\ ~is_air_state("KICK_GROUND") /\ ~is_air_state("PUNCH_GROUND")
  BY PlainNames, GroundNames
<1>3. Good(enter_ground_special(g, in), in, c)
  BY <1>1, <1>2, SpecialIsGood DEF enter_ground_special
<1>4. in.special \in BOOLEAN
  BY DEF Pads
<1> QED BY <1>3, <1>4, WhenIsGood DEF check_ground_special

LEMMA AirSpecial ==
  ASSUME NEW g, NEW in \in Pads, NEW c \in Nat, Good(g, in, c), ~g.grounded
  PROVE  AllGood(check_air_special(g, in), in, c)
<1>1. "DIVE_AIR" \in Dives
  BY DEF Dives
<1>2. /\ "KICK_AIR" \in Plain /\ "PUNCH_AIR" \in Plain
      /\ is_air_state("KICK_AIR") /\ is_air_state("PUNCH_AIR")
  BY PlainNames, AirNames
<1>3. Good(enter_air_special(g, in), in, c)
  BY <1>1, <1>2, SpecialIsGood DEF enter_air_special
<1>4. in.special \in BOOLEAN
  BY DEF Pads
<1> QED BY <1>3, <1>4, WhenIsGood DEF check_air_special

LEMMA GroundAttack ==
  ASSUME NEW g, NEW in \in Pads, NEW c \in Nat, Good(g, in, c), g.grounded
  PROVE  AllGood(check_ground_attack(g, in), in, c)
<1> DEFINE t == [g EXCEPT !.lr = Sign(in.stick_x)]
<1>1. g \in Fighter /\ Sound(g, c)
  BY DEF Good, Sound
<1>2. Sign(in.stick_x) \in {-1, 1}
  BY DEF Sign
<1>3. Alike(t, g)
  BY <1>1, <1>2, FacingSet
<1>4. check_ground_attack(g, in) =
        When(in.attack, IF Abs(in.stick_y) >= 20 THEN g
                        ELSE IF Abs(in.stick_x) >= 20 THEN set_status(t, "FTILT")
                        ELSE set_status(g, "JAB"))
  BY DEF check_ground_attack
<1> HIDE DEF t
<1>5. Sound(t, c) /\ t.grounded
  BY <1>1, <1>3, AlikeIsSound DEF Alike
<1>6. /\ "FTILT" \in Plain /\ "JAB" \in Plain
      /\ ~is_air_state("FTILT") /\ ~is_air_state("JAB")
  BY PlainNames, GroundNames
<1>7. Good(set_status(t, "FTILT"), in, c) /\ Good(set_status(g, "JAB"), in, c)
  BY <1>1, <1>5, <1>6, StatusIsGood
<1>8. in.attack \in BOOLEAN
  BY DEF Pads
<1> QED BY <1>4, <1>7, <1>8, WhenIsGood

LEMMA AirAttack ==
  ASSUME NEW g, NEW in \in Pads, NEW c \in Nat, Good(g, in, c), ~g.grounded
  PROVE  AllGood(check_air_attack(g, in), in, c)
<1>1. Sound(g, c)
  BY DEF Good
<1>2. ASSUME NEW s \in AirAttacks PROVE Good(set_status(g, s), in, c)
  <2>1. s \in Plain /\ is_air_state(s) /\ s # "KICK_GROUND"
    BY PlainNames, AirNames DEF AirAttacks
  <2> QED BY <1>1, <2>1, StatusIsGood
<1>3. /\ Good(set_status(g, "ATTACK_AIR_LW"), in, c)
      /\ Good(set_status(g, "ATTACK_AIR_N"), in, c)
      /\ Good(set_status(g, "ATTACK_AIR_F"), in, c)
      /\ Good(set_status(g, "ATTACK_AIR_B"), in, c)
  BY <1>2 DEF AirAttacks
<1>4. in.attack \in BOOLEAN
  BY DEF Pads
<1>5. check_air_attack(g, in) =
        When(in.attack,
             IF in.stick_y <= -20 THEN set_status(g, "ATTACK_AIR_LW")
             ELSE IF in.stick_y >= 20 THEN g
             ELSE IF Abs(in.stick_x) < 20 THEN set_status(g, "ATTACK_AIR_N")
             ELSE IF Toward(g, in) >= 0 THEN set_status(g, "ATTACK_AIR_F")
             ELSE set_status(g, "ATTACK_AIR_B"))
  BY DEF check_air_attack
<1> QED BY <1>3, <1>4, <1>5, WhenIsGood

LEMMA DashCheck ==
  ASSUME NEW g, NEW in \in Pads, NEW c \in Nat, Good(g, in, c), g.grounded
  PROVE  AllGood(check_dash(g, in), in, c)
<1> DEFINE t == [g EXCEPT !.lr = Sign(in.stick_x)]
<1>1. g \in Fighter
  BY DEF Good, Sound
<1>2. Sign(in.stick_x) \in {-1, 1} /\ -g.lr \in -1 .. 1
  BY <1>1 DEF Sign, Fighter
<1>3. Alike(t, g)
  BY <1>1, <1>2, FacingSet
<1>4. check_dash(g, in) =
        When(Abs(in.stick_x) >= 56 /\ g.tap_x < 3,
             IF Toward(g, in) < 0 THEN enter_turn(g, -g.lr) ELSE enter_dash(t))
  BY DEF check_dash
<1> HIDE DEF t
<1>5. Entered(enter_turn(g, -g.lr), "TURN", TRUE, g.jumps_used)
  BY <1>1, <1>2, EnterTurn DEF Entered
<1>6. Entered(enter_dash(t), "DASH", TRUE, t.jumps_used)
  BY <1>3, EnterDash DEF Alike, Entered
<1>7. /\ "TURN" \in Plain /\ "DASH" \in Plain
      /\ ~is_air_state("TURN") /\ ~is_air_state("DASH")
  BY PlainNames, GroundNames
<1>8. Good(enter_turn(g, -g.lr), in, c) /\ Good(enter_dash(t), in, c)
  BY <1>5, <1>6, <1>7, EnteredGround
<1>9. (Abs(in.stick_x) >= 56 /\ g.tap_x < 3) \in BOOLEAN
  OBVIOUS
<1> QED BY <1>4, <1>8, <1>9, WhenIsGood

LEMMA TurnCheck ==
  ASSUME NEW g, NEW in \in Pads, NEW c \in Nat, Good(g, in, c), g.grounded
  PROVE  /\ AllGood(check_turn(g, in), in, c)
         /\ AllGood(check_turn_run_from_run(g, in), in, c)
<1>1. g \in Fighter
  BY DEF Good, Sound
<1>2. 0 \in -1 .. 1
  OBVIOUS
<1>3. Entered(enter_turn(g, 0), "TURN", TRUE, g.jumps_used)
  BY <1>1, <1>2, EnterTurn DEF Entered
<1>4. Entered(enter_turn_run(g), "TURN_RUN", TRUE, g.jumps_used)
  BY <1>1, EnterTurnRun DEF Entered
<1>5. /\ "TURN" \in Plain /\ "TURN_RUN" \in Plain
      /\ ~is_air_state("TURN") /\ ~is_air_state("TURN_RUN")
  BY PlainNames, GroundNames
<1>6. Good(enter_turn(g, 0), in, c) /\ Good(enter_turn_run(g), in, c)
  BY <1>3, <1>4, <1>5, EnteredGround
<1>7. (Toward(g, in) <= -20) \in BOOLEAN /\ (Toward(g, in) <= -30) \in BOOLEAN
  OBVIOUS
<1> QED BY <1>6, <1>7, WhenIsGood DEF check_turn, check_turn_run_from_run

LEMMA WalkCheck ==
  ASSUME NEW g, NEW in \in Pads, NEW c \in Nat, Good(g, in, c), g.grounded
  PROVE  /\ AllGood(check_walk(g, in), in, c)
         /\ AllGood(check_wait(g, in), in, c)
         /\ AllGood(check_run_from_dash(g, in), in, c)
         /\ AllGood(check_run_brake_from_run(g, in), in, c)
<1>1. g \in Fighter /\ Sound(g, c)
  BY DEF Good, Sound
<1>2. walk_status_for(in) \in Walks
  BY DEF walk_status_for, Walks
<1>3. /\ "RUN" \in Plain /\ "RUN_BRAKE" \in Plain /\ walk_status_for(in) \in Plain
      /\ ~is_air_state("RUN") /\ ~is_air_state("RUN_BRAKE")
      /\ ~is_air_state(walk_status_for(in))
  BY <1>2, PlainNames, GroundNames
<1>4. /\ Good(set_status(g, walk_status_for(in)), in, c)
      /\ Good(set_status(g, "RUN"), in, c)
      /\ Good(set_status(g, "RUN_BRAKE"), in, c)
      /\ Good(enter_wait(g), in, c)
  BY <1>1, <1>3, StatusIsGood, WaitIsGood
<1>5. /\ (Toward(g, in) >= 8) \in BOOLEAN
      /\ (Toward(g, in) < 0 \/ Abs(in.stick_x) < 8) \in BOOLEAN
      /\ (g.frame = 16 /\ Toward(g, in) >= 50) \in BOOLEAN
      /\ (Toward(g, in) < 50) \in BOOLEAN
  OBVIOUS
<1> QED
  BY <1>4, <1>5, WhenIsGood
     DEF check_walk, check_wait, check_run_from_dash, check_run_brake_from_run

(* A walk that changes its pace keeps its frame.                           *)
LEMMA PaceIsGood ==
  ASSUME NEW g, NEW in \in Pads, NEW c \in Nat, Good(g, in, c), g.grounded
  PROVE  Good([g EXCEPT !.state = walk_status_for(in)], in, c)
<1> DEFINE s == walk_status_for(in)
           h == [g EXCEPT !.state = s]
<1>1. s \in Walks
  BY DEF walk_status_for, Walks
<1>2. s \in Plain /\ ~is_air_state(s)
  BY <1>1, PlainNames, GroundNames
<1>3. g \in Fighter
  BY DEF Good, Sound
<1>4. h = [g EXCEPT !.state = s]
  OBVIOUS
<1> HIDE DEF s, h
<1>5. /\ h \in Fighter /\ h.state = s /\ h.grounded
      /\ h.jumps_used = g.jumps_used
  BY <1>2, <1>3, <1>4 DEF Fighter, Plain
<1>6. Good(h, in, c)
  BY <1>2, <1>5 DEF Good, Sound, Suits, Paid, Plain
<1> QED BY <1>6 DEF h, s

LEMMA KneebendCheck ==
  ASSUME NEW g, NEW in \in Pads, NEW c \in Nat, Good(g, in, c), g.grounded, NEW run
  PROVE  AllGood(check_kneebend(g, in, run), in, c)
<1>1. g \in Fighter
  BY DEF Good, Sound
<1>2. Entered(enter_kneebend(g), "KNEEBEND", TRUE, g.jumps_used)
  BY <1>1, EnterKneebend DEF Entered
<1>3. "KNEEBEND" \in Plain /\ ~is_air_state("KNEEBEND")
  BY PlainNames, GroundNames
<1>4. Good(enter_kneebend(g), in, c)
  BY <1>2, <1>3, EnteredGround
<1>5. (kneebend_input_type(g, in, run) # "none") \in BOOLEAN
  OBVIOUS
<1> QED BY <1>4, <1>5, WhenIsGood DEF check_kneebend

(* An aerial jump: out of water one of those due pays for it.              *)
LEMMA AerialCheck ==
  ASSUME NEW g, NEW in \in Pads, NEW c \in Nat, Good(g, in, c), ~g.grounded
  PROVE  AllGood(check_jump_aerial(g, in), in, c)
<1> DEFINE h == enter_jump_aerial(g, in)
           n == IF g.jumps_used < MaxJumps THEN g.jumps_used + 1 ELSE g.jumps_used
           due == in.unlimited \/ g.jumps_used < 2
<1>1. g \in Fighter /\ c + g.jumps_used >= 2
  BY DEF Good, Sound
<1>2. n = IF g.jumps_used < MaxJumps THEN g.jumps_used + 1 ELSE g.jumps_used
  OBVIOUS
<1>3. g.jumps_used \in 0 .. MaxJumps
  BY <1>1 DEF Fighter
<1>4. n \in Nat /\ c + n >= 2
  BY <1>1, <1>3, MaxJumpsAssumption
<1>5. g.jumps_used < 2 => c >= 1 /\ c + n >= 3
  BY <1>1, <1>3, MaxJumpsAssumption
<1> HIDE DEF n
<1>6. PICK s \in AerialJumps : Entered(h, s, FALSE, n)
  BY <1>1, <1>2, EnterJumpAerial
<1>7. is_air_state(s) /\ s \notin DiveStates \cup Jumps /\ s # "KICK_GROUND"
  BY DEF is_air_state, DiveStates, Dives, Jumps, AerialJumps
<1> HIDE DEF h
<1>8. Sound(h, c)
  BY <1>4, <1>6, <1>7 DEF Entered, Sound, Suits
<1>9. due => Paid(h, in, c)
  BY <1>5, <1>6 DEF Entered, Paid
<1>10. due => Good(h, in, c)
  BY <1>8, <1>9 DEF Good
<1>11. (due /\ ((in.stick_y >= 53 /\ g.tap_y <= 3) \/ in.jump_pressed)) \in BOOLEAN
  BY DEF Pads
<1>12. check_jump_aerial(g, in) =
         When(due /\ ((in.stick_y >= 53 /\ g.tap_y <= 3) \/ in.jump_pressed), h)
  BY DEF check_jump_aerial, h
<1> HIDE DEF due
<1> QED BY <1>10, <1>11, <1>12, WhenIsGood

LEMMA ChosenIsGood ==
  ASSUME NEW in, NEW c, NEW g, Good(g, in, c), NEW S, AllGood(S, in, c)
  PROVE  Good(CHOOSE h \in S ?? {g} : TRUE, in, c)
<1>1. S ?? {g} # {}
  BY DEF ??
<1>2. AllGood(S ?? {g}, in, c)
  BY DEF AllGood, ??
<1>3. (CHOOSE h \in S ?? {g} : TRUE) \in S ?? {g}
  <2> DEFINE T == S ?? {g}
  <2>1. PICK x : x \in T
    BY <1>1
  <2> HIDE DEF T
  <2>2. (CHOOSE h \in T : TRUE) \in T
    BY <2>1
  <2> QED BY <2>2 DEF T
<1> QED BY <1>2, <1>3 DEF AllGood

LEMMA OnTheGround ==
  ASSUME NEW g, NEW in \in Pads, NEW c \in Nat, Good(g, in, c), g.grounded
  PROVE  /\ AllGood(Specials(g, in), in, c)
         /\ AllGood(GroundInterrupts(g, in), in, c)
<1>1. AllGood(Specials(g, in), in, c)
  BY GroundSpecial, GroundAttack, FirstIsGood DEF Specials
<1>2. /\ AllGood(check_kneebend(g, in, FALSE), in, c)
      /\ AllGood(check_dash(g, in), in, c)
      /\ AllGood(check_turn(g, in), in, c)
      /\ AllGood(check_walk(g, in), in, c)
  BY KneebendCheck, DashCheck, TurnCheck, WalkCheck
<1>3. AllGood(Specials(g, in) ?? check_kneebend(g, in, FALSE), in, c)
  BY <1>1, <1>2, FirstIsGood
<1>4. AllGood(Specials(g, in) ?? check_kneebend(g, in, FALSE) ?? check_dash(g, in), in, c)
  BY <1>2, <1>3, FirstIsGood
<1>5. AllGood(Specials(g, in) ?? check_kneebend(g, in, FALSE) ?? check_dash(g, in)
                ?? check_turn(g, in), in, c)
  BY <1>2, <1>4, FirstIsGood
<1>6. AllGood(GroundInterrupts(g, in), in, c)
  BY <1>2, <1>5, FirstIsGood DEF GroundInterrupts
<1> QED BY <1>1, <1>6

(* Whatever interrupts the state, the fighter it leaves is sound.          *)
LEMMA Interrupted ==
  ASSUME NEW g, NEW in \in Pads, NEW c \in Nat, Sound(g, c), Settled(g)
  PROVE  Good(proc_interrupt(g, in), in, c)
<1> DEFINE S == g.state
           Walking ==
             Specials(g, in) ?? check_kneebend(g, in, FALSE)
               ?? check_dash(g, in) ?? check_wait(g, in)
               ?? {[g EXCEPT !.state = walk_status_for(in)]}
           Dashing ==
             Specials(g, in)
               ?? (IF g.frame \in 6 .. 20 /\ Toward(g, in) < 0
                   THEN check_dash(g, in) ELSE {})
               ?? check_kneebend(g, in, TRUE) ?? check_run_from_dash(g, in)
           Running ==
             Specials(g, in) ?? check_kneebend(g, in, TRUE)
               ?? check_turn_run_from_run(g, in) ?? check_run_brake_from_run(g, in)
           Braking ==
             Specials(g, in) ?? check_kneebend(g, in, TRUE)
               ?? (IF g.frame <= 4 THEN check_turn_run_from_run(g, in) ELSE {})
           Again == /\ g.turn_flag1 /\ g.turn_lr_dash # 0
                    /\ in.stick_x * g.turn_lr_turn >= 56 /\ g.tap_x < 3
           Turning ==
             Specials(g, in) ?? check_kneebend(g, in, FALSE)
               ?? When(Again, enter_dash(g))
           RunTurning == Specials(g, in) ?? check_kneebend(g, in, TRUE)
           Flying ==
             check_air_special(g, in) ?? check_air_attack(g, in)
               ?? check_jump_aerial(g, in)
           taken ==
             CASE S = "WAIT" \/ (S \in Landings /\ g.frame >= 4) -> GroundInterrupts(g, in)
               [] S \in Walks -> Walking
               [] S = "DASH" -> Dashing
               [] S = "RUN" -> Running
               [] S = "RUN_BRAKE" -> Braking
               [] S = "TURN" -> Turning
               [] S = "TURN_RUN" -> RunTurning
               [] S \in Jumps \cup AerialJumps \cup Falls -> Flying
               [] OTHER -> {}
<1>1. proc_interrupt(g, in) = CHOOSE h \in taken ?? {g} : TRUE
  BY DEF proc_interrupt
<1>2. Good(g, in, c) /\ g \in Fighter
  BY DEF Good, Paid, Settled, Sound
<1>3. AllGood({}, in, c)
  BY NoneIsGood
<1>4. ASSUME g.grounded
      PROVE  /\ AllGood(GroundInterrupts(g, in), in, c) /\ AllGood(Walking, in, c)
             /\ AllGood(Dashing, in, c) /\ AllGood(Running, in, c)
             /\ AllGood(Braking, in, c) /\ AllGood(Turning, in, c)
             /\ AllGood(RunTurning, in, c)
  <2> DEFINE Sp == Specials(g, in)
             K == check_kneebend(g, in, FALSE)
             KR == check_kneebend(g, in, TRUE)
             D == check_dash(g, in)
             Wt == check_wait(g, in)
             P == {[g EXCEPT !.state = walk_status_for(in)]}
             DB == IF g.frame \in 6 .. 20 /\ Toward(g, in) < 0 THEN D ELSE {}
             R == check_run_from_dash(g, in)
             T == check_turn_run_from_run(g, in)
             TB == IF g.frame <= 4 THEN T ELSE {}
             B == check_run_brake_from_run(g, in)
             A == When(Again, enter_dash(g))
  <2>1. AllGood(GroundInterrupts(g, in), in, c) /\ AllGood(Sp, in, c)
    BY <1>2, <1>4, OnTheGround
  <2>2. AllGood(K, in, c) /\ AllGood(KR, in, c) /\ AllGood(D, in, c) /\ AllGood(T, in, c)
    BY <1>2, <1>4, KneebendCheck, DashCheck, TurnCheck
  <2>3. AllGood(Wt, in, c) /\ AllGood(R, in, c) /\ AllGood(B, in, c)
    BY <1>2, <1>4, WalkCheck
  <2>4. AllGood(P, in, c)
    BY <1>2, <1>4, PaceIsGood DEF AllGood
  <2>5. AllGood(DB, in, c) /\ AllGood(TB, in, c)
    BY <1>3, <2>2
  <2>6. AllGood(A, in, c)
    <3>1. Entered(enter_dash(g), "DASH", TRUE, g.jumps_used)
      BY <1>2, <1>4, EnterDash DEF Entered
    <3>2. "DASH" \in Plain /\ ~is_air_state("DASH")
      BY PlainNames, GroundNames
    <3>3. Good(enter_dash(g), in, c)
      BY <3>1, <3>2, EnteredGround
    <3>4. Again \in BOOLEAN
      BY <1>2 DEF Fighter
    <3> HIDE DEF Again
    <3> QED BY <3>3, <3>4, WhenIsGood
  <2>7. /\ Walking = Sp ?? K ?? D ?? Wt ?? P
        /\ Dashing = Sp ?? DB ?? KR ?? R
        /\ Running = Sp ?? KR ?? T ?? B
        /\ Braking = Sp ?? KR ?? TB
        /\ Turning = Sp ?? K ?? A
        /\ RunTurning = Sp ?? KR
    OBVIOUS
  <2> HIDE DEF Sp, K, KR, D, Wt, P, DB, R, T, TB, B, A,
               Walking, Dashing, Running, Braking, Turning, RunTurning
  <2>8. /\ AllGood(Sp ?? K, in, c) /\ AllGood(Sp ?? DB, in, c)
        /\ AllGood(Sp ?? KR, in, c)
    BY <2>1, <2>2, <2>5, FirstIsGood
  <2>9. /\ AllGood(Sp ?? K ?? D, in, c) /\ AllGood(Sp ?? DB ?? KR, in, c)
        /\ AllGood(Sp ?? KR ?? T, in, c) /\ AllGood(Sp ?? KR ?? TB, in, c)
        /\ AllGood(Sp ?? K ?? A, in, c)
    BY <2>2, <2>5, <2>6, <2>8, FirstIsGood
  <2>10. /\ AllGood(Sp ?? K ?? D ?? Wt, in, c) /\ AllGood(Sp ?? DB ?? KR ?? R, in, c)
         /\ AllGood(Sp ?? KR ?? T ?? B, in, c)
    BY <2>3, <2>9, FirstIsGood
  <2>11. AllGood(Sp ?? K ?? D ?? Wt ?? P, in, c)
    BY <2>4, <2>10, FirstIsGood
  <2> QED BY <2>1, <2>7, <2>8, <2>9, <2>10, <2>11
<1>5. ASSUME ~g.grounded
      PROVE  AllGood(Flying, in, c)
  <2>1. /\ AllGood(check_air_special(g, in), in, c)
        /\ AllGood(check_air_attack(g, in), in, c)
        /\ AllGood(check_jump_aerial(g, in), in, c)
    BY <1>2, <1>5, AirSpecial, AirAttack, AerialCheck
  <2>2. AllGood(check_air_special(g, in) ?? check_air_attack(g, in), in, c)
    BY <2>1, FirstIsGood
  <2> QED BY <2>1, <2>2, FirstIsGood
<1>6. S \in Walks \cup Landings \cup {"WAIT", "DASH", "RUN", "RUN_BRAKE", "TURN", "TURN_RUN"}
        => g.grounded
  <2>1. S \in Walks \cup Landings \cup {"WAIT", "DASH", "RUN", "RUN_BRAKE", "TURN", "TURN_RUN"}
          => ~is_air_state(S) /\ S # "KICK_GROUND"
    BY GroundNames DEF Walks, Landings
  <2> QED BY <2>1 DEF Sound, Suits
<1>7. S \in Jumps \cup AerialJumps \cup Falls => ~g.grounded
  <2>1. S \in Jumps \cup AerialJumps \cup Falls
          => is_air_state(S) /\ S # "KICK_GROUND_AIR"
    BY AirNames DEF Jumps, AerialJumps, Falls
  <2> QED BY <2>1 DEF Sound, Suits
<1>8. \/ /\ g.grounded
         /\ taken \in {GroundInterrupts(g, in), Walking, Dashing, Running, Braking,
                       Turning, RunTurning}
      \/ ~g.grounded /\ taken = Flying
      \/ taken = {}
  <2> HIDE DEF Walking, Dashing, Running, Braking, Turning, RunTurning, Flying
  <2> QED BY <1>6, <1>7
<1> HIDE DEF Walking, Dashing, Running, Braking, Turning, RunTurning, Flying, taken
<1>9. AllGood(taken, in, c)
  BY <1>3, <1>4, <1>5, <1>8
<1> QED BY <1>1, <1>2, <1>9, ChosenIsGood

(* The physics and the root motion change velocities only.                 *)
LEMMA FlownIsAlike ==
  ASSUME NEW g \in Fighter, NEW in \in Pads, NEW h \in phys_air_tick(g, in)
  PROVE  Alike(h, g)
<1> DEFINE a == [g EXCEPT !.is_fastfall = TRUE]
           b == [a EXCEPT !.tap_y = 4]
           t == phys_check_set_fastfall(g, in)
<1>1. a = [g EXCEPT !.is_fastfall = TRUE]
  OBVIOUS
<1>2. b = [a EXCEPT !.tap_y = 4]
  OBVIOUS
<1>3. t = b \/ t = g
  BY DEF phys_check_set_fastfall
<1>4. \/ h = [t EXCEPT !.vy = "fast"]
      \/ \E v \in phys_gravity(t.vy) : h = [t EXCEPT !.vy = v]
  BY DEF phys_air_tick
<1>5. phys_gravity(t.vy) \subseteq VSpeed
  BY DEF phys_gravity, VSpeed
<1>6. "fast" \in VSpeed
  BY Speeds
<1> HIDE DEF a, b, t
<1>7. Alike(a, g)
  BY <1>1, FastfallSet
<1>8. Alike(b, a)
  BY <1>2, <1>7, TapYSet DEF Alike
<1>9. Alike(t, g)
  BY <1>3, <1>7, <1>8 DEF Alike
<1>10. PICK v \in VSpeed : h = [t EXCEPT !.vy = v]
  BY <1>4, <1>5, <1>6
<1>11. Alike(h, t)
  BY <1>9, <1>10, SpeedSet DEF Alike
<1> QED BY <1>9, <1>11 DEF Alike

LEMMA MovedIsAlike ==
  ASSUME NEW g \in Fighter, NEW in \in Pads, NEW h \in proc_physics(g, in)
  PROVE  Alike(h, g)
<1>1. h \in phys_air_tick(g, in) \/ h = g \/ h = [g EXCEPT !.vy = "rest"]
  BY DEF proc_physics, phys_falcon_dive_launch, phys_falcon_dive_fall, phys_ground
<1>2. CASE h \in phys_air_tick(g, in)
  BY <1>2, FlownIsAlike
<1>3. CASE h = g
  BY <1>3 DEF Alike
<1>4. CASE h = [g EXCEPT !.vy = "rest"]
  <2>1. "rest" \in VSpeed
    BY Speeds
  <2> QED BY <1>4, <2>1, SpeedSet
<1> QED BY <1>1, <1>2, <1>3, <1>4

LEMMA RootedIsAlike ==
  ASSUME NEW g \in Fighter, NEW h \in RootMotion(g)
  PROVE  Alike(h, g)
<1>1. g.vy \in VSpeed
  BY DEF Fighter
<1>2. \/ h = g
      \/ \E v \in {"up", "rest", "down", g.vy} : h = [g EXCEPT !.vy = v]
  BY DEF RootMotion
<1>3. CASE h = g
  BY <1>3 DEF Alike
<1>4. CASE \E v \in {"up", "rest", "down", g.vy} : h = [g EXCEPT !.vy = v]
  <2>1. PICK v \in {"up", "rest", "down", g.vy} : h = [g EXCEPT !.vy = v]
    BY <1>4
  <2>2. v \in VSpeed
    BY <1>1, Speeds
  <2> QED BY <2>1, <2>2, SpeedSet
<1> QED BY <1>2, <1>3, <1>4

(* The age of a tap stays a small number.                                  *)
LEMMA TapAges ==
  ASSUME NEW age \in 1 .. 4, NEW was, NEW now
  PROVE  TapAge(age, was, now) \in 1 .. 4
<1>1. CASE age < 4
  BY <1>1 DEF TapAge
<1>2. CASE ~(age < 4)
  BY <1>2 DEF TapAge
<1> QED BY <1>1, <1>2

LEMMA TapsAreAlike ==
  ASSUME NEW g \in Fighter, NEW in \in Pads
  PROVE  Alike(update_tap_buffers(g, in), g)
<1> DEFINE x == TapAge(g.tap_x, g.prev_x, Zone(in.stick_x))
           y == TapAge(g.tap_y, g.prev_y, Zone(in.stick_y))
           zx == Zone(in.stick_x)
           zy == Zone(in.stick_y)
           a == [g EXCEPT !.tap_x = x]
           b == [a EXCEPT !.tap_y = y]
           c == [b EXCEPT !.prev_x = zx]
           h == [c EXCEPT !.prev_y = zy]
<1>1. update_tap_buffers(g, in) = h
  BY DEF update_tap_buffers
<1>2. g.tap_x \in 1 .. 4 /\ g.tap_y \in 1 .. 4
  BY DEF Fighter
<1>3. x \in 1 .. 4 /\ y \in 1 .. 4
  BY <1>2, TapAges
<1>4. zx \in -1 .. 1 /\ zy \in -1 .. 1
  BY DEF Zone
<1>5. a = [g EXCEPT !.tap_x = x]
  OBVIOUS
<1>6. b = [a EXCEPT !.tap_y = y]
  OBVIOUS
<1>7. c = [b EXCEPT !.prev_x = zx]
  OBVIOUS
<1>8. h = [c EXCEPT !.prev_y = zy]
  OBVIOUS
<1> HIDE DEF x, y, zx, zy, a, b, c, h
<1>9. Alike(a, g)
  BY <1>3, <1>5, TapXSet
<1>10. Alike(b, a)
  BY <1>3, <1>6, <1>9, TapYSet DEF Alike
<1>11. Alike(c, b)
  BY <1>4, <1>7, <1>10 DEF Alike, Fighter
<1>12. Alike(h, c)
  BY <1>4, <1>8, <1>11 DEF Alike, Fighter
<1>13. Alike(h, g)
  BY <1>9, <1>10, <1>11, <1>12 DEF Alike
<1> QED BY <1>1, <1>13

(* The next frame is one the counter has room for, and never the first.    *)
LEMMA FramesRange ==
  ASSUME NEW s \in FalconState
  PROVE  Marks[s] \subseteq 0 .. 89 /\ 1 \in Marks[s]
<1>1. s_state_length[s] \in 0 .. 89
  BY DEF s_state_length
<1> QED BY <1>1 DEF Marks

LEMMA NextFrame ==
  ASSUME NEW s \in FalconState, NEW t \in 0 .. 89, NEW n \in NextFrames(s, t)
  PROVE  n \in 0 .. 89 /\ n # 0
<1>1. Marks[s] \subseteq 0 .. 89 /\ 1 \in Marks[s]
  BY FramesRange
<1>2. CASE t + 1 \in Marks[s]
  BY <1>1, <1>2 DEF NextFrames
<1>3. CASE t + 1 \notin Marks[s]
  <2>1. t # 0
    BY <1>1, <1>3
  <2>2. n = t \/ (n \in Marks[s] /\ n > t)
    BY <1>3 DEF NextFrames
  <2> QED BY <1>1, <2>1, <2>2
<1> QED BY <1>2, <1>3

(* What the fighter of the last frame brings into the tick, whatever the   *)
(* host says of its footing.                                               *)
Ready(g, c) ==
  /\ g \in Fighter
  /\ g.state \in DiveStates => g.jumps_used >= 2
  /\ g.state \in Jumps => g.jumps_used >= 1
  /\ c + g.jumps_used >= 2
  /\ ~is_air_state(g.state) => c = 2

LEMMA PunchLandsSound ==
  ASSUME NEW g \in Fighter, NEW c, g.grounded
  PROVE  Sound(PunchLands(g), c)
<1> DEFINE a == [g EXCEPT !.state = "PUNCH_GROUND"]
           h == [a EXCEPT !.vy = "rest"]
<1>1. PunchLands(g) = h
  BY DEF PunchLands
<1>2. a = [g EXCEPT !.state = "PUNCH_GROUND"]
  OBVIOUS
<1>3. h = [a EXCEPT !.vy = "rest"]
  OBVIOUS
<1> HIDE DEF a, h
<1>4. "PUNCH_GROUND" \in FalconState /\ "rest" \in VSpeed
  BY Names, Speeds
<1>5. a \in Fighter /\ a.state = "PUNCH_GROUND" /\ a.grounded
  BY <1>2, <1>4 DEF Fighter
<1>6. h \in Fighter /\ h.state = "PUNCH_GROUND" /\ h.grounded
  BY <1>3, <1>4, <1>5, SpeedSet DEF Alike
<1>7. "PUNCH_GROUND" \in Plain /\ ~is_air_state("PUNCH_GROUND")
  BY PlainNames, GroundNames
<1>8. Sound(h, c)
  BY <1>6, <1>7 DEF Sound, Suits, Plain
<1> QED BY <1>1, <1>8

(* The kick that has lost its floor: still the ground kick, or already the *)
(* one in the air, with one jump used.                                     *)
LEMMA KickLeaves ==
  ASSUME NEW g \in Fighter, g.state = "KICK_GROUND", NEW h, h = [g EXCEPT !.jumps_used = 1],
         ~h.grounded, NEW c, c = 2
  PROVE  Sound(h, c) /\ Sound(set_status(h, "KICK_GROUND_AIR"), c)
<1> DEFINE n == 1
<1>1. n \in 0 .. MaxJumps /\ h = [g EXCEPT !.jumps_used = n]
  BY MaxJumpsAssumption
<1>2. n = 1
  OBVIOUS
<1> HIDE DEF n
<1>3. h \in Fighter /\ h.state = "KICK_GROUND" /\ h.jumps_used = n
  BY <1>1, JumpsSet
<1>4. c + n >= 2
  BY <1>2
<1>5. "KICK_GROUND" \in Plain
  BY PlainNames
<1>6. Sound(h, c)
  BY <1>3, <1>4, <1>5 DEF Sound, Suits, Plain
<1>7. "KICK_GROUND_AIR" \in Plain /\ is_air_state("KICK_GROUND_AIR")
  BY PlainNames, AirNames
<1>8. Sound(set_status(h, "KICK_GROUND_AIR"), c)
  BY <1>6, <1>7, StatusIsGood DEF Good
<1> QED BY <1>6, <1>8

(* After a footing the fighter did not choose, state and footing agree.    *)
LEMMA Reconciled ==
  ASSUME NEW g, NEW in \in Pads, NEW cause, NEW c \in Nat, Ready(g, c)
  PROVE  /\ Sound(Reconcile(g, in, cause), c)
         /\ Reconcile(g, in, cause).state = "KNEEBEND" => c = 2
<1> DEFINE h == Reconcile(g, in, cause)
<1>1. g \in Fighter /\ g.jumps_used \in Nat
  BY MaxJumpsAssumption DEF Ready, Fighter
<1>2. CASE ~g.grounded /\ g.state = "KICK_GROUND"
  <2> DEFINE k == [g EXCEPT !.jumps_used = 1]
  <2>1. h = IF g.frame >= 32 THEN set_status(k, "KICK_GROUND_AIR") ELSE k
    BY <1>2 DEF Reconcile
  <2>2. k = [g EXCEPT !.jumps_used = 1] /\ ~k.grounded
    BY <1>1, <1>2 DEF Fighter
  <2>3. c = 2
    BY <1>2, GroundNames DEF Ready
  <2> HIDE DEF k, h
  <2>4. Sound(k, c) /\ Sound(set_status(k, "KICK_GROUND_AIR"), c)
    BY <1>1, <1>2, <2>2, <2>3, KickLeaves
  <2> QED BY <2>1, <2>3, <2>4 DEF h
<1>3. CASE ~g.grounded /\ g.state # "KICK_GROUND" /\ ~is_air_state(g.state)
  <2> DEFINE e == enter_fall(g)
             k == [e EXCEPT !.jumps_used = 0]
  <2>1. h = IF cause = "launched" THEN enter_jump(g, in) ELSE k
    BY <1>3 DEF Reconcile
  <2>2. c = 2
    BY <1>3 DEF Ready
  <2>3. Sound(enter_jump(g, in), c)
    BY <1>1, <2>2, JumpIsGood DEF Good
  <2>4. k = [e EXCEPT !.jumps_used = 0]
    OBVIOUS
  <2>5. PICK s \in Falls : Entered(e, s, FALSE, g.jumps_used)
    BY <1>1, EnterFall
  <2>6. 0 \in 0 .. MaxJumps
    BY MaxJumpsAssumption
  <2> HIDE DEF e, k, h
  <2>7. k \in Fighter /\ k.state = s /\ k.jumps_used = 0 /\ ~k.grounded
    BY <2>4, <2>5, <2>6, JumpsSet DEF Entered
  <2>8. s \in Plain /\ is_air_state(s) /\ s # "KICK_GROUND"
    BY PlainNames, AirNames DEF Falls
  <2>9. Sound(k, c)
    BY <2>2, <2>7, <2>8 DEF Sound, Suits, Plain
  <2> QED BY <2>1, <2>2, <2>3, <2>9 DEF h
<1>4. CASE g.grounded /\ is_air_state(g.state)
  <2>1. \/ h = g /\ g.state = "KICK_GROUND_AIR"
        \/ h = PunchLands(g)
        \/ h = enter_wait(g) \/ h = enter_falcon_dive_landing(g) \/ h = enter_landing(g)
    BY <1>4, GroundNames DEF Reconcile
  <2>2. g.state = "KICK_GROUND_AIR" => Sound(g, c)
    BY <1>4 DEF Ready, Sound, Suits
  <2>3. Sound(PunchLands(g), c) /\ PunchLands(g).state # "KNEEBEND"
    BY <1>1, <1>4, PunchLandsSound DEF PunchLands, Fighter
  <2>4. Sound(enter_wait(g), c) /\ enter_wait(g).state # "KNEEBEND"
    BY <1>1, WaitIsGood, EnterWait DEF Good, Entered
  <2>5. /\ Sound(enter_falcon_dive_landing(g), c)
        /\ enter_falcon_dive_landing(g).state # "KNEEBEND"
    BY <1>1, LandingIsGood, EnterDiveLanding DEF Good, Entered
  <2>6. Sound(enter_landing(g), c) /\ enter_landing(g).state # "KNEEBEND"
    BY <1>1, LandingIsGood, EnterLanding DEF Good, Entered, Landings
  <2> HIDE DEF h
  <2> QED BY <2>1, <2>2, <2>3, <2>4, <2>5, <2>6 DEF h
<1>5. CASE g.grounded /\ ~is_air_state(g.state)
  <2>1. h = g
    BY <1>5 DEF Reconcile
  <2>2. Sound(g, c) /\ c = 2
    BY <1>5 DEF Ready, Sound, Suits
  <2> QED BY <2>1, <2>2
<1>6. CASE ~g.grounded /\ is_air_state(g.state)
  <2>1. h = g
    BY <1>6, GroundNames DEF Reconcile
  <2>2. g.state # "KICK_GROUND" /\ g.state # "KNEEBEND"
    BY <1>6, GroundNames
  <2>3. Sound(g, c)
    BY <1>6, <2>2 DEF Ready, Sound, Suits
  <2> QED BY <2>1, <2>2, <2>3
<1> QED BY <1>2, <1>3, <1>4, <1>5, <1>6

(* What the frame leaves of the aerial jumps due is again enough.          *)
LEMMA CreditKept ==
  ASSUME NEW g, credit \in Nat, Sound(g, credit), NEW jumped \in BOOLEAN,
         jumped => /\ g.state \in AerialJumps /\ credit >= 1
                   /\ credit + g.jumps_used >= 3
  PROVE  /\ CreditStep(g, jumped) \in Nat
         /\ Ready(g, CreditStep(g, jumped))
         /\ g.grounded => CreditStep(g, jumped) = 2
<1> DEFINE d == CreditStep(g, jumped)
<1>1. g \in Fighter /\ g.jumps_used \in Nat /\ g.grounded \in BOOLEAN
  BY MaxJumpsAssumption DEF Sound, Fighter
<1>2. CASE g.grounded
  <2>1. d = 2
    BY <1>2 DEF CreditStep
  <2> HIDE DEF d
  <2> QED BY <1>1, <1>2, <2>1 DEF Sound, Ready, d
<1>3. CASE ~g.grounded /\ Family(g.state) = "dive"
  <2>1. g.state \in DiveStates /\ is_air_state(g.state)
    BY <1>3, AirNames DEF Family, DiveStates
  <2>2. d = 0
    BY <1>3 DEF CreditStep
  <2>3. g.state \notin Jumps /\ g.jumps_used >= 2
    BY <2>1 DEF Sound, DiveStates, Dives, Jumps
  <2> HIDE DEF d
  <2> QED BY <1>1, <1>3, <2>1, <2>2, <2>3 DEF Ready, d
<1>4. CASE ~g.grounded /\ Family(g.state) # "dive" /\ jumped
  <2>1. d = credit - 1
    BY <1>4 DEF CreditStep
  <2>2. is_air_state(g.state) /\ g.state \notin DiveStates \cup Jumps
    BY <1>4, AirNames DEF DiveStates, Dives, Jumps, AerialJumps
  <2>3. credit >= 1 /\ credit + g.jumps_used >= 3
    BY <1>4
  <2>4. credit - 1 \in Nat /\ (credit - 1) + g.jumps_used >= 2
    BY <1>1, <2>3
  <2>5. d \in Nat /\ d + g.jumps_used >= 2
    BY <2>1, <2>4
  <2> HIDE DEF d
  <2> QED BY <1>1, <1>4, <2>2, <2>5 DEF Ready, d
<1>5. CASE ~g.grounded /\ Family(g.state) # "dive" /\ ~jumped /\ f.grounded /\ g.state \in Jumps
  <2>1. d = 1
    BY <1>5 DEF CreditStep
  <2>2. is_air_state(g.state) /\ g.state \notin DiveStates /\ g.jumps_used >= 1
    BY <1>5, AirNames DEF DiveStates, Dives, Jumps, Sound
  <2>3. d \in Nat /\ d + g.jumps_used >= 2
    BY <1>1, <2>1, <2>2
  <2> HIDE DEF d
  <2> QED BY <1>1, <1>5, <2>2, <2>3 DEF Ready, d
<1>6. CASE /\ ~g.grounded /\ Family(g.state) # "dive" /\ ~jumped
           /\ ~(f.grounded /\ g.state \in Jumps)
  <2>1. d = credit
    BY <1>6 DEF CreditStep
  <2>2. ~is_air_state(g.state) => credit = 2
    BY <1>6 DEF Sound, Suits
  <2> HIDE DEF d
  <2> QED BY <1>1, <1>6, <2>1, <2>2 DEF Sound, Ready, d
<1> QED BY <1>1, <1>2, <1>3, <1>4, <1>5, <1>6

(* One tick is five stages: the footing b, the state r reconciled with it, *)
(* the counter advanced k, the animation's end u and the interrupts i.     *)
Stages(g, in, cause, h, c) ==
  \E b, r, k, u, i \in Fighter :
    /\ b.state = g.state /\ b.frame = g.frame
    /\ r = Reconcile(b, in, cause)
    /\ k.state = r.state /\ k.frame \in NextFrames(r.state, r.frame)
    /\ u = proc_update(k, in)
    /\ i = proc_interrupt(u, in) /\ Good(i, in, c)
    /\ Alike(h, i)

LEMMA TickIsStaged ==
  ASSUME NEW g0, NEW in \in Pads, NEW ground \in BOOLEAN, NEW cause, NEW c \in Nat,
         Ready(g0, c), NEW h \in falcon_tick(g0, in, ground, cause)
  PROVE  Stages(g0, in, cause, h, c)
<1> DEFINE a == [g0 EXCEPT !.grounded = ground]
           g1 == update_tap_buffers(a, in)
           forced == \/ g1.state = "KICK_BOUND" /\ g1.frame = 0
                     \/ g1.state = "DIVE_GROUND" /\ g1.frame <= 15
           b == g1.grounded /\ ~forced
           g1b == [g1 EXCEPT !.grounded = b]
           g2 == Reconcile(g1b, in, cause)
<1>1. a = [g0 EXCEPT !.grounded = ground]
  OBVIOUS
<1>2. g1b = [g1 EXCEPT !.grounded = b]
  OBVIOUS
<1>3. b \in BOOLEAN
  OBVIOUS
<1>4. PICK t \in NextFrames(g2.state, g2.frame) :
        h \in proc_physics(proc_interrupt(proc_update([g2 EXCEPT !.frame = t], in), in), in)
  BY DEF falcon_tick
<1>5. g2 = Reconcile(g1b, in, cause)
  OBVIOUS
<1>6. g1 = update_tap_buffers(a, in)
  OBVIOUS
<1> HIDE DEF a, g1, forced, b, g1b, g2
<1>7. /\ a \in Fighter /\ a.state = g0.state /\ a.frame = g0.frame
      /\ a.jumps_used = g0.jumps_used
  BY <1>1, FootingSet DEF Ready
<1>8. Alike(g1, a)
  BY <1>6, <1>7, TapsAreAlike
<1>9. /\ g1b \in Fighter /\ g1b.state = g0.state /\ g1b.frame = g0.frame
      /\ g1b.jumps_used = g0.jumps_used
  BY <1>2, <1>3, <1>7, <1>8, FootingSet DEF Alike
<1>10. Ready(g1b, c)
  BY <1>9 DEF Ready
<1>11. Sound(g2, c) /\ (g2.state = "KNEEBEND" => c = 2)
  BY <1>5, <1>10, Reconciled
<1> DEFINE k == [g2 EXCEPT !.frame = t]
<1>12. k = [g2 EXCEPT !.frame = t]
  OBVIOUS
<1>13. g2 \in Fighter /\ g2.state \in FalconState /\ g2.frame \in 0 .. 89
  BY <1>11 DEF Sound, Fighter
<1>14. t \in 0 .. 89 /\ t # 0
  BY <1>4, <1>13, NextFrame
<1> HIDE DEF k
<1>15. /\ k \in Fighter /\ k.state = g2.state /\ k.frame = t
       /\ (k.grounded <=> g2.grounded) /\ k.jumps_used = g2.jumps_used
  BY <1>12, <1>13, <1>14 DEF Fighter
<1>16. Sound(k, c) /\ Settled(k) /\ (k.state = "KNEEBEND" => c = 2)
  BY <1>11, <1>14, <1>15 DEF Sound, Suits, Settled
<1> DEFINE u == proc_update(k, in)
           i == proc_interrupt(u, in)
<1>17. Sound(u, c) /\ Settled(u)
  BY <1>16, Updated
<1> HIDE DEF u
<1>18. Good(i, in, c)
  BY <1>17, Interrupted
<1>19. h \in proc_physics(i, in)
  BY <1>4 DEF k, u
<1> HIDE DEF i
<1>20. Alike(h, i)
  BY <1>18, <1>19, MovedIsAlike DEF Good, Sound
<1>21. u \in Fighter /\ i \in Fighter
  BY <1>17, <1>18 DEF Good, Sound
<1> QED
  BY <1>4, <1>5, <1>9, <1>13, <1>15, <1>18, <1>20, <1>21 DEF Stages, u, i

(* One tick of the controller over a fighter that is ready for it.         *)
LEMMA Ticked ==
  ASSUME NEW g0, NEW in \in Pads, NEW ground \in BOOLEAN, NEW cause, NEW c \in Nat,
         Ready(g0, c), NEW h \in falcon_tick(g0, in, ground, cause)
  PROVE  Good(h, in, c)
<1>1. Stages(g0, in, cause, h, c)
  BY TickIsStaged
<1> QED BY <1>1, AlikeIsGood DEF Stages

(* What the host's collision permits leaves a sound fighter sound.         *)
HitSet == [grounded : BOOLEAN, ceiling : BOOLEAN, wall : BOOLEAN,
           connected : BOOLEAN, imposed : {"none", "up", "down"}]

LEMMA Resolved ==
  ASSUME NEW g, NEW hit \in HitSet, NEW c \in Nat, Sound(g, c), g.grounded => c = 2
  PROVE  Sound(falcon_resolve(g, hit), c)
<1> DEFINE v == IF hit.imposed # "none" THEN hit.imposed
                ELSE IF hit.ceiling /\ Rising(g.vy) THEN "rest" ELSE g.vy
           w == IF hit.imposed # "none" THEN hit.imposed ELSE g.vy
           stopped == [g EXCEPT !.vy = v]
           moved == [g EXCEPT !.vy = w]
           floored == [stopped EXCEPT !.grounded = TRUE]
           slid == [floored EXCEPT !.vy = "rest"]
           lands == hit.grounded /\ hit.imposed # "up"
<1>1. g \in Fighter /\ g.jumps_used \in Nat /\ g.vy \in VSpeed
  BY MaxJumpsAssumption DEF Sound, Fighter
<1>2. v \in VSpeed /\ w \in VSpeed
  BY <1>1, Speeds DEF HitSet
<1>3. stopped = [g EXCEPT !.vy = v]
  OBVIOUS
<1>4. moved = [g EXCEPT !.vy = w]
  OBVIOUS
<1>5. floored = [stopped EXCEPT !.grounded = TRUE]
  OBVIOUS
<1>6. slid = [floored EXCEPT !.vy = "rest"]
  OBVIOUS
<1>7. [stopped EXCEPT !.grounded = TRUE, !.vy = "rest"] = slid
  OBVIOUS
<1> HIDE DEF v, w, stopped, moved, floored, slid
<1>8. Alike(stopped, g) /\ Alike(moved, g)
  BY <1>1, <1>2, <1>3, <1>4, SpeedSet
<1>9. Sound(stopped, c) /\ Sound(moved, c)
  BY <1>8, AlikeIsSound
<1>10. /\ floored \in Fighter /\ floored.grounded /\ floored.state = g.state
       /\ floored.jumps_used = g.jumps_used
  BY <1>5, <1>8, FootingSet DEF Alike
<1>11. Alike(slid, floored)
  BY <1>6, <1>10, Speeds, SpeedSet
<1>12. CASE hit.connected /\ g.state \in Dives
  <2>1. Entered(enter_falcon_dive_catch(g), "DIVE_CATCH", FALSE, g.jumps_used)
    BY <1>1, EnterCatch
  <2>2. g.jumps_used >= 2
    BY <1>12 DEF Sound, DiveStates
  <2>3. Sound(enter_falcon_dive_catch(g), c)
    BY <1>1, <2>1, <2>2, EnteredDive DEF Good, DiveStates
  <2> QED BY <1>12, <2>3 DEF falcon_resolve
<1>13. CASE ~(hit.connected /\ g.state \in Dives) /\ hit.wall /\ is_falcon_kick_wall_state(g.state)
  <2> DEFINE s == [g EXCEPT !.vy = "rest"]
  <2>1. s = [g EXCEPT !.vy = "rest"]
    OBVIOUS
  <2>2. falcon_resolve(g, hit) = IF hit.grounded THEN enter_wait(s) ELSE enter_fall(s)
    BY <1>13 DEF falcon_resolve, enter_falcon_kick_wall_stop
  <2> HIDE DEF s
  <2>3. Alike(s, g)
    BY <1>1, <2>1, Speeds, SpeedSet
  <2>4. s \in Fighter /\ c + s.jumps_used >= 2
    BY <1>1, <2>3 DEF Alike, Sound
  <2>5. Sound(enter_wait(s), c) /\ Sound(enter_fall(s), c)
    BY <2>4, WaitIsGood, FallIsGood DEF Good
  <2> QED BY <2>2, <2>5
<1>14. CASE /\ ~(hit.connected /\ g.state \in Dives)
            /\ ~(hit.wall /\ is_falcon_kick_wall_state(g.state)) /\ ~g.grounded
  <2> DEFINE r == falcon_resolve(g, hit)
  <2>1. \/ r = stopped
        \/ r = slid /\ g.state \in {"KICK_GROUND", "KICK_GROUND_AIR"}
        \/ r = PunchLands(floored)
        \/ r = enter_wait(stopped)
        \/ r = enter_falcon_dive_landing(stopped)
        \/ r = enter_landing(stopped)
    BY <1>7, <1>14 DEF falcon_resolve, stopped, v, floored
  <2>2. /\ Sound(enter_wait(stopped), c) /\ Sound(enter_landing(stopped), c)
        /\ Sound(enter_falcon_dive_landing(stopped), c)
    BY <1>8, WaitIsGood, LandingIsGood DEF Alike, Good
  <2>3. Sound(PunchLands(floored), c)
    BY <1>10, PunchLandsSound
  <2>4. g.state \in {"KICK_GROUND", "KICK_GROUND_AIR"} => Sound(slid, c)
    <3>1. g.state \in {"KICK_GROUND", "KICK_GROUND_AIR"} =>
            /\ g.state \in Plain /\ (~is_air_state(g.state) \/ g.state = "KICK_GROUND_AIR")
      BY PlainNames, GroundNames
    <3> QED BY <1>10, <1>11, <3>1 DEF Alike, Sound, Suits, Plain
  <2> HIDE DEF r
  <2> QED BY <1>9, <2>1, <2>2, <2>3, <2>4 DEF r
<1>15. CASE /\ ~(hit.connected /\ g.state \in Dives)
            /\ ~(hit.wall /\ is_falcon_kick_wall_state(g.state)) /\ g.grounded
            /\ ~hit.grounded
  <2> DEFINE k == [moved EXCEPT !.jumps_used = 1]
             l == [k EXCEPT !.grounded = FALSE]
             r == falcon_resolve(g, hit)
  <2>1. k = [moved EXCEPT !.jumps_used = 1]
    OBVIOUS
  <2>2. l = [k EXCEPT !.grounded = FALSE]
    OBVIOUS
  <2>3. [moved EXCEPT !.jumps_used = 1, !.grounded = FALSE] = l
    OBVIOUS
  <2>4. \/ g.state # "KICK_GROUND" /\ r = enter_fall(moved)
        \/ g.state = "KICK_GROUND" /\ r = set_status(l, "KICK_GROUND_AIR")
        \/ g.state = "KICK_GROUND" /\ r = l
    BY <1>15, <2>3 DEF falcon_resolve, moved, w
  <2> HIDE DEF k, l, r
  <2>5. moved \in Fighter /\ moved.state = g.state /\ moved.jumps_used = g.jumps_used
    BY <1>8 DEF Alike
  <2>6. c = 2 /\ c + moved.jumps_used >= 2
    BY <1>1, <1>15, <2>5
  <2>7. Sound(enter_fall(moved), c)
    BY <2>5, <2>6, FallIsGood DEF Good
  <2>8. g.state = "KICK_GROUND" => Sound(l, c) /\ Sound(set_status(l, "KICK_GROUND_AIR"), c)
    <3> SUFFICES ASSUME g.state = "KICK_GROUND"
                 PROVE  Sound(l, c) /\ Sound(set_status(l, "KICK_GROUND_AIR"), c)
      OBVIOUS
    <3>1. 1 \in 0 .. MaxJumps
      BY MaxJumpsAssumption
    <3>2. k \in Fighter /\ k.state = "KICK_GROUND" /\ k.jumps_used = 1
      BY <2>1, <2>5, <3>1, JumpsSet
    <3>3. l \in Fighter /\ l.state = "KICK_GROUND" /\ l.jumps_used = 1 /\ ~l.grounded
      <4>1. FALSE \in BOOLEAN /\ k \in Fighter
        BY <3>2
      <4>2. /\ l \in Fighter /\ l.state = k.state /\ (l.grounded <=> FALSE)
            /\ l.jumps_used = k.jumps_used
        BY ONLY <2>2, <4>1, FootingSet
      <4> QED BY <3>2, <4>2
    <3>4. Sound(l, c)
      BY <2>6, <3>3, PlainNames DEF Sound, Suits, Plain
    <3>5. "KICK_GROUND_AIR" \in Plain /\ is_air_state("KICK_GROUND_AIR")
      BY PlainNames, AirNames
    <3>6. Sound(set_status(l, "KICK_GROUND_AIR"), c)
      BY <3>3, <3>4, <3>5, StatusIsGood DEF Good
    <3> QED BY <3>4, <3>6
  <2> QED BY <2>4, <2>7, <2>8 DEF r
<1>16. CASE /\ ~(hit.connected /\ g.state \in Dives)
            /\ ~(hit.wall /\ is_falcon_kick_wall_state(g.state)) /\ g.grounded
            /\ hit.grounded
  <2>1. falcon_resolve(g, hit) = g
    BY <1>16 DEF falcon_resolve
  <2> QED BY <2>1
<1> QED BY <1>12, <1>13, <1>14, <1>15, <1>16

(* FighterInvariant: what each frame hands to the next.                    *)
FighterInv ==
  /\ phase \in {"tick", "resolve"}
  /\ attack \in {"none", "strike", "catch"}
  /\ Suits(f.state, f.grounded)
  /\ Ready(f, credit)
  /\ credit \in Nat
  /\ f.grounded => credit = 2

LEMMA InvIsSound ==
  ASSUME FighterInv
  PROVE  Sound(f, credit)
<1>1. f.state = "KICK_GROUND" => credit = 2
  BY GroundNames DEF FighterInv, Ready
<1> QED BY <1>1 DEF FighterInv, Ready, Sound

LEMMA InvImplies ==
  ASSUME FighterInv
  PROVE  FighterConsistent
<1>1. TypeOK
  BY DEF FighterInv, Ready, Fighter, TypeOK
<1>2. GroundAirAgree
  BY DEF FighterInv, Suits, GroundAirAgree
<1>3. AerialJumpsBounded
  BY DEF FighterInv, AerialJumpsBounded
<1> QED BY <1>1, <1>2, <1>3 DEF FighterConsistent

LEMMA InitInv == Init => FighterInv
<1> SUFFICES ASSUME Init PROVE FighterInv
  OBVIOUS
<1>1. /\ f = falcon_reset /\ phase = "tick" /\ attack = "none" /\ credit = 2
  BY DEF Init
<1>2. f \in Fighter
  BY <1>1, Names, Speeds, MaxJumpsAssumption DEF falcon_reset, Fighter
<1>3. f.state = "WAIT" /\ f.grounded /\ f.jumps_used = 0
  BY <1>1 DEF falcon_reset
<1>4. "WAIT" \in Plain /\ ~is_air_state("WAIT")
  BY PlainNames, GroundNames
<1>5. credit + f.jumps_used >= 2
  BY <1>1, <1>3
<1> QED BY <1>1, <1>2, <1>3, <1>4, <1>5 DEF FighterInv, Ready, Suits, Plain

LEMMA TickInv ==
  ASSUME FighterInv, NEW in \in Inputs, NEW cause, NEW ground \in BOOLEAN,
         Tick(in, ground, cause)
  PROVE  FighterInv'
<1>1. in \in Pads
  BY InputsAssumption DEF Pads
<1>2. PICK g \in UNION {RootMotion(h) : h \in falcon_tick(f, in, ground, cause)} :
        /\ f' = g
        /\ attack' = emit_attack(g)
        /\ credit' = CreditStep(g, /\ ~in.unlimited
                                   /\ g.state \in AerialJumps /\ g.frame = 0)
  BY DEF Tick
<1>3. PICK h \in falcon_tick(f, in, ground, cause) : g \in RootMotion(h)
  OBVIOUS
<1>4. credit \in Nat /\ Ready(f, credit)
  BY DEF FighterInv
<1>5. Good(h, in, credit)
  BY <1>1, <1>4, Ticked
<1>6. Alike(g, h)
  BY <1>3, <1>5, RootedIsAlike DEF Good, Sound
<1>7. Sound(g, credit) /\ Paid(g, in, credit)
  BY <1>5, <1>6, AlikeIsGood DEF Good
<1> DEFINE jumped == /\ ~in.unlimited
                     /\ g.state \in AerialJumps /\ g.frame = 0
<1>8. jumped \in BOOLEAN
  BY <1>1 DEF Pads
<1>9. jumped => /\ g.state \in AerialJumps /\ credit >= 1
                /\ credit + g.jumps_used >= 3
  BY <1>7 DEF Paid
<1>10. credit' = CreditStep(g, jumped)
  BY <1>2
<1> HIDE DEF jumped
<1>11. /\ CreditStep(g, jumped) \in Nat
       /\ Ready(g, CreditStep(g, jumped))
       /\ g.grounded => CreditStep(g, jumped) = 2
  BY <1>4, <1>7, <1>8, <1>9, CreditKept
<1>12. Ready(f, credit)' /\ credit' \in Nat /\ (f'.grounded => credit' = 2)
  BY <1>2, <1>10, <1>11 DEF Ready
<1>13. Suits(f.state, f.grounded)'
  BY <1>2, <1>7 DEF Sound, Suits
<1>14. attack' \in {"none", "strike", "catch"}
  BY <1>2 DEF emit_attack
<1>15. phase' = "resolve"
  BY DEF Tick
<1> QED BY <1>12, <1>13, <1>14, <1>15 DEF FighterInv

LEMMA ResolveInv ==
  ASSUME FighterInv, NEW hit \in Hits, Resolve(hit)
  PROVE  FighterInv'
<1> DEFINE g == falcon_resolve(f, hit)
<1>1. hit \in HitSet
  BY HitsAssumption DEF HitSet
<1>2. f' = g /\ credit' = CreditStep(g, FALSE) /\ attack' = "none" /\ phase' = "tick"
  BY DEF Resolve
<1>3. credit \in Nat /\ Sound(f, credit) /\ (f.grounded => credit = 2)
  BY InvIsSound DEF FighterInv
<1>4. Sound(g, credit)
  BY <1>1, <1>3, Resolved
<1> HIDE DEF g
<1>5. FALSE \in BOOLEAN
  OBVIOUS
<1>6. /\ CreditStep(g, FALSE) \in Nat
      /\ Ready(g, CreditStep(g, FALSE))
      /\ g.grounded => CreditStep(g, FALSE) = 2
  BY <1>3, <1>4, <1>5, CreditKept
<1>7. Ready(f, credit)' /\ credit' \in Nat /\ (f'.grounded => credit' = 2)
  BY <1>2, <1>6 DEF Ready
<1>8. Suits(f.state, f.grounded)'
  BY <1>2, <1>4 DEF Sound, Suits
<1> QED BY <1>2, <1>7, <1>8 DEF FighterInv

LEMMA NextInv == FighterInv /\ [Next]_vars => FighterInv'
<1> SUFFICES ASSUME FighterInv, [Next]_vars PROVE FighterInv'
  OBVIOUS
<1>1. CASE \E in \in Inputs, cause \in AirCauses : Tick(in, cause = "none", cause)
  <2>1. PICK in \in Inputs, cause \in AirCauses : Tick(in, cause = "none", cause)
    BY <1>1
  <2>2. (cause = "none") \in BOOLEAN
    OBVIOUS
  <2> QED BY <2>1, <2>2, TickInv
<1>2. CASE \E hit \in Hits : Resolve(hit)
  BY <1>2, ResolveInv
<1>3. CASE UNCHANGED vars
  BY <1>3 DEF vars, FighterInv, Suits, Ready
<1> QED BY <1>1, <1>2, <1>3 DEF Next

(* Whatever is pressed and whatever the host's collision reports, the      *)
(* fighter's fields keep their ranges, an air state is airborne and a      *)
(* ground state stands, and out of water no more aerial jumps are taken    *)
(* than falcon_tick and falcon_resolve mean to give.                       *)
THEOREM FighterIsConsistent == Spec => []FighterConsistent
<1>1. Spec => []FighterInv
  BY InitInv, NextInv, PTL DEF Spec
<1>2. FighterInv => FighterConsistent
  BY InvImplies
<1> QED BY <1>1, <1>2, PTL
-----------------------------------------------------------------------------
(* The moves.  What one tick makes of a state and its frame: the state goes *)
(* on, a throw follows a catch, a kick leaves its floor, a dive ends, or    *)
(* another state is taken up, from its first frame if it has an attack.     *)

(* The states a free fighter takes up by himself, and those of them that   *)
(* neither attack nor are part of a special.                               *)
Started == FalconState \ {"DIVE_CATCH", "DIVE_THROW", "KICK_LANDING", "KICK_GROUND_AIR"}
Quiet   == Started \ ({"JAB", "FTILT", "KICK_GROUND", "KICK_AIR"} \cup AirAttacks \cup Punches
                      \cup Dives)

(* A dive or its catch ends in these.                                      *)
Ends == Landings \cup {"DIVE_FALL"}
Bound == Dives \cup {"DIVE_CATCH"}

SameMove(s, t) == t = s \/ {s, t} \subseteq Punches

Kept(h, g) == h.state = g.state /\ h.frame = g.frame
Begun(h) == h.state \in Started /\ h.frame = 0
Moved(h, g) == Kept(h, g) \/ Begun(h) \/ h.state \in Walks
AllMoved(S, g) == \A h \in S : Moved(h, g)

LEMMA StartNames ==
  /\ "WAIT" \in Started /\ "DASH" \in Started /\ "RUN" \in Started
  /\ "RUN_BRAKE" \in Started /\ "TURN" \in Started /\ "TURN_RUN" \in Started
  /\ "KNEEBEND" \in Started /\ "KICK_GROUND" \in Started
  /\ "KICK_AIR" \in Started /\ "DIVE_FALL" \in Started /\ "DIVE_LANDING" \in Started
  /\ "JAB" \in Started /\ "FTILT" \in Started /\ "PUNCH_GROUND" \in Started
  /\ "PUNCH_AIR" \in Started
  /\ \A s \in Walks \cup Landings \cup Falls \cup AirAttacks \cup Jumps \cup AerialJumps
              \cup Dives : s \in Started
<1>1. \A s \in Walks \cup Landings \cup Falls \cup AirAttacks \cup Jumps \cup AerialJumps
               \cup Dives :
        s \notin {"DIVE_CATCH", "DIVE_THROW", "KICK_LANDING", "KICK_GROUND_AIR"}
  BY DEF Walks, Landings, Falls, AirAttacks, Dives, Jumps, AerialJumps
<1> QED BY <1>1, Names DEF Started

LEMMA QuietNames ==
  /\ "WAIT" \in Quiet /\ "RUN" \in Quiet /\ "DIVE_LANDING" \in Quiet
  /\ \A s \in Walks \cup Landings \cup Falls \cup Jumps : s \in Quiet
<1>1. /\ \A s \in Walks \cup Landings \cup Falls \cup Jumps \cup {"WAIT", "RUN", "DIVE_LANDING"} :
           s \notin {"JAB", "FTILT", "KICK_GROUND", "KICK_AIR"} \cup AirAttacks \cup Punches
                    \cup Dives
  BY DEF Walks, Landings, Falls, Jumps, AirAttacks, Dives, Punches
<1> QED BY <1>1, StartNames DEF Quiet

LEMMA EnteredBegins ==
  ASSUME NEW h, NEW s \in Started, NEW ground, NEW n, Entered(h, s, ground, n)
  PROVE  Begun(h)
BY DEF Entered, Begun

LEMMA StatusBegins ==
  ASSUME NEW g \in Fighter, NEW s \in Started
  PROVE  Begun(set_status(g, s))
<1>1. s \in FalconState
  BY DEF Started
<1> QED BY <1>1, SetStatus, EnteredBegins

LEMMA FirstMoves ==
  ASSUME NEW g, NEW S, NEW T, AllMoved(S, g), AllMoved(T, g)
  PROVE  AllMoved(S ?? T, g)
BY DEF AllMoved, ??

LEMMA WhenMoves ==
  ASSUME NEW g, NEW cond, NEW h, Moved(h, g)
  PROVE  AllMoved(When(cond, h), g)
BY DEF AllMoved, When

(* Every check begins another state, or leaves the one there is.           *)
LEMMA SpecialMoves ==
  ASSUME NEW g \in Fighter, NEW in,
         NEW kick \in Started, NEW dive \in Dives, NEW punch \in Started
  PROVE  Begun(enter_special(g, in, kick, dive, punch))
<1> DEFINE d == IF Toward(g, in) < 0 THEN -g.lr ELSE g.lr
           t == [g EXCEPT !.lr = d]
<1>1. d \in {-1, 1}
  BY DEF Fighter
<1>2. t = [g EXCEPT !.lr = d]
  OBVIOUS
<1>3. enter_special(g, in, kick, dive, punch) =
        IF in.stick_y <= -40 THEN set_status(g, kick)
        ELSE IF in.stick_y >= 40 THEN enter_falcon_dive(g, dive)
        ELSE set_status(t, punch)
  BY DEF enter_special
<1> HIDE DEF t, d
<1>4. t \in Fighter
  BY <1>1, <1>2, FacingSet DEF Alike
<1>5. Entered(enter_falcon_dive(g, dive), dive, FALSE, 2)
  BY EnterDive
<1>6. dive \in Started
  BY StartNames
<1>7. Begun(enter_falcon_dive(g, dive))
  BY <1>5, <1>6, EnteredBegins
<1> QED BY <1>3, <1>4, <1>7, StatusBegins

LEMMA ChecksMove ==
  ASSUME NEW g \in Fighter, NEW in \in Pads, NEW run
  PROVE  /\ AllMoved(check_ground_special(g, in), g)
         /\ AllMoved(check_air_special(g, in), g)
         /\ AllMoved(check_ground_attack(g, in), g)
         /\ AllMoved(check_air_attack(g, in), g)
         /\ AllMoved(check_kneebend(g, in, run), g)
         /\ AllMoved(check_jump_aerial(g, in), g)
<1>1. "DIVE_GROUND" \in Dives /\ "DIVE_AIR" \in Dives
  BY DEF Dives
<1>2. Begun(enter_ground_special(g, in)) /\ Begun(enter_air_special(g, in))
  BY <1>1, StartNames, SpecialMoves DEF enter_ground_special, enter_air_special
<1>3. /\ AllMoved(check_ground_special(g, in), g)
      /\ AllMoved(check_air_special(g, in), g)
  BY <1>2, WhenMoves DEF check_ground_special, check_air_special, Moved
<1>4. AllMoved(check_ground_attack(g, in), g)
  <2> DEFINE t == [g EXCEPT !.lr = Sign(in.stick_x)]
  <2>1. Sign(in.stick_x) \in {-1, 1}
    BY DEF Sign
  <2>2. t \in Fighter
    BY <2>1, FacingSet DEF Alike
  <2>3. check_ground_attack(g, in) =
          When(in.attack, IF Abs(in.stick_y) >= 20 THEN g
                          ELSE IF Abs(in.stick_x) >= 20 THEN set_status(t, "FTILT")
                          ELSE set_status(g, "JAB"))
    BY DEF check_ground_attack
  <2> HIDE DEF t
  <2>4. Begun(set_status(t, "FTILT")) /\ Begun(set_status(g, "JAB"))
    BY <2>2, StartNames, StatusBegins
  <2> QED BY <2>3, <2>4, WhenMoves DEF Moved, Kept
<1>5. AllMoved(check_air_attack(g, in), g)
  <2>1. check_air_attack(g, in) =
          When(in.attack,
               IF in.stick_y <= -20 THEN set_status(g, "ATTACK_AIR_LW")
               ELSE IF in.stick_y >= 20 THEN g
               ELSE IF Abs(in.stick_x) < 20 THEN set_status(g, "ATTACK_AIR_N")
               ELSE IF Toward(g, in) >= 0 THEN set_status(g, "ATTACK_AIR_F")
               ELSE set_status(g, "ATTACK_AIR_B"))
    BY DEF check_air_attack
  <2>2. \A s \in AirAttacks : Begun(set_status(g, s))
    BY StartNames, StatusBegins
  <2>3. /\ Begun(set_status(g, "ATTACK_AIR_LW")) /\ Begun(set_status(g, "ATTACK_AIR_N"))
        /\ Begun(set_status(g, "ATTACK_AIR_F")) /\ Begun(set_status(g, "ATTACK_AIR_B"))
    BY <2>2 DEF AirAttacks
  <2> QED BY <2>1, <2>3, WhenMoves DEF Moved, Kept
<1>6. AllMoved(check_kneebend(g, in, run), g)
  <2>1. Begun(enter_kneebend(g))
    BY StartNames, StatusBegins DEF enter_kneebend
  <2> QED BY <2>1, WhenMoves DEF check_kneebend, Moved
<1>7. AllMoved(check_jump_aerial(g, in), g)
  <2> DEFINE n == IF g.jumps_used < MaxJumps THEN g.jumps_used + 1 ELSE g.jumps_used
  <2>1. n = IF g.jumps_used < MaxJumps THEN g.jumps_used + 1 ELSE g.jumps_used
    OBVIOUS
  <2> HIDE DEF n
  <2>2. PICK s \in AerialJumps : Entered(enter_jump_aerial(g, in), s, FALSE, n)
    BY <2>1, EnterJumpAerial
  <2>3. Begun(enter_jump_aerial(g, in))
    BY <2>2, StartNames, EnteredBegins
  <2> QED BY <2>3, WhenMoves DEF check_jump_aerial, Moved
<1> QED BY <1>3, <1>4, <1>5, <1>6, <1>7

LEMMA StepsMove ==
  ASSUME NEW g \in Fighter, NEW in \in Pads
  PROVE  /\ AllMoved(check_dash(g, in), g)
         /\ AllMoved(check_turn(g, in), g)
         /\ AllMoved(check_walk(g, in), g)
         /\ AllMoved(check_wait(g, in), g)
         /\ AllMoved(check_run_from_dash(g, in), g)
         /\ AllMoved(check_run_brake_from_run(g, in), g)
         /\ AllMoved(check_turn_run_from_run(g, in), g)
         /\ Begun(enter_dash(g))
         /\ AllMoved({[g EXCEPT !.state = walk_status_for(in)]}, g)
<1> DEFINE t == [g EXCEPT !.lr = Sign(in.stick_x)]
<1>1. Sign(in.stick_x) \in {-1, 1} /\ -g.lr \in -1 .. 1 /\ 0 \in -1 .. 1
  BY DEF Sign, Fighter
<1>2. t \in Fighter
  BY <1>1, FacingSet DEF Alike
<1>3. check_dash(g, in) =
        When(Abs(in.stick_x) >= 56 /\ g.tap_x < 3,
             IF Toward(g, in) < 0 THEN enter_turn(g, -g.lr) ELSE enter_dash(t))
  BY DEF check_dash
<1> HIDE DEF t
<1>4. /\ Begun(enter_turn(g, -g.lr)) /\ Begun(enter_turn(g, 0))
      /\ Begun(enter_turn_run(g))
  BY <1>1, EnterTurn, EnterTurnRun, StartNames, EnteredBegins
<1>5. Begun(enter_dash(t)) /\ Begun(enter_dash(g)) /\ Begun(enter_wait(g))
  BY <1>2, EnterDash, EnterWait, StartNames, EnteredBegins
<1>6. walk_status_for(in) \in Walks
  BY DEF walk_status_for, Walks
<1>7. /\ Begun(set_status(g, walk_status_for(in))) /\ Begun(set_status(g, "RUN"))
      /\ Begun(set_status(g, "RUN_BRAKE"))
  BY <1>6, StartNames, StatusBegins
<1>8. AllMoved({[g EXCEPT !.state = walk_status_for(in)]}, g)
  BY <1>6 DEF AllMoved, Moved, Fighter
<1>9. AllMoved(check_dash(g, in), g)
  BY <1>3, <1>4, <1>5, WhenMoves DEF Moved
<1> QED
  BY <1>4, <1>5, <1>7, <1>8, <1>9, WhenMoves
     DEF Moved, check_turn, check_walk, check_wait, check_run_from_dash,
         check_run_brake_from_run, check_turn_run_from_run

(* The states a tick may interrupt.                                        *)
Open(g) ==
  \/ g.state \in {"WAIT", "DASH", "RUN", "RUN_BRAKE", "TURN", "TURN_RUN"} \cup Walks
                   \cup Jumps \cup AerialJumps \cup Falls
  \/ g.state \in Landings /\ g.frame >= 4

LEMMA InterruptMoves ==
  ASSUME NEW g \in Fighter, NEW in \in Pads, NEW h, h = proc_interrupt(g, in)
  PROVE  Kept(h, g) \/ (Open(g) /\ Moved(h, g))
<1> DEFINE S == g.state
           Walking ==
             Specials(g, in) ?? check_kneebend(g, in, FALSE)
               ?? check_dash(g, in) ?? check_wait(g, in)
               ?? {[g EXCEPT !.state = walk_status_for(in)]}
           Dashing ==
             Specials(g, in)
               ?? (IF g.frame \in 6 .. 20 /\ Toward(g, in) < 0
                   THEN check_dash(g, in) ELSE {})
               ?? check_kneebend(g, in, TRUE) ?? check_run_from_dash(g, in)
           Running ==
             Specials(g, in) ?? check_kneebend(g, in, TRUE)
               ?? check_turn_run_from_run(g, in) ?? check_run_brake_from_run(g, in)
           Braking ==
             Specials(g, in) ?? check_kneebend(g, in, TRUE)
               ?? (IF g.frame <= 4 THEN check_turn_run_from_run(g, in) ELSE {})
           Again == /\ g.turn_flag1 /\ g.turn_lr_dash # 0
                    /\ in.stick_x * g.turn_lr_turn >= 56 /\ g.tap_x < 3
           Turning ==
             Specials(g, in) ?? check_kneebend(g, in, FALSE)
               ?? When(Again, enter_dash(g))
           RunTurning == Specials(g, in) ?? check_kneebend(g, in, TRUE)
           Flying ==
             check_air_special(g, in) ?? check_air_attack(g, in)
               ?? check_jump_aerial(g, in)
           taken ==
             CASE S = "WAIT" \/ (S \in Landings /\ g.frame >= 4) -> GroundInterrupts(g, in)
               [] S \in Walks -> Walking
               [] S = "DASH" -> Dashing
               [] S = "RUN" -> Running
               [] S = "RUN_BRAKE" -> Braking
               [] S = "TURN" -> Turning
               [] S = "TURN_RUN" -> RunTurning
               [] S \in Jumps \cup AerialJumps \cup Falls -> Flying
               [] OTHER -> {}
           Every == {GroundInterrupts(g, in), Walking, Dashing, Running, Braking,
                     Turning, RunTurning, Flying}
<1>1. proc_interrupt(g, in) = CHOOSE x \in taken ?? {g} : TRUE
  BY DEF proc_interrupt
<1>2. \A T \in Every : AllMoved(T, g)
  <2> DEFINE GS == check_ground_special(g, in)
             GA == check_ground_attack(g, in)
             AS == check_air_special(g, in)
             AA == check_air_attack(g, in)
             AJ == check_jump_aerial(g, in)
             K == check_kneebend(g, in, FALSE)
             KR == check_kneebend(g, in, TRUE)
             D == check_dash(g, in)
             U == check_turn(g, in)
             W == check_walk(g, in)
             Wt == check_wait(g, in)
             P == {[g EXCEPT !.state = walk_status_for(in)]}
             DB == IF g.frame \in 6 .. 20 /\ Toward(g, in) < 0 THEN D ELSE {}
             R == check_run_from_dash(g, in)
             T == check_turn_run_from_run(g, in)
             TB == IF g.frame <= 4 THEN T ELSE {}
             B == check_run_brake_from_run(g, in)
             A == When(Again, enter_dash(g))
  <2>1. /\ AllMoved(GS, g) /\ AllMoved(GA, g) /\ AllMoved(AS, g) /\ AllMoved(AA, g)
        /\ AllMoved(AJ, g) /\ AllMoved(K, g) /\ AllMoved(KR, g)
    BY ChecksMove
  <2>2. /\ AllMoved(D, g) /\ AllMoved(U, g) /\ AllMoved(W, g) /\ AllMoved(Wt, g)
        /\ AllMoved(R, g) /\ AllMoved(B, g) /\ AllMoved(T, g) /\ AllMoved(P, g)
    BY StepsMove
  <2>3. AllMoved(DB, g) /\ AllMoved(TB, g)
    BY <2>2 DEF AllMoved
  <2>4. AllMoved(A, g)
    BY StepsMove, WhenMoves DEF Moved
  <2>5. /\ GroundInterrupts(g, in) = GS ?? GA ?? K ?? D ?? U ?? W
        /\ Walking = GS ?? GA ?? K ?? D ?? Wt ?? P
        /\ Dashing = GS ?? GA ?? DB ?? KR ?? R
        /\ Running = GS ?? GA ?? KR ?? T ?? B
        /\ Braking = GS ?? GA ?? KR ?? TB
        /\ Turning = GS ?? GA ?? K ?? A
        /\ RunTurning = GS ?? GA ?? KR
        /\ Flying = AS ?? AA ?? AJ
    BY DEF GroundInterrupts, Specials
  <2> HIDE DEF GS, GA, AS, AA, AJ, K, KR, D, U, W, Wt, P, DB, R, T, TB, B, A,
               Walking, Dashing, Running, Braking, Turning, RunTurning, Flying
  <2>6. AllMoved(GS ?? GA, g) /\ AllMoved(AS ?? AA, g)
    BY <2>1, FirstMoves
  <2>7. /\ AllMoved(GS ?? GA ?? K, g) /\ AllMoved(GS ?? GA ?? DB, g)
        /\ AllMoved(GS ?? GA ?? KR, g) /\ AllMoved(AS ?? AA ?? AJ, g)
    BY <2>1, <2>3, <2>6, FirstMoves
  <2>8. /\ AllMoved(GS ?? GA ?? K ?? D, g) /\ AllMoved(GS ?? GA ?? DB ?? KR, g)
        /\ AllMoved(GS ?? GA ?? KR ?? T, g) /\ AllMoved(GS ?? GA ?? KR ?? TB, g)
        /\ AllMoved(GS ?? GA ?? K ?? A, g)
    BY <2>1, <2>2, <2>3, <2>4, <2>7, FirstMoves
  <2>9. /\ AllMoved(GS ?? GA ?? K ?? D ?? U, g) /\ AllMoved(GS ?? GA ?? K ?? D ?? Wt, g)
        /\ AllMoved(GS ?? GA ?? DB ?? KR ?? R, g) /\ AllMoved(GS ?? GA ?? KR ?? T ?? B, g)
    BY <2>2, <2>8, FirstMoves
  <2>10. /\ AllMoved(GS ?? GA ?? K ?? D ?? U ?? W, g)
         /\ AllMoved(GS ?? GA ?? K ?? D ?? Wt ?? P, g)
    BY <2>2, <2>9, FirstMoves
  <2> QED BY <2>5, <2>7, <2>8, <2>9, <2>10
<1>3. (Open(g) /\ taken \in Every) \/ taken = {}
  <2> HIDE DEF Walking, Dashing, Running, Braking, Turning, RunTurning, Flying
  <2> QED BY DEF Open
<1> HIDE DEF taken, Every
<1>4. (CHOOSE x \in taken ?? {g} : TRUE) \in taken ?? {g}
  <2> DEFINE T == taken ?? {g}
  <2>1. PICK x : x \in T
    BY DEF ??
  <2> HIDE DEF T
  <2>2. (CHOOSE y \in T : TRUE) \in T
    BY <2>1
  <2> QED BY <2>2 DEF T
<1>5. h \in taken \/ h = g
  BY <1>1, <1>4 DEF ??
<1>6. CASE h = g
  BY <1>6 DEF Kept
<1>7. CASE h \in taken
  BY <1>2, <1>3, <1>7 DEF AllMoved
<1> QED BY <1>5, <1>6, <1>7

(* What the end of an animation makes of it.                               *)
LEMMA UpdateMoves ==
  ASSUME NEW g \in Fighter, NEW in \in Pads, NEW h, h = proc_update(g, in)
  PROVE  /\ h \in Fighter
         /\ \/ Kept(h, g)
            \/ /\ h.frame = 0 /\ h.state \in Quiet /\ g.state \notin Bound
               /\ g.state \in Landings => g.frame >= 4
            \/ h.frame = 0 /\ h.state = "DIVE_FALL" /\ g.state \in Dives
            \/ h.frame = 0 /\ h.state = "DIVE_THROW" /\ g.state = "DIVE_CATCH"
<1> DEFINE ToWait == {"DASH", "RUN_BRAKE", "DIVE_LANDING", "KICK_LANDING"}
                       \cup Landings \cup GroundMoves
           ToFall == Jumps \cup AerialJumps \cup AirAttacks
                       \cup {"PUNCH_AIR", "KICK_AIR", "KICK_BOUND", "DIVE_THROW"}
<1>1. \A x \in Fighter : /\ enter_wait(x) \in Fighter /\ enter_wait(x).frame = 0
                         /\ enter_wait(x).state \in Quiet
                         /\ enter_fall(x) \in Fighter /\ enter_fall(x).frame = 0
                         /\ enter_fall(x).state \in Quiet
  <2> SUFFICES ASSUME NEW x \in Fighter
               PROVE  /\ enter_wait(x) \in Fighter /\ enter_wait(x).frame = 0
                      /\ enter_wait(x).state \in Quiet
                      /\ enter_fall(x) \in Fighter /\ enter_fall(x).frame = 0
                      /\ enter_fall(x).state \in Quiet
    OBVIOUS
  <2>1. Entered(enter_wait(x), "WAIT", TRUE, x.jumps_used)
    BY EnterWait
  <2>2. PICK s \in Falls : Entered(enter_fall(x), s, FALSE, x.jumps_used)
    BY EnterFall
  <2> QED BY <2>1, <2>2, QuietNames DEF Entered
<1>2. CASE g.state = "TURN"
  <2> DEFINE t == Flip(g, 4)
  <2>1. h = IF anim_ended(t) THEN enter_wait(t) ELSE t
    BY <1>2 DEF proc_update, Dives, GroundMoves, Landings, Jumps, AerialJumps, AirAttacks
  <2>2. Alike(t, g)
    BY Flipped
  <2>3. g.state \notin Bound /\ g.state \notin Landings
    BY <1>2 DEF Bound, Dives, Landings
  <2> HIDE DEF t
  <2> QED BY <1>1, <2>1, <2>2, <2>3 DEF Alike, Kept
<1>3. CASE g.state = "TURN_RUN"
  <2> DEFINE t == Flip(g, 19)
  <2>1. h = IF anim_ended(t) THEN set_status(t, "RUN") ELSE t
    BY <1>3 DEF proc_update, Dives, GroundMoves, Landings, Jumps, AerialJumps, AirAttacks
  <2>2. Alike(t, g)
    BY Flipped
  <2>3. g.state \notin Bound /\ g.state \notin Landings
    BY <1>3 DEF Bound, Dives, Landings
  <2> HIDE DEF t
  <2>4. Entered(set_status(t, "RUN"), "RUN", t.grounded, t.jumps_used)
    BY <2>2, Names, SetStatus DEF Alike
  <2> QED BY <2>1, <2>2, <2>3, <2>4, QuietNames DEF Alike, Kept, Entered
<1>4. CASE g.state = "KNEEBEND"
  <2>1. h = IF g.frame >= 4 THEN enter_jump(g, in) ELSE g
    BY <1>4 DEF proc_update, Dives, GroundMoves, Landings, Jumps, AerialJumps, AirAttacks
  <2>2. PICK s \in Jumps : Entered(enter_jump(g, in), s, FALSE, 1)
    BY EnterJump
  <2>3. g.state \notin Bound /\ g.state \notin Landings
    BY <1>4 DEF Bound, Dives, Landings
  <2> QED BY <2>1, <2>2, <2>3, QuietNames DEF Kept, Entered
<1>5. CASE g.state \in Dives
  <2> DEFINE d == IF g.frame = 13 /\ Abs(in.stick_x) > 18 THEN Sign(in.stick_x) ELSE g.lr
             t == [g EXCEPT !.lr = d]
  <2>1. h = IF anim_ended(t) THEN enter_falcon_dive_fall(t) ELSE t
    BY <1>5 DEF proc_update, Dives, GroundMoves, Landings, Jumps, AerialJumps, AirAttacks
  <2>2. d \in {-1, 1}
    BY DEF Fighter, Sign
  <2>3. t = [g EXCEPT !.lr = d]
    OBVIOUS
  <2> HIDE DEF t, d
  <2>4. Alike(t, g)
    BY <2>2, <2>3, FacingSet
  <2>5. Entered(enter_falcon_dive_fall(t), "DIVE_FALL", FALSE, 2)
    BY <2>4, EnterDiveFall DEF Alike
  <2> QED BY <1>5, <2>1, <2>4, <2>5 DEF Alike, Kept, Entered
<1>6. CASE g.state = "DIVE_CATCH"
  <2>1. h = IF anim_ended(g) THEN enter_falcon_dive_throw(g) ELSE g
    BY <1>6 DEF proc_update, Dives, GroundMoves, Landings, Jumps, AerialJumps, AirAttacks
  <2>2. Entered(enter_falcon_dive_throw(g), "DIVE_THROW", FALSE, g.jumps_used)
    BY EnterThrow
  <2> QED BY <1>6, <2>1, <2>2 DEF Kept, Entered
<1>7. CASE g.state = "KICK_GROUND_AIR"
  <2>1. h = IF anim_ended(g)
            THEN IF g.grounded THEN enter_wait(g) ELSE enter_fall(g)
            ELSE g
    BY <1>7 DEF proc_update, Dives, GroundMoves, Landings, Jumps, AerialJumps, AirAttacks
  <2>2. g.state \notin Bound /\ g.state \notin Landings
    BY <1>7 DEF Bound, Dives, Landings
  <2> QED BY <1>1, <2>1, <2>2 DEF Kept
<1>8. CASE g.state \in ToWait
  <2>1. h = IF anim_ended(g) THEN enter_wait(g) ELSE g
    BY <1>8 DEF proc_update, Dives, GroundMoves, Landings, Jumps, AerialJumps, AirAttacks
  <2>2. g.state \notin Bound
    BY <1>8 DEF Bound, Dives, Landings, GroundMoves
  <2>3. g.state \in Landings /\ anim_ended(g) => g.frame >= 4
    <3>1. s_state_length["LANDING_LIGHT"] = 8 /\ s_state_length["LANDING_HEAVY"] = 16
      BY Names DEF s_state_length, Landings, Jumps, AerialJumps, Punches, Dives
    <3>2. g.frame \in Int
      BY DEF Fighter
    <3> QED BY <3>1, <3>2 DEF anim_ended, Landings
  <2> QED BY <1>1, <2>1, <2>2, <2>3 DEF Kept
<1>9. CASE g.state \in ToFall
  <2>1. h = IF anim_ended(g) THEN enter_fall(g) ELSE g
    BY <1>9 DEF proc_update, Dives, GroundMoves, Landings, Jumps, AerialJumps, AirAttacks
  <2>2. g.state \notin Bound /\ g.state \notin Landings
    BY <1>9 DEF Bound, Dives, Landings, Jumps, AerialJumps, AirAttacks
  <2> QED BY <1>1, <2>1, <2>2 DEF Kept
<1>10. CASE /\ g.state \notin {"TURN", "TURN_RUN", "KNEEBEND", "DIVE_CATCH",
                               "KICK_GROUND_AIR"} \cup Dives
            /\ g.state \notin ToWait /\ g.state \notin ToFall
  <2>1. h = g
    BY <1>10 DEF proc_update
  <2> QED BY <2>1 DEF Kept
<1> QED BY <1>2, <1>3, <1>4, <1>5, <1>6, <1>7, <1>8, <1>9, <1>10

(* What a footing that the fighter did not choose makes of the move.       *)
LEMMA ReconcileMoves ==
  ASSUME NEW g \in Fighter, NEW in, NEW cause, NEW h, h = Reconcile(g, in, cause)
  PROVE  \/ Kept(h, g)
         \/ g.state = "PUNCH_AIR" /\ h.state = "PUNCH_GROUND" /\ h.frame = g.frame
         \/ g.state = "KICK_GROUND" /\ h.state = "KICK_GROUND_AIR" /\ h.frame = 0
         \/ /\ h.frame = 0 /\ h.state \in Quiet
            /\ g.state \in Bound => h.state \in Landings
<1>1. \A s \in Bound : is_air_state(s)
  BY AirNames DEF Bound
<1>2. CASE ~g.grounded /\ g.state = "KICK_GROUND"
  <2> DEFINE k == [g EXCEPT !.jumps_used = 1]
  <2>1. h = IF g.frame >= 32 THEN set_status(k, "KICK_GROUND_AIR") ELSE k
    BY <1>2 DEF Reconcile
  <2>2. k.state = g.state /\ k.frame = g.frame
    BY DEF Fighter
  <2>3. k = [g EXCEPT !.jumps_used = 1] /\ 1 \in 0 .. MaxJumps
    BY MaxJumpsAssumption
  <2> HIDE DEF k
  <2>4. k \in Fighter
    BY <2>3, JumpsSet
  <2>5. Entered(set_status(k, "KICK_GROUND_AIR"), "KICK_GROUND_AIR", k.grounded, k.jumps_used)
    BY <2>4, Names, SetStatus
  <2> QED BY <1>2, <2>1, <2>2, <2>5 DEF Kept, Entered
<1>3. CASE ~g.grounded /\ g.state # "KICK_GROUND" /\ ~is_air_state(g.state)
  <2> DEFINE e == enter_fall(g)
             k == [e EXCEPT !.jumps_used = 0]
  <2>1. h = IF cause = "launched" THEN enter_jump(g, in) ELSE k
    BY <1>3 DEF Reconcile
  <2>2. k = [e EXCEPT !.jumps_used = 0]
    OBVIOUS
  <2>3. PICK s \in Falls : Entered(e, s, FALSE, g.jumps_used)
    BY EnterFall
  <2>4. PICK j \in Jumps : Entered(enter_jump(g, in), j, FALSE, 1)
    BY EnterJump
  <2>5. 0 \in 0 .. MaxJumps
    BY MaxJumpsAssumption
  <2> HIDE DEF e, k
  <2>6. k.state = s /\ k.frame = 0
    BY <2>2, <2>3, <2>5, JumpsSet DEF Entered
  <2>7. g.state \notin Bound
    BY <1>1, <1>3
  <2> QED BY <2>1, <2>3, <2>4, <2>6, <2>7, QuietNames DEF Entered
<1>4. CASE g.grounded /\ is_air_state(g.state)
  <2>1. \/ h = g
        \/ g.state = "PUNCH_AIR" /\ h = PunchLands(g)
        \/ g.state = "KICK_AIR" /\ h = enter_wait(g)
        \/ g.state = "DIVE_FALL" /\ h = enter_falcon_dive_landing(g)
        \/ h = enter_landing(g)
    BY <1>4, GroundNames DEF Reconcile
  <2>2. PunchLands(g).state = "PUNCH_GROUND" /\ PunchLands(g).frame = g.frame
    BY DEF PunchLands, Fighter
  <2>3. enter_wait(g).state = "WAIT" /\ enter_wait(g).frame = 0
    BY EnterWait DEF Entered
  <2>4. /\ enter_falcon_dive_landing(g).state = "DIVE_LANDING"
        /\ enter_falcon_dive_landing(g).frame = 0
    BY EnterDiveLanding DEF Entered
  <2>5. enter_landing(g).state \in Landings /\ enter_landing(g).frame = 0
    BY EnterLanding DEF Entered
  <2>6. "KICK_AIR" \notin Bound /\ "DIVE_FALL" \notin Bound
    BY DEF Bound, Dives
  <2> QED BY <2>1, <2>2, <2>3, <2>4, <2>5, <2>6, QuietNames DEF Kept
<1>5. CASE (g.grounded /\ ~is_air_state(g.state)) \/ (~g.grounded /\ is_air_state(g.state))
  <2>1. h = g
    BY <1>5, GroundNames DEF Reconcile
  <2> QED BY <2>1 DEF Kept
<1> QED BY <1>2, <1>3, <1>4, <1>5

(* The next frame passes a mark only by standing on it.                    *)
LEMMA MarkPassed ==
  ASSUME NEW s \in FalconState, NEW t \in 0 .. 89, NEW n \in NextFrames(s, t),
         NEW m \in Marks[s]
  PROVE  /\ n >= m <=> t >= m \/ n = m
         /\ n = m /\ m + 1 \in Marks[s] => t < m
<1>1. Marks[s] \subseteq 0 .. 89 /\ n \in 0 .. 89
  BY FramesRange, NextFrame
<1>2. m \in 0 .. 89
  BY <1>1
<1>3. CASE t + 1 \in Marks[s]
  <2>1. n = t + 1
    BY <1>3 DEF NextFrames
  <2> QED BY <1>2, <2>1
<1>4. CASE t + 1 \notin Marks[s]
  <2>1. n = t \/ (n \in Marks[s] /\ n > t /\ (m > t => n <= m))
    BY <1>4 DEF NextFrames
  <2>2. t = m => m + 1 \notin Marks[s]
    BY <1>4
  <2> QED BY <1>1, <1>2, <2>1, <2>2
<1> QED BY <1>3, <1>4

LEMMA FirstFrame ==
  ASSUME NEW s \in FalconState, NEW n \in NextFrames(s, 0)
  PROVE  n = 1
<1>1. 0 + 1 \in Marks[s]
  BY FramesRange
<1> QED BY <1>1 DEF NextFrames

(* What a whole tick makes of a state and its frame.                       *)
Follows(g, h) ==
  \/ SameMove(g.state, h.state) /\ h.frame \in NextFrames(h.state, g.frame)
  \/ g.state = "DIVE_CATCH" /\ h.state = "DIVE_THROW" /\ h.frame = 0
  \/ g.state = "KICK_GROUND" /\ h.state = "KICK_GROUND_AIR"
  \/ g.state \in Bound /\ h.state \in Ends
  \/ g.state \notin Bound /\ (Begun(h) \/ h.state \in Quiet)

LEMMA TickFollows ==
  ASSUME NEW g \in Fighter, NEW in \in Pads, NEW cause, NEW c, NEW h,
         Stages(g, in, cause, h, c)
  PROVE  Follows(g, h)
<1>1. PICK b, r, k, u, i \in Fighter :
        /\ b.state = g.state /\ b.frame = g.frame
        /\ r = Reconcile(b, in, cause)
        /\ k.state = r.state /\ k.frame \in NextFrames(r.state, r.frame)
        /\ u = proc_update(k, in)
        /\ i = proc_interrupt(u, in) /\ Good(i, in, c)
        /\ Alike(h, i)
  BY DEF Stages
<1>2. h.state = i.state /\ h.frame = i.frame
  BY <1>1 DEF Alike
<1>3. \/ Kept(r, b)
      \/ b.state = "PUNCH_AIR" /\ r.state = "PUNCH_GROUND" /\ r.frame = b.frame
      \/ b.state = "KICK_GROUND" /\ r.state = "KICK_GROUND_AIR" /\ r.frame = 0
      \/ r.frame = 0 /\ r.state \in Quiet /\ (b.state \in Bound => r.state \in Landings)
  BY <1>1, ReconcileMoves
<1>4. \/ Kept(u, k)
      \/ /\ u.frame = 0 /\ u.state \in Quiet /\ k.state \notin Bound
         /\ k.state \in Landings => k.frame >= 4
      \/ u.frame = 0 /\ u.state = "DIVE_FALL" /\ k.state \in Dives
      \/ u.frame = 0 /\ u.state = "DIVE_THROW" /\ k.state = "DIVE_CATCH"
  BY <1>1, UpdateMoves
<1>5. Kept(i, u) \/ (Open(u) /\ (Kept(i, u) \/ Begun(i) \/ i.state \in Walks))
  BY <1>1, InterruptMoves DEF Moved
<1>6. /\ \A s \in Bound \cup {"DIVE_FALL", "DIVE_THROW"} :
           s \notin {"WAIT", "DASH", "RUN", "RUN_BRAKE", "TURN", "TURN_RUN"} \cup Walks
                      \cup Jumps \cup AerialJumps \cup Falls \cup Landings
      /\ \A s \in Quiet \cup Punches \cup {"KICK_GROUND", "KICK_GROUND_AIR"} : s \notin Bound
      /\ \A s \in Landings :
           s \notin {"WAIT", "DASH", "RUN", "RUN_BRAKE", "TURN", "TURN_RUN"} \cup Walks
                      \cup Jumps \cup AerialJumps \cup Falls
  BY DEF Bound, Dives, Walks, Jumps, AerialJumps, Falls, Landings, Quiet, Started, Punches
<1>7. Walks \subseteq Quiet /\ Landings \subseteq Quiet
  BY QuietNames
<1>8. r.frame = 0 => k.frame = 1
  BY <1>1, FirstFrame DEF Fighter
<1>9. CASE r.frame = 0 /\ r.state \in Landings
  <2>1. k.frame = 1 /\ k.state \in Landings
    BY <1>1, <1>8, <1>9
  <2>2. Kept(u, k)
    BY <1>4, <1>6, <2>1 DEF Bound
  <2>3. ~Open(u)
    BY <1>6, <2>1, <2>2 DEF Open, Kept
  <2>4. i.state \in Landings
    BY <1>5, <2>1, <2>2, <2>3 DEF Kept
  <2> QED BY <1>2, <1>7, <2>4 DEF Follows, Ends
<1>10. CASE g.state \notin Bound
  <2>1. r.state \notin Bound
    BY <1>1, <1>3, <1>6, <1>10 DEF Kept, Punches
  <2>2. Kept(u, k) \/ u.state \in Quiet
    BY <1>1, <1>4, <2>1 DEF Bound
  <2>3. Kept(i, k) \/ Begun(i) \/ i.state \in Quiet
    BY <1>5, <1>7, <2>2 DEF Kept
  <2>4. CASE Begun(i) \/ i.state \in Quiet
    BY <1>2, <1>10, <2>4 DEF Follows, Begun
  <2>5. CASE Kept(i, k)
    <3>1. h.state = r.state /\ h.frame \in NextFrames(r.state, r.frame)
      BY <1>1, <1>2, <2>5 DEF Kept
    <3> QED BY <1>1, <1>3, <1>10, <3>1 DEF Follows, SameMove, Punches, Kept
  <2> QED BY <2>3, <2>4, <2>5
<1>11. CASE g.state \in Bound /\ Kept(r, b)
  <2>1. k.state = g.state /\ k.frame \in NextFrames(g.state, g.frame)
    BY <1>1, <1>11 DEF Kept
  <2>2. ~Open(u)
    BY <1>4, <1>6, <1>11, <2>1 DEF Open, Kept
  <2>3. h.state = u.state /\ h.frame = u.frame
    BY <1>2, <1>5, <2>2 DEF Kept
  <2> QED BY <1>4, <1>11, <2>1, <2>3 DEF Follows, SameMove, Kept, Ends
<1>12. CASE g.state \in Bound /\ ~Kept(r, b)
  <2>1. r.frame = 0 /\ r.state \in Landings
    BY <1>1, <1>3, <1>6, <1>12 DEF Punches
  <2> QED BY <1>9, <2>1
<1> QED BY <1>10, <1>11, <1>12

(* What the host's collision makes of the move.                            *)
LEMMA ResolveMoves ==
  ASSUME NEW g \in Fighter, Suits(g.state, g.grounded), NEW hit \in HitSet,
         NEW h, h = falcon_resolve(g, hit)
  PROVE  \/ hit.connected /\ g.state \in Dives /\ h.state = "DIVE_CATCH" /\ h.frame = 0
         \/ /\ ~(hit.connected /\ g.state \in Dives)
            /\ \/ /\ Kept(h, g)
                  /\ ~(hit.wall /\ is_falcon_kick_wall_state(g.state))
                  /\ g.state = "KICK_AIR" => ~hit.grounded \/ hit.imposed = "up"
               \/ /\ g.state = "PUNCH_AIR" /\ h.state = "PUNCH_GROUND"
                  /\ h.frame = g.frame
               \/ /\ ~hit.grounded /\ ~hit.wall
                  /\ g.state = "KICK_GROUND" /\ h.state = "KICK_GROUND_AIR"
               \/ /\ h.state \in {"WAIT", "DIVE_LANDING"} \cup Landings \cup Falls
                  /\ \/ ~hit.grounded
                     \/ hit.wall /\ is_falcon_kick_wall_state(g.state)
                     \/ g.state \notin Punches \cup {"KICK_GROUND"}
<1> DEFINE v == IF hit.imposed # "none" THEN hit.imposed
                ELSE IF hit.ceiling /\ Rising(g.vy) THEN "rest" ELSE g.vy
           w == IF hit.imposed # "none" THEN hit.imposed ELSE g.vy
           stopped == [g EXCEPT !.vy = v]
           moved == [g EXCEPT !.vy = w]
           floored == [stopped EXCEPT !.grounded = TRUE]
           slid == [floored EXCEPT !.vy = "rest"]
<1>1. g.vy \in VSpeed
  BY DEF Fighter
<1>2. v \in VSpeed /\ w \in VSpeed
  BY <1>1, Speeds DEF HitSet
<1>3. stopped = [g EXCEPT !.vy = v]
  OBVIOUS
<1>4. moved = [g EXCEPT !.vy = w]
  OBVIOUS
<1>5. floored = [stopped EXCEPT !.grounded = TRUE]
  OBVIOUS
<1>6. slid = [floored EXCEPT !.vy = "rest"]
  OBVIOUS
<1>7. [stopped EXCEPT !.grounded = TRUE, !.vy = "rest"] = slid
  OBVIOUS
<1> HIDE DEF v, w, stopped, moved, floored, slid
<1>8. Alike(stopped, g) /\ Alike(moved, g)
  BY <1>2, <1>3, <1>4, SpeedSet
<1>9. floored \in Fighter /\ floored.state = g.state /\ floored.frame = g.frame
  BY <1>5, <1>8, FootingSet DEF Alike
<1>10. Alike(slid, floored)
  BY <1>6, <1>9, Speeds, SpeedSet
<1>11. CASE hit.connected /\ g.state \in Dives
  <2>1. Entered(enter_falcon_dive_catch(g), "DIVE_CATCH", FALSE, g.jumps_used)
    BY EnterCatch
  <2> QED BY <1>11, <2>1 DEF falcon_resolve, Entered
<1>12. CASE ~(hit.connected /\ g.state \in Dives) /\ hit.wall /\ is_falcon_kick_wall_state(g.state)
  <2> DEFINE s == [g EXCEPT !.vy = "rest"]
  <2>1. s = [g EXCEPT !.vy = "rest"]
    OBVIOUS
  <2>2. h = IF hit.grounded THEN enter_wait(s) ELSE enter_fall(s)
    BY <1>12 DEF falcon_resolve, enter_falcon_kick_wall_stop
  <2> HIDE DEF s
  <2>3. s \in Fighter
    BY <2>1, Speeds, SpeedSet DEF Alike
  <2>4. enter_wait(s).state = "WAIT" /\ enter_fall(s).state \in Falls
    BY <2>3, EnterWait, EnterFall DEF Entered
  <2> QED BY <1>12, <2>2, <2>4
<1>13. CASE /\ ~(hit.connected /\ g.state \in Dives)
            /\ ~(hit.wall /\ is_falcon_kick_wall_state(g.state)) /\ ~g.grounded
  <2>1. \/ h = stopped /\ (g.state = "KICK_AIR" => ~hit.grounded \/ hit.imposed = "up")
        \/ h = slid /\ g.state \in {"KICK_GROUND", "KICK_GROUND_AIR"}
        \/ h = PunchLands(floored) /\ g.state = "PUNCH_AIR"
        \/ /\ h \in {enter_wait(stopped), enter_falcon_dive_landing(stopped),
                     enter_landing(stopped)}
           /\ g.state \notin {"PUNCH_AIR", "KICK_GROUND"}
    BY <1>7, <1>13 DEF falcon_resolve, stopped, v, floored
  <2>2. /\ enter_wait(stopped).state = "WAIT"
        /\ enter_falcon_dive_landing(stopped).state = "DIVE_LANDING"
        /\ enter_landing(stopped).state \in Landings
    BY <1>8, EnterWait, EnterDiveLanding, EnterLanding DEF Alike, Entered
  <2>3. PunchLands(floored).state = "PUNCH_GROUND" /\ PunchLands(floored).frame = g.frame
    BY <1>9 DEF PunchLands, Fighter
  <2>4. g.state # "PUNCH_GROUND"
    BY <1>13, GroundNames DEF Suits
  <2>5. Kept(stopped, g) /\ Kept(slid, g)
    BY <1>8, <1>9, <1>10 DEF Alike, Kept
  <2> QED BY <1>13, <2>1, <2>2, <2>3, <2>4, <2>5 DEF Punches
<1>14. CASE /\ ~(hit.connected /\ g.state \in Dives)
            /\ ~(hit.wall /\ is_falcon_kick_wall_state(g.state)) /\ g.grounded
            /\ ~hit.grounded
  <2> DEFINE k == [moved EXCEPT !.jumps_used = 1]
             l == [k EXCEPT !.grounded = FALSE]
  <2>1. k = [moved EXCEPT !.jumps_used = 1]
    OBVIOUS
  <2>2. l = [k EXCEPT !.grounded = FALSE]
    OBVIOUS
  <2>3. [moved EXCEPT !.jumps_used = 1, !.grounded = FALSE] = l
    OBVIOUS
  <2>4. \/ h = enter_fall(moved)
        \/ g.state = "KICK_GROUND" /\ h = set_status(l, "KICK_GROUND_AIR")
        \/ g.state = "KICK_GROUND" /\ h = l
    BY <1>14, <2>3 DEF falcon_resolve, moved, w
  <2> HIDE DEF k, l
  <2>5. 1 \in 0 .. MaxJumps
    BY MaxJumpsAssumption
  <2>6. k \in Fighter /\ k.state = g.state /\ k.frame = g.frame
    BY <1>8, <2>1, <2>5, JumpsSet DEF Alike
  <2>7. l \in Fighter /\ l.state = g.state /\ l.frame = g.frame
    BY <2>2, <2>6, FootingSet
  <2>8. set_status(l, "KICK_GROUND_AIR").state = "KICK_GROUND_AIR"
    BY <2>7, Names, SetStatus DEF Entered
  <2>9. enter_fall(moved).state \in Falls
    BY <1>8, EnterFall DEF Alike, Entered
  <2>10. g.state = "KICK_GROUND" => ~hit.wall
    BY <1>14 DEF is_falcon_kick_wall_state, HitSet
  <2> QED BY <1>14, <2>4, <2>7, <2>8, <2>9, <2>10 DEF Kept
<1>15. CASE /\ ~(hit.connected /\ g.state \in Dives)
            /\ ~(hit.wall /\ is_falcon_kick_wall_state(g.state)) /\ g.grounded
            /\ hit.grounded
  <2>1. h = g
    BY <1>15 DEF falcon_resolve
  <2>2. g.state # "KICK_AIR"
    BY <1>15, AirNames DEF Suits
  <2> QED BY <1>15, <2>1, <2>2 DEF Kept
<1> QED BY <1>11, <1>12, <1>13, <1>14, <1>15

(* The cues of a special tell how far its own timeline has come.           *)
Kicks == {"KICK_GROUND", "KICK_AIR"}

Told(g, m) ==
  /\ m.family = Family(g.state) /\ ~m.again
  /\ g.state \in Punches => /\ "PUNCH_IMPACT" \in m.cues <=> g.frame >= 42
                            /\ "PUNCH_PUNCH" \in m.cues <=> g.frame >= 42
  /\ g.state \in Kicks => ("KICK_START" \in m.cues <=> g.frame >= 12)
  /\ g.state \in Dives => /\ "DIVE_LAUNCH" \in m.cues <=> g.frame >= 13
                          /\ "DIVE_CATCH" \notin m.cues
  /\ g.state = "DIVE_CATCH" /\ g.frame = 0 => "DIVE_CATCH" \notin m.cues
  /\ g.state \in Bound => "DIVE_EXPLODE" \notin m.cues /\ "DIVE_VOICE" \notin m.cues

CuesInv ==
  /\ Told(f, move)
  /\ f.state # "KICK_LANDING"
  /\ attack = "none" \/ attack = emit_attack(f)

LEMMA Emits ==
  ASSUME NEW g
  PROVE  /\ g.state \in Punches =>
              emit_audio(g) = IF g.frame = 0 THEN {"PUNCH_FALCON"}
                              ELSE IF g.frame = 42 THEN {"PUNCH_PUNCH", "PUNCH_IMPACT"}
                              ELSE {}
         /\ g.state \in Kicks =>
              emit_audio(g) = IF g.frame = 0 THEN {"KICK", "KICK_SWING"}
                              ELSE IF g.frame = 12 THEN {"KICK_START"} ELSE {}
         /\ g.state \in Dives =>
              emit_audio(g) = IF g.frame = 13 THEN {"DIVE_LAUNCH"} ELSE {}
         /\ g.state = "KICK_GROUND_AIR" => emit_audio(g) = {}
         /\ g.state = "DIVE_CATCH" =>
              emit_audio(g) = IF g.frame = 1 THEN {"DIVE_CATCH"} ELSE {}
         /\ g.state = "DIVE_THROW" =>
              emit_audio(g) = IF g.frame = 0 THEN {"DIVE_EXPLODE", "DIVE_VOICE"} ELSE {}
<1>1. CASE g.state \in Punches
  BY <1>1 DEF emit_audio, Punches, Dives, Jumps, AerialJumps, Kicks
<1>2. CASE g.state \in Kicks
  BY <1>2 DEF emit_audio, Punches, Dives, Jumps, AerialJumps, Kicks
<1>3. CASE g.state \in Dives
  BY <1>3 DEF emit_audio, Punches, Dives, Jumps, AerialJumps, Kicks
<1>4. CASE g.state \in {"KICK_GROUND_AIR", "DIVE_CATCH", "DIVE_THROW"}
  BY <1>4 DEF emit_audio, Punches, Dives, Jumps, AerialJumps, Kicks
<1> QED BY <1>1, <1>2, <1>3, <1>4

LEMMA Families ==
  /\ \A s : Family(s) = "punch" <=> s \in Punches
  /\ \A s : Family(s) = "kick" <=> s \in Kicks \cup {"KICK_GROUND_AIR"}
  /\ \A s : Family(s) = "dive" <=> s \in Dives \cup {"DIVE_CATCH", "DIVE_THROW"}
  /\ \A s : Family(s) \in {"punch", "kick", "dive", "none"}
  /\ \A s \in Quiet \cup Ends : Family(s) = "none"
BY DEF Family, Punches, Dives, Kicks, Quiet, Started, Ends, Landings


LEMMA MarksAhead ==
  /\ \A s \in Punches : 42 \in Marks[s] /\ 42 + 1 \in Marks[s]
  /\ \A s \in Kicks : 12 \in Marks[s] /\ 12 + 1 \in Marks[s]
  /\ \A s \in Dives : 13 \in Marks[s] /\ 13 + 1 \in Marks[s]
  /\ 1 \in Marks["DIVE_CATCH"] /\ 1 + 1 \in Marks["DIVE_CATCH"]
<1>2. {42, 43} \subseteq Marks["PUNCH_GROUND"] /\ {42, 43} \subseteq Marks["PUNCH_AIR"]
  <2>1. {42, 43} \subseteq Marks["PUNCH_GROUND"]
    BY Names DEF Marks, Punches, Landings, Dives
  <2>2. {42, 43} \subseteq Marks["PUNCH_AIR"]
    BY Names DEF Marks, Punches, Landings, Dives
  <2> QED BY <2>1, <2>2
<1>3. {12, 13} \subseteq Marks["KICK_GROUND"] /\ {12, 13} \subseteq Marks["KICK_AIR"]
  <2>1. {12, 13} \subseteq Marks["KICK_GROUND"]
    BY Names DEF Marks, Punches, Landings, Dives
  <2>2. {12, 13} \subseteq Marks["KICK_AIR"]
    BY Names DEF Marks, Punches, Landings, Dives
  <2> QED BY <2>1, <2>2
<1>4. "DIVE_GROUND" \in FalconState /\ "DIVE_AIR" \in FalconState
  BY Names DEF Dives
<1>5. {13, 14} \subseteq Marks["DIVE_GROUND"] /\ {13, 14} \subseteq Marks["DIVE_AIR"]
  BY <1>4 DEF Marks, Dives, Punches, Landings
<1>6. {1, 2} \subseteq Marks["DIVE_CATCH"]
  BY Names DEF Marks, Dives, Punches, Landings
<1>7. 42 + 1 = 43 /\ 12 + 1 = 13 /\ 13 + 1 = 14 /\ 1 + 1 = 2
  OBVIOUS
<1> QED BY <1>2, <1>3, <1>5, <1>6, <1>7 DEF Punches, Kicks, Dives

(* Outside a special nothing is told.                                      *)
LEMMA NoneTold ==
  ASSUME NEW h, Family(h.state) = "none", NEW e, NEW ticked
  PROVE  Told(h, MoveStep(h, e, ticked))
BY Families DEF Told, MoveStep, Bound, Kicks

LEMMA TickTold ==
  ASSUME f \in Fighter, Told(f, move), NEW h \in Fighter, Follows(f, h)
  PROVE  Told(h, MoveStep(h, emit_audio(h), TRUE))
<1> DEFINE e == emit_audio(h)
           begins == /\ TRUE /\ h.frame = 0
                     /\ h.state \in Punches \cup Dives \cup {"KICK_GROUND", "KICK_AIR"}
           old == IF Family(h.state) = move.family /\ ~begins THEN move.cues ELSE {}
           n == MoveStep(h, e, TRUE)
<1>1. /\ n.family = Family(h.state) /\ n.cues = old \cup e
      /\ n.again <=> Family(h.state) # "none" /\ old \cap e # {}
  BY DEF MoveStep
<1>2. move.family = Family(f.state)
  BY DEF Told
<1>3. h.frame \in 0 .. 89 /\ f.frame \in 0 .. 89
      /\ h.state \in FalconState
  BY DEF Fighter
<1>4. e = emit_audio(h)
  OBVIOUS
<1>5. h.state \in Punches \cup Kicks \cup Dives /\ h.frame = 0 => old = {}
  BY DEF Kicks
<1>6. Family(h.state) = Family(f.state) /\ ~begins => old = move.cues
  BY <1>2
<1>7. h.state \notin Punches \cup Kicks \cup Dives \/ h.frame # 0 => ~begins
  BY DEF Kicks
<1>8. Family(h.state) = "none" => Told(h, n)
  BY NoneTold
<1> SUFFICES Told(h, n)
  OBVIOUS
<1> HIDE DEF e, begins, old, n
<1>9. CASE SameMove(f.state, h.state) /\ h.frame \in NextFrames(h.state, f.frame)
  <2>1. h.frame # 0
    BY <1>3, <1>9, NextFrame
  <2>2. /\ f.state \in Punches <=> h.state \in Punches
        /\ h.state \notin Punches => f.state = h.state
    BY <1>9 DEF SameMove
  <2>3. Family(h.state) = Family(f.state)
    BY <2>2, Families
  <2>4. old = move.cues
    BY <1>6, <1>7, <2>1, <2>3
  <2>5. \A m \in Marks[h.state] :
          /\ h.frame >= m <=> f.frame >= m \/ h.frame = m
          /\ h.frame = m /\ m + 1 \in Marks[h.state] => f.frame < m
    BY <1>3, <1>9, MarkPassed
  <2>6. CASE h.state \in Punches
    <3>1. e = IF h.frame = 42 THEN {"PUNCH_PUNCH", "PUNCH_IMPACT"} ELSE {}
      BY <1>4, <2>1, <2>6, Emits
    <3>2. /\ "PUNCH_IMPACT" \in move.cues <=> f.frame >= 42
          /\ "PUNCH_PUNCH" \in move.cues <=> f.frame >= 42
      BY <2>2, <2>6 DEF Told
    <3>3. /\ h.frame >= 42 <=> f.frame >= 42 \/ h.frame = 42
          /\ h.frame = 42 => f.frame < 42
      BY <2>5, <2>6, MarksAhead
    <3>4. h.frame = 42 => ~(f.frame >= 42)
      BY <1>3, <3>3
    <3>5. old \cap e = {}
      BY <2>4, <3>1, <3>2, <3>4
    <3>6. /\ "PUNCH_IMPACT" \in old \cup e <=> h.frame >= 42
          /\ "PUNCH_PUNCH" \in old \cup e <=> h.frame >= 42
      BY <2>4, <3>1, <3>2, <3>3
    <3>7. h.state \notin Kicks \cup Dives \cup Bound
      BY <2>6 DEF Punches, Kicks, Dives, Bound
    <3> QED BY <1>1, <3>5, <3>6, <3>7 DEF Told, Bound
  <2>7. CASE h.state \in Kicks
    <3>1. e = IF h.frame = 12 THEN {"KICK_START"} ELSE {}
      BY <1>4, <2>1, <2>7, Emits
    <3>2. f.state = h.state /\ h.state \notin Punches \cup Dives \cup Bound
      BY <2>2, <2>7 DEF Punches, Kicks, Dives, Bound
    <3>3. "KICK_START" \in move.cues <=> f.frame >= 12
      BY <2>7, <3>2 DEF Told
    <3>4. /\ h.frame >= 12 <=> f.frame >= 12 \/ h.frame = 12
          /\ h.frame = 12 => f.frame < 12
      BY <2>5, <2>7, MarksAhead
    <3>5. h.frame = 12 => ~(f.frame >= 12)
      BY <1>3, <3>4
    <3>6. old \cap e = {}
      BY <2>4, <3>1, <3>3, <3>5
    <3>7. "KICK_START" \in old \cup e <=> h.frame >= 12
      BY <2>4, <3>1, <3>3, <3>4
    <3> QED BY <1>1, <3>2, <3>6, <3>7 DEF Told, Bound
  <2>8. CASE h.state \in Dives
    <3>1. e = IF h.frame = 13 THEN {"DIVE_LAUNCH"} ELSE {}
      BY <1>4, <2>8, Emits
    <3>2. f.state = h.state /\ h.state \notin Punches \cup Kicks /\ h.state # "DIVE_CATCH"
      BY <2>2, <2>8 DEF Punches, Kicks, Dives
    <3>3. /\ "DIVE_LAUNCH" \in move.cues <=> f.frame >= 13
          /\ "DIVE_CATCH" \notin move.cues
          /\ "DIVE_EXPLODE" \notin move.cues /\ "DIVE_VOICE" \notin move.cues
      BY <2>8, <3>2 DEF Told, Bound
    <3>4. /\ h.frame >= 13 <=> f.frame >= 13 \/ h.frame = 13
          /\ h.frame = 13 => f.frame < 13
      BY <2>5, <2>8, MarksAhead
    <3>5. h.frame = 13 => ~(f.frame >= 13)
      BY <1>3, <3>4
    <3>6. old \cap e = {}
      BY <2>4, <3>1, <3>3, <3>5
    <3>7. /\ "DIVE_LAUNCH" \in old \cup e <=> h.frame >= 13
          /\ "DIVE_CATCH" \notin old \cup e
          /\ "DIVE_EXPLODE" \notin old \cup e /\ "DIVE_VOICE" \notin old \cup e
      BY <2>4, <3>1, <3>3, <3>4
    <3> QED BY <1>1, <3>2, <3>6, <3>7 DEF Told
  <2>9. CASE h.state = "DIVE_CATCH"
    <3>1. e = IF h.frame = 1 THEN {"DIVE_CATCH"} ELSE {}
      BY <1>4, <2>9, Emits
    <3>2. f.state = "DIVE_CATCH" /\ h.state \notin Punches \cup Kicks \cup Dives
      BY <2>2, <2>9 DEF Punches, Kicks, Dives
    <3>3. /\ f.frame = 0 => "DIVE_CATCH" \notin move.cues
          /\ "DIVE_EXPLODE" \notin move.cues /\ "DIVE_VOICE" \notin move.cues
      BY <3>2 DEF Told, Bound
    <3>4. h.frame = 1 => f.frame < 1
      BY <2>5, <2>9, MarksAhead
    <3>5. h.frame = 1 => f.frame = 0
      BY <1>3, <3>4
    <3>6. old \cap e = {} /\ "DIVE_EXPLODE" \notin old \cup e /\ "DIVE_VOICE" \notin old \cup e
      BY <2>4, <3>1, <3>3, <3>5
    <3> QED BY <1>1, <2>1, <3>2, <3>6 DEF Told
  <2>10. CASE h.state \in {"KICK_GROUND_AIR", "DIVE_THROW"}
    <3>1. e = {}
      BY <1>4, <2>1, <2>10, Emits
    <3>2. h.state \notin Punches \cup Kicks \cup Dives \cup Bound
      BY <2>10 DEF Punches, Kicks, Dives, Bound
    <3> QED BY <1>1, <2>10, <3>1, <3>2 DEF Told, Bound
  <2>11. CASE Family(h.state) = "none"
    BY <1>8, <2>11 DEF n
  <2> QED BY <2>6, <2>7, <2>8, <2>9, <2>10, <2>11, Families DEF n
<1>10. CASE f.state = "DIVE_CATCH" /\ h.state = "DIVE_THROW" /\ h.frame = 0
  <2>1. e = {"DIVE_EXPLODE", "DIVE_VOICE"}
    BY <1>4, <1>10, Emits
  <2>2. h.state \notin Punches \cup Kicks \cup Dives \cup Bound
    BY <1>10 DEF Punches, Kicks, Dives, Bound
  <2>3. old = move.cues
    BY <1>6, <1>7, <1>10, <2>2, Families
  <2>4. "DIVE_EXPLODE" \notin move.cues /\ "DIVE_VOICE" \notin move.cues
    BY <1>10 DEF Told, Bound
  <2>5. old \cap e = {}
    BY <2>1, <2>3, <2>4
  <2> QED BY <1>1, <1>10, <2>2, <2>5 DEF Told, Bound, n
<1>11. CASE f.state = "KICK_GROUND" /\ h.state = "KICK_GROUND_AIR"
  <2>1. e = {}
    BY <1>4, <1>11, Emits
  <2>2. h.state \notin Punches \cup Kicks \cup Dives \cup Bound
    BY <1>11 DEF Punches, Kicks, Dives, Bound
  <2> QED BY <1>1, <1>11, <2>1, <2>2 DEF Told, Bound, n
<1>12. CASE f.state \in Bound /\ h.state \in Ends
  BY <1>8, <1>12, Families DEF n
<1>13. CASE Begun(h)
  <2>1. h.frame = 0 /\ h.state \in Started
    BY <1>13 DEF Begun
  <2>2. CASE h.state \in Punches \cup Kicks \cup Dives
    <3>1. old = {}
      BY <1>5, <2>1, <2>2
    <3>2. e \subseteq {"PUNCH_FALCON", "KICK", "KICK_SWING"}
      BY <1>4, <2>1, <2>2, Emits
    <3>3. h.state # "DIVE_CATCH"
      BY <2>1 DEF Started
    <3>4. /\ n.cues = e /\ ~n.again /\ n.family = Family(h.state)
          /\ \A x \in {"PUNCH_IMPACT", "PUNCH_PUNCH", "KICK_START", "DIVE_LAUNCH",
                      "DIVE_CATCH", "DIVE_EXPLODE", "DIVE_VOICE"} : x \notin n.cues
      BY <1>1, <3>1, <3>2
    <3>5. ~(h.frame >= 42) /\ ~(h.frame >= 12) /\ ~(h.frame >= 13)
      BY <2>1
    <3> QED BY <3>4, <3>5 DEF Told
  <2>3. CASE h.state \notin Punches \cup Kicks \cup Dives
    <3>1. Family(h.state) = "none"
      BY <2>1, <2>3, Families DEF Started
    <3> QED BY <1>8, <3>1 DEF n
  <2> QED BY <2>2, <2>3 DEF n
<1>14. CASE h.state \in Quiet
  BY <1>8, <1>14, Families DEF n
<1> QED BY <1>9, <1>10, <1>11, <1>12, <1>13, <1>14 DEF Follows, n, e

LEMMA ResolveTold ==
  ASSUME f \in Fighter, Told(f, move), Suits(f.state, f.grounded), NEW hit \in HitSet,
         NEW h, h = falcon_resolve(f, hit)
  PROVE  Told(h, MoveStep(h, {}, FALSE))
<1> DEFINE n == MoveStep(h, {}, FALSE)
<1>1. /\ n.family = Family(h.state) /\ ~n.again
      /\ Family(h.state) = move.family => n.cues = move.cues
  BY DEF MoveStep
<1>2. move.family = Family(f.state)
  BY DEF Told
<1>3. Family(h.state) = "none" => Told(h, n)
  BY NoneTold
<1> SUFFICES Told(h, n)
  OBVIOUS
<1> HIDE DEF n
<1>4. CASE f.state \in Dives /\ h.state = "DIVE_CATCH"
  <2>1. Family(h.state) = Family(f.state)
    BY <1>4, Families
  <2>2. n.cues = move.cues
    BY <1>1, <1>2, <2>1
  <2>3. /\ "DIVE_CATCH" \notin move.cues
        /\ "DIVE_EXPLODE" \notin move.cues /\ "DIVE_VOICE" \notin move.cues
    BY <1>4 DEF Told, Bound
  <2>4. h.state \notin Punches \cup Kicks \cup Dives
    BY <1>4 DEF Punches, Kicks, Dives
  <2> QED BY <1>1, <2>2, <2>3, <2>4 DEF Told
<1>5. CASE SameMove(f.state, h.state) /\ h.frame = f.frame
  <2>1. /\ f.state \in Punches <=> h.state \in Punches
        /\ h.state \notin Punches => f.state = h.state
    BY <1>5 DEF SameMove
  <2>2. Family(h.state) = Family(f.state)
    BY <2>1, Families
  <2>3. n.cues = move.cues
    BY <1>1, <1>2, <2>2
  <2>4. h.state \in Punches => h.state \notin Kicks \cup Dives \cup Bound
    BY DEF Punches, Kicks, Dives, Bound
  <2> QED BY <1>1, <1>5, <2>1, <2>3, <2>4 DEF Told, Bound
<1>6. CASE h.state = "KICK_GROUND_AIR"
  <2>1. h.state \notin Punches \cup Kicks \cup Dives \cup Bound
    BY <1>6 DEF Punches, Kicks, Dives, Bound
  <2> QED BY <1>1, <1>6, <2>1 DEF Told, Bound
<1>7. CASE h.state \in {"WAIT", "DIVE_LANDING"} \cup Landings \cup Falls
  BY <1>3, <1>7, Families, QuietNames
<1> QED
  BY <1>4, <1>5, <1>6, <1>7, ResolveMoves DEF SameMove, Punches, Kept

(* No tick and no collision result enters the landing of a kick.           *)
LEMMA NoKickLanding ==
  ASSUME NEW g, NEW h, Follows(g, h), g.state # "KICK_LANDING"
  PROVE  h.state # "KICK_LANDING"
BY DEF Follows, SameMove, Punches, Ends, Landings, Begun, Quiet, Started

LEMMA InitCues == Init => CuesInv
<1> SUFFICES ASSUME Init PROVE CuesInv
  OBVIOUS
<1>1. f.state = "WAIT" /\ attack = "none" /\ ~move.again /\ move.family = "none"
  BY DEF Init, falcon_reset
<1>2. Family("WAIT") = "none"
  BY DEF Family, Punches, Dives
<1>3. "WAIT" \notin Punches \cup Kicks \cup Dives \cup Bound
  BY DEF Punches, Kicks, Dives, Bound
<1> QED BY <1>1, <1>2, <1>3 DEF CuesInv, Told, Bound

(* A tick's fighter follows from the one before.                           *)
LEMMA TickIsFollowing ==
  ASSUME FighterInv, NEW in \in Inputs, NEW cause, NEW ground \in BOOLEAN,
         Tick(in, ground, cause)
  PROVE  /\ f' \in Fighter /\ Follows(f, f')
         /\ attack' = emit_attack(f') /\ move' = MoveStep(f', emit_audio(f'), TRUE)
<1>1. in \in Pads
  BY InputsAssumption DEF Pads
<1>2. PICK g \in UNION {RootMotion(h) : h \in falcon_tick(f, in, ground, cause)} :
        /\ f' = g
        /\ attack' = emit_attack(g)
        /\ move' = MoveStep(g, emit_audio(g), TRUE)
  BY DEF Tick
<1>3. PICK h \in falcon_tick(f, in, ground, cause) : g \in RootMotion(h)
  OBVIOUS
<1>4. credit \in Nat /\ Ready(f, credit) /\ f \in Fighter
  BY DEF FighterInv, Ready
<1>5. Stages(f, in, cause, h, credit) /\ Good(h, in, credit)
  BY <1>1, <1>4, TickIsStaged, Ticked
<1>6. Alike(g, h)
  BY <1>3, <1>5, RootedIsAlike DEF Good, Sound
<1>7. Follows(f, h)
  BY <1>1, <1>4, <1>5, TickFollows
<1>8. Follows(f, g) /\ g \in Fighter
  BY <1>6, <1>7 DEF Alike, Follows, Begun
<1> QED BY <1>2, <1>8

LEMMA NextCues == FighterInv /\ CuesInv /\ [Next]_vars => CuesInv'
<1> SUFFICES ASSUME FighterInv, CuesInv, [Next]_vars PROVE CuesInv'
  OBVIOUS
<1>1. f \in Fighter /\ Suits(f.state, f.grounded)
  BY DEF FighterInv, Ready
<1>2. CASE \E in \in Inputs, cause \in AirCauses : Tick(in, cause = "none", cause)
  <2>1. PICK in \in Inputs, cause \in AirCauses : Tick(in, cause = "none", cause)
    BY <1>2
  <2>2. (cause = "none") \in BOOLEAN
    OBVIOUS
  <2>3. /\ f' \in Fighter /\ Follows(f, f')
        /\ attack' = emit_attack(f') /\ move' = MoveStep(f', emit_audio(f'), TRUE)
    BY <2>1, <2>2, TickIsFollowing
  <2>4. Told(f', MoveStep(f', emit_audio(f'), TRUE))
    BY <1>1, <2>3, TickTold DEF CuesInv
  <2>5. f'.state # "KICK_LANDING"
    BY <2>3, NoKickLanding DEF CuesInv
  <2>6. Told(f', move')
    BY <2>3, <2>4
  <2>7. Told(f, move)'
    BY <2>6 DEF Told
  <2>8. (attack = emit_attack(f))'
    BY <2>3 DEF emit_attack
  <2> QED BY <2>5, <2>7, <2>8 DEF CuesInv
<1>3. CASE \E hit \in Hits : Resolve(hit)
  <2>1. PICK hit \in Hits : Resolve(hit)
    BY <1>3
  <2> DEFINE g == falcon_resolve(f, hit)
  <2>2. hit \in HitSet
    BY HitsAssumption DEF HitSet
  <2>3. f' = g /\ move' = MoveStep(g, {}, FALSE) /\ attack' = "none"
    BY <2>1 DEF Resolve
  <2>4. Told(g, MoveStep(g, {}, FALSE))
    BY <1>1, <2>2, ResolveTold DEF CuesInv
  <2>5. g.state # "KICK_LANDING"
    BY <1>1, <2>2, ResolveMoves DEF CuesInv, Kept, Landings, Falls
  <2> HIDE DEF g
  <2>6. Told(f', move')
    BY <2>3, <2>4
  <2>7. Told(f, move)'
    BY <2>6 DEF Told
  <2> QED BY <2>3, <2>5, <2>7 DEF CuesInv
<1>4. CASE UNCHANGED vars
  BY <1>4 DEF vars, CuesInv, Told, emit_attack
<1> QED BY <1>2, <1>3, <1>4 DEF Next

LEMMA CuesImply ==
  ASSUME FighterInv, CuesInv
  PROVE  CuesLeadContact
<1>1. f.frame \in 0 .. 89
  BY DEF FighterInv, Ready, Fighter
<1>2. attack # "none" => attack = emit_attack(f)
  BY DEF CuesInv
<1>3. f.state \in Punches /\ attack = "strike" => f.frame >= 42
  BY <1>1, <1>2 DEF emit_attack, Punches, Dives
<1>4. f.state \in Kicks /\ attack = "strike" => f.frame >= 12
  BY <1>1, <1>2 DEF emit_attack, Punches, Dives, Kicks
<1>5. attack = "catch" => f.state \in Dives /\ f.frame >= 13
  BY <1>1, <1>2 DEF emit_attack
<1> QED BY <1>3, <1>4, <1>5 DEF CuesInv, Told, CuesLeadContact, Kicks

(* Contact opens only after the move's own cue, and no cue sounds twice in *)
(* one move, whatever floor, wall or body the host reports in between      *)
(* (emit_attack, emit_audio, falcon_tick, falcon_resolve).                 *)
THEOREM CuesAreAhead == Spec => []CuesLeadContact
<1>1. Init => FighterInv /\ CuesInv
  BY InitInv, InitCues
<1>2. (FighterInv /\ CuesInv) /\ [Next]_vars => (FighterInv /\ CuesInv)'
  BY NextInv, NextCues
<1>3. FighterInv /\ CuesInv => CuesLeadContact
  BY CuesImply
<1> QED BY <1>1, <1>2, <1>3, PTL DEF Spec

(* The classes that the host boundary tells apart.                         *)
LEMMA ClassNames ==
  /\ \A s \in Quiet : Class(s) \in {"idle", "run"}
  /\ \A s \in Ends \cup Falls \cup Landings \cup {"WAIT", "DIVE_LANDING"} : Class(s) = "idle"
  /\ \A s \in Punches : Class(s) = "punch"
  /\ \A s \in Dives : Class(s) = "dive"
  /\ \A s \in AirAttacks \cup {"JAB", "FTILT"} : Class(s) = "jab"
  /\ Class("KICK_GROUND") = "kick" /\ Class("KICK_AIR") = "kickair"
  /\ Class("DIVE_CATCH") = "catch" /\ Class("DIVE_THROW") = "throw"
  /\ Class("KICK_GROUND_AIR") = "run"
<1>1. \A s \in Quiet : Class(s) \in {"idle", "run"}
  BY DEF Class, Quiet, Started, Punches, Dives, AirAttacks
<1>2. \A s \in Ends \cup Falls \cup Landings \cup {"WAIT", "DIVE_LANDING"} : Class(s) = "idle"
  BY DEF Class, Ends, Falls, Landings, Punches, Dives, AirAttacks
<1>3. \A s \in Punches : Class(s) = "punch"
  BY DEF Class, Punches, Dives, AirAttacks
<1>4. \A s \in Dives : Class(s) = "dive"
  BY DEF Class, Dives, Punches, AirAttacks
<1>5. \A s \in AirAttacks \cup {"JAB", "FTILT"} : Class(s) = "jab"
  BY DEF Class, AirAttacks, Dives, Punches
<1>6. /\ Class("KICK_GROUND") = "kick" /\ Class("KICK_AIR") = "kickair"
      /\ Class("DIVE_CATCH") = "catch" /\ Class("DIVE_THROW") = "throw"
      /\ Class("KICK_GROUND_AIR") = "run"
  BY DEF Class, AirAttacks, Dives, Punches
<1> QED BY <1>1, <1>2, <1>3, <1>4, <1>5, <1>6

(* And back: what a class says of the state.                               *)
LEMMA ClassStates ==
  /\ \A s : Class(s) = "dive" <=> s \in Dives
  /\ \A s : Class(s) = "catch" <=> s = "DIVE_CATCH"
  /\ \A s : Class(s) = "throw" <=> s = "DIVE_THROW"
  /\ \A s : Class(s) = "kick" <=> s = "KICK_GROUND"
  /\ \A s : Class(s) = "kickair" <=> s = "KICK_AIR"
  /\ \A s : Class(s) = "punch" <=> s \in Punches
  /\ \A s : Class(s) \in Host!Moves
BY DEF Class, Dives, Punches, AirAttacks, Host!Moves, Host!Classes

(* The attack a state may emit, and none on its first frame.               *)
LEMMA AttackOf ==
  ASSUME NEW h, h.state # "KICK_LANDING"
  PROVE  /\ emit_attack(h) \in Host!Attacks(Class(h.state))
         /\ h.state \in Quiet \cup Ends \cup {"KICK_GROUND_AIR", "DIVE_THROW"} =>
              emit_attack(h) = "none"
         /\ h.frame = 0 => emit_attack(h) = "none"
<1>1. h.frame = 0 => emit_attack(h) = "none"
  BY DEF emit_attack
<1>2. emit_attack(h) = "strike" =>
        h.state \in {"JAB", "FTILT", "KICK_GROUND", "KICK_AIR"} \cup AirAttacks \cup Punches
  BY DEF emit_attack, AirAttacks
<1>3. emit_attack(h) = "catch" => h.state \in Dives
  BY DEF emit_attack
<1>4. emit_attack(h) \in {"none", "strike", "catch"}
  BY DEF emit_attack
<1>5. h.state \in Quiet \cup Ends \cup {"KICK_GROUND_AIR", "DIVE_THROW"} =>
        h.state \notin {"JAB", "FTILT", "KICK_GROUND", "KICK_AIR"} \cup AirAttacks \cup Punches
                         \cup Dives
  BY DEF Quiet, Ends, Landings, AirAttacks, Punches, Dives
<1>6. emit_attack(h) = "strike" => Class(h.state) \in {"jab", "punch", "kick", "kickair"}
  BY <1>2, ClassNames
<1>7. emit_attack(h) = "catch" => Class(h.state) = "dive"
  BY <1>3, ClassNames
<1>8. emit_attack(h) \in Host!Attacks(Class(h.state))
  BY <1>4, <1>6, <1>7 DEF Host!Attacks
<1> QED BY <1>1, <1>2, <1>3, <1>4, <1>5, <1>8

(* Every tick of the fighter is one that the host boundary expects.        *)
LEMMA TickAbstracted ==
  ASSUME NEW g, NEW h, Follows(g, h), h.state # "KICK_LANDING"
  PROVE  /\ Class(h.state) \in Host!TickMoves(Class(g.state))
         /\ emit_attack(h) \in IF Class(h.state) = Class(g.state)
                               THEN Host!Attacks(Class(h.state)) ELSE {"none"}
<1>1. emit_attack(h) \in Host!Attacks(Class(h.state))
  BY AttackOf
<1>2. Class(g.state) \in Host!Moves /\ Class(h.state) \in Host!Moves
  BY ClassStates
<1>3. CASE SameMove(g.state, h.state)
  <2>1. Class(h.state) = Class(g.state)
    BY <1>3, ClassNames DEF SameMove
  <2>2. \A m \in Host!Moves : m \in Host!TickMoves(m)
    BY DEF Host!Moves, Host!Classes, Host!TickMoves
  <2> QED BY <1>1, <1>2, <2>1, <2>2
<1>4. CASE g.state = "DIVE_CATCH" /\ h.state = "DIVE_THROW"
  <2>1. emit_attack(h) = "none"
    BY <1>4, AttackOf
  <2> QED BY <1>4, <2>1, ClassNames DEF Host!TickMoves
<1>5. CASE g.state = "KICK_GROUND" /\ h.state = "KICK_GROUND_AIR"
  <2>1. emit_attack(h) = "none"
    BY <1>5, AttackOf
  <2> QED BY <1>5, <2>1, ClassNames DEF Host!TickMoves
<1>6. CASE g.state \in Bound /\ h.state \in Ends
  <2>1. emit_attack(h) = "none"
    BY <1>6, AttackOf
  <2>2. Class(g.state) \in {"dive", "catch"} /\ Class(h.state) = "idle"
    BY <1>6, ClassNames DEF Bound
  <2> QED BY <2>1, <2>2 DEF Host!TickMoves
<1>7. CASE g.state \notin Bound /\ (Begun(h) \/ h.state \in Quiet)
  <2>1. emit_attack(h) = "none"
    BY <1>7, AttackOf DEF Begun
  <2>2. Class(g.state) \notin {"dive", "catch"}
    BY <1>7, ClassStates DEF Bound
  <2>3. h.state \in Started
    BY <1>7 DEF Begun, Quiet
  <2>4. Class(h.state) \notin {"catch", "throw"}
    BY <2>3, ClassStates DEF Started
  <2>5. Class(h.state) \in Host!Classes
    BY <1>2, <2>4 DEF Host!Moves
  <2>6. Class(h.state) \in Host!TickMoves(Class(g.state))
    BY <2>2, <2>5 DEF Host!TickMoves, Host!Classes
  <2> QED BY <1>1, <2>1, <2>6
<1> QED BY <1>3, <1>4, <1>5, <1>6, <1>7 DEF Follows

(* And so is everything that a collision makes of him.                     *)
LEMMA ResolveAbstracted ==
  ASSUME NEW g \in Fighter, Suits(g.state, g.grounded), NEW hit \in HitSet,
         NEW h, h = falcon_resolve(g, hit)
  PROVE  Class(h.state) \in
           Host!ResolveMoves(Class(g.state), [hit EXCEPT !.imposed = @ # "none"])
<1> DEFINE m == Class(g.state)
           k == [hit EXCEPT !.imposed = @ # "none"]
<1>1. /\ k.grounded = hit.grounded /\ k.wall = hit.wall /\ k.connected = hit.connected
      /\ k.imposed <=> hit.imposed # "none"
  BY DEF HitSet
<1>2. Host!ResolveMoves(m, k) =
        IF k.connected /\ m = "dive" THEN {"catch"}
        ELSE IF k.wall /\ m = "kick" /\ k.grounded THEN {"idle"}
        ELSE IF k.grounded /\ ~k.imposed
        THEN CASE m = "kickair" -> {"idle"}
               [] m \in {"idle", "punch", "kick"} -> {m}
               [] OTHER -> {m, "idle"}
        ELSE {m} \cup {"idle"} \cup IF m = "kick" THEN {"run"} ELSE {}
  BY DEF Host!ResolveMoves
<1>3. m = "dive" <=> g.state \in Dives
  BY ClassStates
<1> HIDE DEF k, m
<1>4. CASE hit.connected /\ g.state \in Dives
  <2>1. h.state = "DIVE_CATCH"
    BY <1>4, ResolveMoves
  <2> QED BY <1>1, <1>2, <1>3, <1>4, <2>1, ClassNames DEF k, m
<1>5. CASE ~(hit.connected /\ g.state \in Dives)
  <2>1. m = "kick" <=> g.state = "KICK_GROUND"
    BY ClassStates DEF m
  <2>2. m = "kickair" <=> g.state = "KICK_AIR"
    BY ClassStates DEF m
  <2>3. m = "punch" <=> g.state \in Punches
    BY ClassStates DEF m
  <2>4. Host!ResolveMoves(m, k) =
          IF hit.wall /\ m = "kick" /\ hit.grounded THEN {"idle"}
          ELSE IF hit.grounded /\ hit.imposed = "none"
          THEN CASE m = "kickair" -> {"idle"}
                 [] m \in {"idle", "punch", "kick"} -> {m}
                 [] OTHER -> {m, "idle"}
          ELSE {m} \cup {"idle"} \cup IF m = "kick" THEN {"run"} ELSE {}
    BY <1>1, <1>2, <1>3, <1>5
  <2>5. CASE /\ Kept(h, g)
             /\ ~(hit.wall /\ is_falcon_kick_wall_state(g.state))
             /\ g.state = "KICK_AIR" => ~hit.grounded \/ hit.imposed = "up"
    <3>1. Class(h.state) = m /\ (m = "kick" => ~hit.wall)
      BY <2>1, <2>5 DEF Kept, m, is_falcon_kick_wall_state
    <3>2. m = "kickair" => ~hit.grounded \/ hit.imposed # "none"
      BY <2>2, <2>5
    <3> QED BY <2>4, <3>1, <3>2 DEF k, m
  <2>6. CASE g.state = "PUNCH_AIR" /\ h.state = "PUNCH_GROUND"
    <3>1. Class(h.state) = "punch" /\ m = "punch"
      BY <2>6, ClassNames DEF Punches, m
    <3> QED BY <2>4, <3>1 DEF k, m
  <2>7. CASE /\ ~hit.grounded /\ ~hit.wall
             /\ g.state = "KICK_GROUND" /\ h.state = "KICK_GROUND_AIR"
    <3>1. Class(h.state) = "run" /\ m = "kick"
      BY <2>1, <2>7, ClassNames
    <3> QED BY <2>4, <2>7, <3>1 DEF k, m
  <2>8. CASE /\ h.state \in {"WAIT", "DIVE_LANDING"} \cup Landings \cup Falls
             /\ \/ ~hit.grounded
                \/ hit.wall /\ is_falcon_kick_wall_state(g.state)
                \/ g.state \notin Punches \cup {"KICK_GROUND"}
    <3>1. Class(h.state) = "idle"
      BY <2>8, ClassNames
    <3>2. hit.grounded /\ m \in {"punch", "kick"} => hit.wall /\ m = "kick"
      BY <2>1, <2>3, <2>8 DEF is_falcon_kick_wall_state, Punches
    <3> QED BY <2>4, <3>1, <3>2 DEF k, m
  <2> QED BY <1>5, <2>5, <2>6, <2>7, <2>8, ResolveMoves
<1> QED BY <1>4, <1>5

(* The host boundary is checked against a fighter that may do all that     *)
(* this one does: FalconMoves allows every tick of falcon_tick and every   *)
(* collision result of falcon_resolve.                                     *)
THEOREM MovesAreAbstracted == Spec => MovesAbstracted
<1>1. Init => FighterInv /\ CuesInv
  BY InitInv, InitCues
<1>2. (FighterInv /\ CuesInv) /\ [Next]_vars => (FighterInv /\ CuesInv)'
  BY NextInv, NextCues
<1>3. (FighterInv /\ CuesInv) /\ (FighterInv /\ CuesInv)' /\ [Next]_vars =>
      [LET old == Class(f.state)
           new == Class(f'.state)
       IN  IF phase = "tick"
           THEN /\ new \in Host!TickMoves(old)
                /\ attack' \in IF new = old THEN Host!Attacks(new) ELSE {"none"}
           ELSE \A hit \in Hits :
                  falcon_resolve(f, hit) = f' =>
                    new \in Host!ResolveMoves(old, [hit EXCEPT !.imposed = @ # "none"])]_vars
  <2> SUFFICES ASSUME FighterInv, CuesInv, (FighterInv /\ CuesInv)', [Next]_vars,
                      ~(UNCHANGED vars)
               PROVE  LET old == Class(f.state)
                          new == Class(f'.state)
                      IN  IF phase = "tick"
                          THEN /\ new \in Host!TickMoves(old)
                               /\ attack' \in IF new = old THEN Host!Attacks(new) ELSE {"none"}
                          ELSE \A hit \in Hits :
                                 falcon_resolve(f, hit) = f' =>
                                   new \in Host!ResolveMoves(old, [hit EXCEPT !.imposed = @ # "none"])
    OBVIOUS
  <2>1. f \in Fighter /\ Suits(f.state, f.grounded)
    BY DEF FighterInv, Ready
  <2>2. CASE \E in \in Inputs, cause \in AirCauses : Tick(in, cause = "none", cause)
    <3>1. PICK in \in Inputs, cause \in AirCauses : Tick(in, cause = "none", cause)
      BY <2>2
    <3>2. (cause = "none") \in BOOLEAN
      OBVIOUS
    <3>3. Follows(f, f') /\ attack' = emit_attack(f')
      BY <3>1, <3>2, TickIsFollowing
    <3>4. f'.state # "KICK_LANDING" /\ phase = "tick"
      BY <3>1 DEF CuesInv, Tick
    <3>5. /\ Class(f'.state) \in Host!TickMoves(Class(f.state))
          /\ emit_attack(f') \in IF Class(f'.state) = Class(f.state)
                                 THEN Host!Attacks(Class(f'.state)) ELSE {"none"}
      BY <3>3, <3>4, TickAbstracted
    <3> QED BY <3>3, <3>4, <3>5
  <2>3. CASE \E hit \in Hits : Resolve(hit)
    <3>1. phase # "tick"
      BY <2>3 DEF Resolve
    <3>2. ASSUME NEW hit \in Hits, falcon_resolve(f, hit) = f'
          PROVE  Class(f'.state) \in
                   Host!ResolveMoves(Class(f.state), [hit EXCEPT !.imposed = @ # "none"])
      <4>1. hit \in HitSet
        BY HitsAssumption DEF HitSet
      <4> QED BY <2>1, <3>2, <4>1, ResolveAbstracted
    <3> QED BY <3>1, <3>2
  <2> QED BY <2>2, <2>3 DEF Next
<1> QED BY <1>1, <1>2, <1>3, PTL DEF Spec, MovesAbstracted
=============================================================================
