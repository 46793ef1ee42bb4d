-------------------------- MODULE FalconSeamsProofs ---------------------------
(* The parts of Captain Falcon's boundary beside FalconHost, for any length *)
(* of a fall, of a level and of the net's memory, and for any window of the *)
(* double tap: what is drawn for the player (FalconShow), the walls that    *)
(* hold the fighter (FalconWall), the pad he is given (FalconPad) and the   *)
(* tiles that a special breaks (FalconBlocks).                              *)
EXTENDS FalconSeams, FiniteSetTheorems, TLAPS

-----------------------------------------------------------------------------
(* The picture.  Until it is rastered a frame has no mesh, and its objects *)
(* are taken out only when there is something to draw, and stay only when  *)
(* there is nothing or the PPU refused; while a fall is latched and not    *)
(* hidden, as many of its pictures have passed as its frame says, and a    *)
(* hidden one has passed them all.                                         *)

Refusals == {"capture", "state", "mesh"}

ShowTypes ==
  /\ s_last \in Show!Poses
  /\ s_death \in [latched : BOOLEAN, hidden : BOOLEAN, frame : Nat]
  /\ s_ghost \in [refused : SUBSET Refusals, fall : Nat]

Fall(death, fall) ==
  /\ death.hidden => death.latched /\ fall = FallFrames
  /\ death.latched /\ ~death.hidden => fall = death.frame
  /\ ~death.latched => fall = 0
  /\ fall <= FallFrames

Before ==
  /\ s_at \in {"boot", "mixer", "frame"} => s_mesh = "none" /\ ~s_removed
  /\ s_at = "raster" =>
       /\ s_mesh = "none"
       /\ s_removed => Show!presentation_active
       /\ ~s_removed /\ Show!presentation_active => "capture" \in s_ghost.refused

ShowInv ==
  ShowTypes /\ Fall(s_death, s_ghost.fall) /\ Before /\ Show!RefusalsAccount

LEMMA ShowStarts == Show!Init => ShowInv
BY SeamAssumption
   DEF Show!Init, Show!Alive, ShowInv, ShowTypes, Fall, Before, Refusals,
       Show!Poses, Show!RefusalsAccount

(* What is said of a picture speaks of the game and the mesh alone.        *)
LEMMA GatesStay ==
  ASSUME UNCHANGED <<s_cache, s_game, s_own>>
  PROVE  /\ Show!death_active' = Show!death_active
         /\ Show!presentation_active' = Show!presentation_active
BY DEF Show!death_active, Show!presentation_active, Show!controllable,
       Show!course_clear_active, Show!powerup_animation_active,
       Show!scripted_water_active, Show!scripted_pipe_active, Show!Level

(* A drawn picture of a death is one more of its fall, until the body is   *)
(* hidden; control alone lets the next death begin another.                *)
LEMMA FallGoesOn ==
  ASSUME ShowTypes, Fall(s_death, s_ghost.fall), NEW pose, Show!Present(pose)
  PROVE  /\ s_death' \in [latched : BOOLEAN, hidden : BOOLEAN, frame : Nat]
         /\ s_ghost'.fall \in Nat
         /\ Fall(s_death', s_ghost'.fall)
<1> DEFINE fall == s_ghost.fall
<1>1. /\ s_death' = IF Show!death_active THEN Show!Fallen ELSE Show!Over
      /\ s_ghost'.fall = Show!FallAfter
  BY DEF Show!Present
<1>2. /\ s_death.latched \in BOOLEAN /\ s_death.hidden \in BOOLEAN
      /\ s_death.frame \in Nat /\ fall \in Nat /\ FallFrames \in Nat
  BY SeamAssumption DEF ShowTypes
<1>3. CASE Show!death_active
  <2>1. PICK b : b = Show!Begun
    OBVIOUS
  <2>2. /\ b \in [latched : BOOLEAN, hidden : BOOLEAN, frame : Nat]
        /\ b.latched
        /\ b.hidden => fall = FallFrames
        /\ ~b.hidden => fall = b.frame
        /\ fall <= FallFrames
    BY <1>2, <2>1 DEF Show!Begun, ShowTypes, Fall
  <2>3. /\ s_death' \in [latched : BOOLEAN, hidden : BOOLEAN, frame : Nat]
        /\ s_death'.latched
        /\ s_death'.hidden = (b.hidden \/ b.frame >= FallFrames)
        /\ s_death'.frame = IF b.frame < FallFrames THEN b.frame + 1 ELSE b.frame
    <3>1. s_death' = [b EXCEPT !.hidden = b.hidden \/ b.frame >= FallFrames,
                               !.frame = IF b.frame < FallFrames THEN b.frame + 1 ELSE b.frame]
      BY ONLY <1>1, <1>3, <2>1 DEF Show!Fallen
    <3>2. b.frame \in Nat /\ b.hidden \in BOOLEAN
      BY <2>2
    <3>3. /\ (b.hidden \/ b.frame >= FallFrames) \in BOOLEAN
          /\ (IF b.frame < FallFrames THEN b.frame + 1 ELSE b.frame) \in Nat
      BY <1>2, <3>2
    <3>4. /\ s_death' \in [latched : BOOLEAN, hidden : BOOLEAN, frame : Nat]
          /\ s_death'.latched = b.latched
          /\ s_death'.hidden = (b.hidden \/ b.frame >= FallFrames)
          /\ s_death'.frame = IF b.frame < FallFrames THEN b.frame + 1 ELSE b.frame
      BY ONLY <2>2, <3>1, <3>3
    <3> QED BY <2>2, <3>4
  <2>4. s_ghost'.fall = IF s_death'.hidden THEN fall ELSE fall + 1
    BY <1>1, <1>3 DEF Show!FallAfter
  <2>5. b.frame \in Nat /\ b.hidden \in BOOLEAN
    BY <2>2
  <2>6. CASE s_death'.hidden
    BY <1>2, <2>2, <2>3, <2>4, <2>5, <2>6 DEF Fall
  <2>7. CASE ~s_death'.hidden
    BY <1>2, <2>2, <2>3, <2>4, <2>5, <2>7 DEF Fall
  <2> QED BY <2>6, <2>7
<1>4. CASE ~Show!death_active /\ Show!controllable
  <2>1. s_death' = [latched |-> FALSE, hidden |-> FALSE, frame |-> 0]
    BY <1>1, <1>4 DEF Show!Over, Show!Alive
  <2>2. s_ghost'.fall = 0
    BY <1>1, <1>4 DEF Show!FallAfter
  <2> QED BY <1>2, <2>1, <2>2 DEF Fall
<1>5. CASE ~Show!death_active /\ ~Show!controllable
  <2>1. s_death' = s_death /\ s_ghost'.fall = fall
    BY <1>1, <1>5 DEF Show!Over, Show!FallAfter
  <2> QED BY <1>2, <2>1 DEF Fall, ShowTypes
<1> QED BY <1>3, <1>4, <1>5

LEMMA ShowPresents ==
  ASSUME ShowInv, Show!smw_falcon_presentation_present PROVE ShowInv'
<1>1. /\ s_at = "raster" /\ s_at' = "shown" /\ s_removed' = s_removed
      /\ UNCHANGED <<s_cache, s_game, s_own>>
  BY DEF Show!smw_falcon_presentation_present
<1>2. /\ s_mesh = "none"
      /\ s_removed => Show!presentation_active
      /\ ~s_removed /\ Show!presentation_active => "capture" \in s_ghost.refused
      /\ ShowTypes /\ Fall(s_death, s_ghost.fall)
  BY <1>1 DEF ShowInv, Before
<1>3. Before'
  BY <1>1 DEF Before
<1>4. CASE Show!PresentNothing
  <2>1. s_mesh' = "none" /\ s_last' = s_last /\ s_death' = s_death
    BY <1>4 DEF Show!PresentNothing
  <2>2. s_ghost'.fall = s_ghost.fall /\ s_ghost' \in [refused : SUBSET Refusals, fall : Nat]
    BY <1>2, <1>4 DEF Show!PresentNothing, ShowTypes, Refusals
  <2>3. Show!presentation_active => "state" \in s_ghost'.refused
    BY <1>2, <1>4 DEF Show!PresentNothing, ShowTypes
  <2>4. Show!RefusalsAccount'
    BY <1>1, <1>2, <2>1, <2>3 DEF Show!RefusalsAccount
  <2> QED BY <1>2, <1>3, <2>1, <2>2, <2>4 DEF ShowInv, ShowTypes, Fall
<1>5. ASSUME Show!presentation_active,
             NEW state \in BOOLEAN, NEW pose \in Show!PosesNow(state), Show!Present(pose)
      PROVE  ShowInv'
  <2>1. pose \in Show!Poses /\ pose # "none" /\ s_last' = pose
    BY <1>2, <1>5
       DEF Show!PosesNow, Show!FighterPoses, Show!Poses, Show!Present, ShowTypes
  <2>2. PICK accepted \in BOOLEAN :
          /\ s_mesh' = IF accepted THEN Show!Shown(s_death', pose) ELSE "none"
          /\ s_ghost'.refused = IF accepted THEN s_ghost.refused
                                ELSE s_ghost.refused \cup {"mesh"}
          /\ s_ghost' = [refused |-> s_ghost'.refused, fall |-> s_ghost'.fall]
    BY <1>5 DEF Show!Present
  <2>3. /\ s_death' \in [latched : BOOLEAN, hidden : BOOLEAN, frame : Nat]
        /\ s_ghost'.fall \in Nat /\ Fall(s_death', s_ghost'.fall)
    BY <1>2, <1>5, FallGoesOn
  <2>4. s_ghost'.refused \in SUBSET Refusals /\ s_ghost.refused \subseteq s_ghost'.refused
    BY <1>2, <2>2 DEF ShowTypes, Refusals
  <2>5. ShowTypes'
    BY <2>1, <2>2, <2>3, <2>4 DEF ShowTypes
  <2>6. s_removed' \/ "capture" \in s_ghost'.refused
    BY <1>1, <1>2, <1>5, <2>4
  <2>7. CASE accepted
    <3>1. s_mesh' = "none" => Show!death_active' /\ s_death'.hidden
      BY <1>1, <2>1, <2>2, <2>7, GatesStay DEF Show!Shown
    <3> QED BY <1>3, <2>3, <2>5, <2>6, <3>1 DEF ShowInv, Show!RefusalsAccount
  <2>8. CASE ~accepted
    <3>1. s_mesh' = "none" /\ "mesh" \in s_ghost'.refused
      BY <2>2, <2>8
    <3> QED BY <1>3, <2>3, <2>5, <2>6, <3>1 DEF ShowInv, Show!RefusalsAccount
  <2> QED BY <2>7, <2>8
<1> QED BY <1>4, <1>5 DEF Show!smw_falcon_presentation_present

LEMMA ShowPrepares ==
  ASSUME ShowInv, Show!smw_falcon_presentation_prepare_ppu PROVE ShowInv'
<1>1. /\ s_at = "frame" /\ s_at' = "raster"
      /\ UNCHANGED <<s_cache, s_game, s_own, s_mesh, s_last, s_death>>
  BY DEF Show!smw_falcon_presentation_prepare_ppu
<1>2. ShowTypes /\ Fall(s_death, s_ghost.fall) /\ s_mesh = "none"
  BY <1>1 DEF ShowInv, Before
<1>3. Show!RefusalsAccount'
  BY <1>1 DEF Show!RefusalsAccount
<1>4. CASE ~Show!presentation_active
  <2>1. ~s_removed' /\ s_ghost' = s_ghost
    BY <1>4 DEF Show!smw_falcon_presentation_prepare_ppu
  <2>2. Before'
    BY <1>1, <1>2, <1>4, <2>1, GatesStay DEF Before
  <2> QED BY <1>1, <1>2, <1>3, <2>1, <2>2 DEF ShowInv, ShowTypes
<1>5. CASE Show!presentation_active /\ Show!Suppressed
  <2>1. s_removed' /\ s_ghost' = s_ghost
    BY <1>5 DEF Show!Suppressed
  <2>2. Before'
    BY <1>1, <1>2, <1>5, <2>1, GatesStay DEF Before
  <2> QED BY <1>1, <1>2, <1>3, <2>1, <2>2 DEF ShowInv, ShowTypes
<1>6. CASE Show!presentation_active /\ Show!Unsuppressed
  <2>1. /\ s_ghost'.fall = s_ghost.fall /\ "capture" \in s_ghost'.refused
        /\ s_ghost' \in [refused : SUBSET Refusals, fall : Nat]
    BY <1>2, <1>6 DEF Show!Unsuppressed, ShowTypes, Refusals
  <2>2. Before'
    BY <1>1, <1>2, <1>6, <2>1, GatesStay DEF Before
  <2> QED BY <1>1, <1>2, <1>3, <2>1, <2>2 DEF ShowInv, ShowTypes
<1> QED BY <1>4, <1>5, <1>6 DEF Show!smw_falcon_presentation_prepare_ppu

LEMMA ShowSteps == ASSUME ShowInv, [Show!Next]_(Show!vars) PROVE ShowInv'
<1>1. CASE Show!smw_falcon_presentation_activate
  BY <1>1 DEF ShowInv, ShowTypes, Before, Show!smw_falcon_presentation_activate,
              Show!RefusalsAccount
<1>2. CASE Show!smw_falcon_presentation_audio_ready
  BY <1>2 DEF ShowInv, ShowTypes, Before, Show!smw_falcon_presentation_audio_ready,
              Show!RefusalsAccount
<1>3. CASE Show!Frame
  <2>1. /\ s_at' = "frame" /\ s_mesh' = "none" /\ ~s_removed'
        /\ UNCHANGED <<s_last, s_death>>
        /\ s_ghost' = [s_ghost EXCEPT !.refused = {}]
    BY <1>3 DEF Show!Frame
  <2>2. s_ghost' \in [refused : SUBSET Refusals, fall : Nat] /\ s_ghost'.fall = s_ghost.fall
    BY <2>1 DEF ShowInv, ShowTypes
  <2> QED BY <2>1, <2>2 DEF ShowInv, ShowTypes, Before, Show!RefusalsAccount
<1>4. CASE Show!smw_falcon_presentation_prepare_ppu
  BY <1>4, ShowPrepares
<1>5. CASE Show!NotPresented
  BY <1>5 DEF ShowInv, ShowTypes, Before, Show!NotPresented, Show!RefusalsAccount
<1>6. CASE Show!smw_falcon_presentation_present
  BY <1>6, ShowPresents
<1>7. CASE UNCHANGED Show!vars
  <2>1. /\ UNCHANGED <<s_at, s_cache, s_game, s_own, s_removed, s_mesh, s_last>>
        /\ UNCHANGED <<s_death, s_ghost>>
    BY <1>7 DEF Show!vars
  <2> QED BY <2>1, GatesStay DEF ShowInv, ShowTypes, Before, Show!RefusalsAccount
<1> QED BY <1>1, <1>2, <1>3, <1>4, <1>5, <1>6, <1>7 DEF Show!Next

(* Between two pictures in control a body falls once, is hidden only when  *)
(* it has fallen all the way, and a picture with both players or neither   *)
(* has its refusal, however long the fall                                  *)
(* (smw_falcon_presentation_prepare_ppu, _present).                        *)
THEOREM PicturesAreAccounted == Spec => []PicturesAccounted
<1>1. Init => ShowInv
  BY ShowStarts DEF Init
<1>2. ShowInv /\ [Next]_vars => ShowInv'
  <2>1. [Next]_vars => [Show!Next]_(Show!vars)
    BY DEF Next, vars, show, Show!vars
  <2> QED BY <2>1, ShowSteps
<1>3. ShowInv => PicturesAccounted
  BY DEF ShowInv, Fall, PicturesAccounted, Show!PicturesAccounted, Show!FallsOnce
<1> QED BY <1>1, <1>2, <1>3, PTL DEF Spec
-----------------------------------------------------------------------------
(* The wall.  A level has columns, the net remembers some notes and reaches *)
(* some distance; nothing else is asked of the three.                       *)
WallAssumption == Columns \in Nat \ {0} /\ SafetyNotes \in Nat /\ MaxDelta \in Nat

Bodies  == [x : Wall!Places, air : BOOLEAN, deep : BOOLEAN, side : Wall!Dirs,
            floor : BOOLEAN, crush : BOOLEAN, state : {"play", "script", "dead", "load"}]
Latches == [on : BOOLEAN, dir : Wall!Dirs, x : Wall!Places, air : BOOLEAN, side : Wall!Dirs]
Safes   == [valid : BOOLEAN, x : Wall!Places, side : Wall!Dirs,
            recent : 0 .. SafetyNotes, armed : BOOLEAN]
Snaps   == [x : Wall!Places, air : BOOLEAN, pending : BOOLEAN, dir : Wall!Dirs,
            motion : Wall!Dirs]
Notes   == [calm : Nat, saved : BOOLEAN, undone : Nat, jerk : Nat]

WallTypes ==
  /\ w_at \in {"frame", "D5F2", "DC2D", "body", "crush", "squeeze", "CD36", "80D2"}
  /\ w_p \in Bodies /\ w_own \in {"foreign", "scripted"} /\ w_cls \in {"run", "kick", "other"}
  /\ w_latch \in Latches /\ w_safe \in Safes /\ w_snap \in Snaps /\ w_ghost \in Notes

Colliding == w_at \in {"crush", "squeeze", "CD36"}

(* On the ground there is a floor, and only there are crushes and latches. *)
OnGround ==
  /\ w_p.floor = ~w_p.air /\ (w_p.crush => ~w_p.air)
  /\ w_latch.on => ~w_latch.air

(* Ground that was latched, or that a tick began on, is ground the net     *)
(* remembers, so that an ejection from it is undone.                       *)
GroundKnown ==
  /\ w_latch.on /\ w_latch.x # Wall!OOB => w_safe.valid
  /\ w_at = "body" \/ Colliding =>
       (~w_snap.air /\ w_snap.x # Wall!OOB => w_safe.valid)

(* In the collision a latched player stays where the tick began, and any    *)
(* other is at most a column from there, or out of bounds.                 *)
HeldInPlace ==
  /\ w_at = "body" \/ Colliding => (w_latch.on => w_latch.x = w_snap.x)
  /\ Colliding /\ w_p.x # Wall!OOB =>
       Wall!Abs(w_p.x - w_snap.x) <= 1 /\ (w_latch.on => w_p.x = w_snap.x)

(* The frame that prepares a level releases the latch.                     *)
LoadReleases ==
  w_p.state = "load" =>
    /\ w_at \in {"frame", "DC2D", "80D2"}
    /\ w_at # "DC2D" => ~w_latch.on

(* The latch stays where the player is: he ends the frame there and is     *)
(* carried by one column before the next tick.                             *)
LatchNear ==
  w_latch.on =>
    /\ w_at = "frame" => w_p.x = w_latch.x
    /\ w_at = "80D2" => w_p.x \in {w_latch.x, Wall!OOB}
    /\ w_at \in {"D5F2", "DC2D"} =>
         \/ w_p.state = "load" \/ w_p.x = Wall!OOB
         \/ Wall!Abs(w_p.x - w_latch.x) <= 1

(* Two notes of a calm tick are two that the hazard is remembered less.    *)
HazardFades ==
  /\ w_safe.recent # 0 => 2 * w_ghost.calm + w_safe.recent <= SafetyNotes
  /\ w_safe.armed => 2 * w_ghost.calm + w_safe.recent <= SafetyNotes + 1

WallInv ==
  /\ WallTypes /\ OnGround /\ GroundKnown /\ HeldInPlace /\ LoadReleases /\ LatchNear
  /\ HazardFades
  /\ w_at = "frame" => w_ghost.jerk = 0
  /\ Wall!WallsHold

LEMMA WallStarts == ASSUME WallAssumption, Wall!Init PROVE WallInv
<1>1. WallTypes
  BY DEF Wall!Init, Wall!NoLatch, Wall!NoSafety, WallAssumption, WallTypes, Bodies, Latches,
         Safes, Snaps, Notes, Wall!Places, Wall!Dirs
<1>2. OnGround /\ GroundKnown /\ HeldInPlace /\ LoadReleases /\ LatchNear /\ HazardFades
  BY DEF Wall!Init, Wall!NoLatch, Wall!NoSafety, OnGround, GroundKnown, HeldInPlace,
         LoadReleases, LatchNear, HazardFades, Colliding
<1>3. Wall!WallsHold
  BY DEF Wall!Init, Wall!NoLatch, WallAssumption, Wall!WallsHold, Wall!RescueNeedsHazard,
         Wall!LatchHoldsColumn, Wall!LatchMovesOneColumn
<1>4. w_ghost.jerk = 0
  BY DEF Wall!Init
<1> QED BY <1>1, <1>2, <1>3, <1>4 DEF WallInv

-----------------------------------------------------------------------------
(* The net's bookkeeping.                                                  *)

(* A note keeps the ground; on clear ground it takes one from the memory,  *)
(* and the hazard with the last of it unless the fighter runs.             *)
LEMMA Noted ==
  ASSUME WallAssumption, w_p \in Bodies, NEW s \in Safes, NEW l \in Latches, NEW c,
         NEW y, y = Wall!note_wall_safety_context(s, l, c)
  PROVE  /\ y \in Safes /\ y.valid = s.valid /\ y.x = s.x
         /\ ~w_p.air /\ w_p.floor /\ w_p.side = 0 /\ ~l.on =>
              /\ s.recent # 0 => y.recent = s.recent - 1 /\ y.armed = s.armed
              /\ s.recent = 0 => y.recent = 0 /\ (y.armed <=> s.armed /\ c = "run")
<1>1. s.recent \in 0 .. SafetyNotes /\ s.armed \in BOOLEAN /\ w_p.air \in BOOLEAN
      /\ w_p.floor \in BOOLEAN
  BY DEF Safes, Bodies
<1>2. CASE ~w_p.air /\ (w_p.side # 0 \/ l.on)
  <2>1. y = [s EXCEPT !.armed = TRUE, !.recent = SafetyNotes]
    BY <1>2 DEF Wall!note_wall_safety_context
  <2>2. SafetyNotes \in 0 .. SafetyNotes
    BY DEF WallAssumption
  <2>3. y \in Safes /\ y.valid = s.valid /\ y.x = s.x
    BY <2>1, <2>2 DEF Safes
  <2> QED BY <1>2, <2>3
<1>3. CASE ~(~w_p.air /\ (w_p.side # 0 \/ l.on)) /\ s.recent # 0
  <2>1. y = [s EXCEPT !.recent = @ - 1]
    BY <1>3 DEF Wall!note_wall_safety_context
  <2>2. s.recent - 1 \in 0 .. SafetyNotes
    BY <1>1, <1>3 DEF WallAssumption
  <2>3. y \in Safes /\ y.valid = s.valid /\ y.x = s.x /\ y.recent = s.recent - 1
        /\ y.armed = s.armed
    BY <2>1, <2>2 DEF Safes
  <2> QED BY <1>3, <2>3
<1>4. CASE ~(~w_p.air /\ (w_p.side # 0 \/ l.on)) /\ s.recent = 0
  <2> DEFINE b == s.armed /\ (w_p.air \/ ~w_p.floor \/ c = "run")
  <2>1. y = [s EXCEPT !.armed = b]
    BY <1>4 DEF Wall!note_wall_safety_context, Wall!ground_run_wall_state
  <2>2. b \in BOOLEAN
    OBVIOUS
  <2>3. ~w_p.air /\ w_p.floor => (b <=> s.armed /\ c = "run")
    OBVIOUS
  <2> HIDE DEF b
  <2>4. y \in Safes /\ y.valid = s.valid /\ y.x = s.x /\ y.recent = s.recent /\ y.armed = b
    BY <2>1, <2>2 DEF Safes
  <2> QED BY <1>4, <2>3, <2>4
<1> QED BY <1>2, <1>3, <1>4

(* Ground that is stood on in bounds is remembered.                        *)
LEMMA Remembered ==
  ASSUME NEW s \in Safes, NEW q \in Bodies, NEW y, y = Wall!remember_wall_safe_ground(s, q)
  PROVE  /\ y \in Safes /\ y.recent = s.recent /\ y.armed = s.armed
         /\ s.valid => y.valid
         /\ q.state = "play" /\ ~q.air /\ q.floor /\ q.x # Wall!OOB => y.valid
<1>1. q.x \in Wall!Places /\ q.side \in Wall!Dirs
  BY DEF Bodies
<1>2. CASE q.state = "play" /\ ~q.air /\ q.floor /\ q.x # Wall!OOB
  <2>1. y = [s EXCEPT !.valid = TRUE, !.x = q.x, !.side = q.side]
    BY <1>2 DEF Wall!remember_wall_safe_ground
  <2> QED BY <1>1, <2>1 DEF Safes
<1>3. CASE ~(q.state = "play" /\ ~q.air /\ q.floor /\ q.x # Wall!OOB)
  BY <1>3 DEF Wall!remember_wall_safe_ground
<1> QED BY <1>2, <1>3

-----------------------------------------------------------------------------
(* The tick.  What it keeps latched was latched already: what is taken at  *)
(* the wall the player stands at is released by the neutral stick.         *)
LEMMA TickLatches ==
  ASSUME WallAssumption, WallInv, NEW dir \in Wall!Dirs, NEW jump \in BOOLEAN,
         NEW l0, l0 = IF Wall!Foreign THEN w_latch ELSE Wall!NoLatch,
         NEW stopped,
         stopped <=> (~l0.on /\ ~w_p.air /\ dir # 0 /\ w_p.floor /\ w_p.side = dir),
         NEW l1, l1 = IF stopped THEN Wall!install_current_step_wall_latch(w_p, dir) ELSE l0,
         NEW stick, stick = IF stopped THEN 0 ELSE dir,
         NEW l2, l2 = IF Wall!StillHeld(l1, stick, jump) THEN l1 ELSE Wall!NoLatch
  PROVE  /\ l0 \in Latches /\ l1 \in Latches /\ l2 \in Latches
         /\ l0.on => w_latch.on
         /\ stopped => ~l2.on /\ l1.x = w_p.x /\ ~l1.air /\ ~w_p.air
         /\ l2.on => ~w_p.air /\ w_latch.on /\ l2 = w_latch /\ l1 = l2 /\ ~l2.air
<1>1. w_latch \in Latches /\ w_p \in Bodies /\ OnGround
  BY DEF WallInv, WallTypes
<1>2. Wall!NoLatch \in Latches /\ ~Wall!NoLatch.on
  <2>1. 0 \in Wall!Places /\ 0 \in Wall!Dirs
    BY DEF WallAssumption, Wall!Places, Wall!Dirs
  <2> QED BY <2>1 DEF Wall!NoLatch, Latches
<1>3. l0 \in Latches /\ (l0.on => w_latch.on /\ l0 = w_latch)
  BY <1>1, <1>2
<1>4. CASE stopped
  <2>1. l1 = [on |-> TRUE, dir |-> dir, x |-> w_p.x, air |-> w_p.air, side |-> w_p.side]
    BY <1>4 DEF Wall!install_current_step_wall_latch
  <2>2. w_p.x \in Wall!Places /\ w_p.air \in BOOLEAN /\ w_p.side \in Wall!Dirs
    BY <1>1 DEF Bodies
  <2>3. [on |-> TRUE, dir |-> dir, x |-> w_p.x, air |-> w_p.air, side |-> w_p.side] \in Latches
    BY <2>2 DEF Latches
  <2>4. l1 \in Latches /\ l1.dir = dir /\ l1.x = w_p.x /\ ~l1.air /\ ~w_p.air /\ dir # 0
    <3>1. ~w_p.air /\ dir # 0
      BY <1>4
    <3>2. l1.dir = dir /\ l1.x = w_p.x /\ l1.air = w_p.air
      BY <2>1
    <3>3. l1 \in Latches
      BY <2>1, <2>3
    <3> QED BY <3>1, <3>2, <3>3
  <2>5. ~Wall!StillHeld(l1, stick, jump)
    BY <1>4, <2>4 DEF Wall!StillHeld
  <2> QED BY <1>2, <1>3, <2>4, <2>5
<1>5. CASE ~stopped
  <2>1. l1 = l0
    BY <1>5
  <2>2. l2.on => l2 = l0 /\ l0.on /\ ~w_p.air
    BY <1>2, <2>1 DEF Wall!StillHeld
  <2>3. l2 \in Latches
    BY <1>2, <1>3, <2>1
  <2> QED BY <1>1, <1>3, <1>5, <2>1, <2>2, <2>3 DEF OnGround
<1> QED BY <1>4, <1>5

LEMMA Distance ==
  ASSUME NEW i \in Int, NEW k \in Int
  PROVE  /\ Wall!Abs(i - k) \in Nat /\ Wall!Abs(i - k) = Wall!Abs(k - i)
         /\ i = k => Wall!Abs(i - k) = 0
BY DEF Wall!Abs

(* The tick.                                                               *)
LEMMA WallTicks ==
  ASSUME WallAssumption, WallInv, NEW dir \in Wall!Dirs, NEW jump \in BOOLEAN,
         Wall!SmwFalconBeforePhysics(dir, jump)
  PROVE  WallInv'
<1> DEFINE l0 == IF Wall!Foreign THEN w_latch ELSE Wall!NoLatch
           n == Wall!note_wall_safety_context(w_safe, l0, w_cls)
           s0 == Wall!remember_wall_safe_ground(n, w_p)
           stopped == ~l0.on /\ ~w_p.air /\ dir # 0 /\ w_p.floor /\ w_p.side = dir
           l1 == IF stopped THEN Wall!install_current_step_wall_latch(w_p, dir) ELSE l0
           stick == IF stopped THEN 0 ELSE dir
           l2 == IF Wall!StillHeld(l1, stick, jump) THEN l1 ELSE Wall!NoLatch
           put == stopped \/ l2.on
           q == IF put THEN Wall!restore_step_wall_latch(w_p, l1) ELSE w_p
<1>1. /\ w_at = "DC2D" /\ w_at' = "body" /\ w_p.state = "play"
      /\ w_own' = "foreign" /\ w_latch' = l2 /\ w_p' = [q EXCEPT !.deep = FALSE]
      /\ w_cls' \in Wall!Ticked(IF l2.on THEN 0 ELSE stick)
      /\ w_safe' = Wall!note_wall_safety_context(s0, l2, w_cls')
      /\ w_ghost' = [w_ghost EXCEPT !.calm = Wall!Calm(w_safe), !.jerk = Wall!Jerk(q)]
  BY DEF Wall!SmwFalconBeforePhysics, Wall!playable, Wall!Seam
<1>2. PICK motion \in Wall!Dirs :
        w_snap' = [x |-> q.x, air |-> q.air, pending |-> TRUE, dir |-> dir, motion |-> motion]
  BY DEF Wall!SmwFalconBeforePhysics
<1>3. /\ w_p \in Bodies /\ w_latch \in Latches /\ w_safe \in Safes /\ w_ghost \in Notes
      /\ w_snap \in Snaps /\ OnGround /\ GroundKnown /\ LatchNear /\ HazardFades
      /\ w_cls' \in {"run", "kick", "other"}
  BY <1>1 DEF WallInv, WallTypes, Wall!Ticked
<1>4. /\ l0 \in Latches /\ l1 \in Latches /\ l2 \in Latches
      /\ l0.on => w_latch.on
      /\ stopped => ~l2.on /\ l1.x = w_p.x /\ ~l1.air /\ ~w_p.air
      /\ l2.on => ~w_p.air /\ w_latch.on /\ l2 = w_latch /\ l1 = l2 /\ ~l2.air
  <2>1. /\ l0 = IF Wall!Foreign THEN w_latch ELSE Wall!NoLatch
        /\ stopped <=> (~l0.on /\ ~w_p.air /\ dir # 0 /\ w_p.floor /\ w_p.side = dir)
        /\ l1 = IF stopped THEN Wall!install_current_step_wall_latch(w_p, dir) ELSE l0
        /\ stick = IF stopped THEN 0 ELSE dir
        /\ l2 = IF Wall!StillHeld(l1, stick, jump) THEN l1 ELSE Wall!NoLatch
    OBVIOUS
  <2> HIDE DEF l0, stopped, l1, stick, l2
  <2> QED BY <2>1, TickLatches
<1>5. /\ n \in Safes /\ n.valid = w_safe.valid
      /\ ~w_p.air /\ w_p.floor /\ w_p.side = 0 /\ ~l0.on =>
           /\ w_safe.recent # 0 => n.recent = w_safe.recent - 1 /\ n.armed = w_safe.armed
           /\ w_safe.recent = 0 => n.recent = 0 /\ (n.armed <=> w_safe.armed /\ w_cls = "run")
  BY <1>3, <1>4, Noted
<1> HIDE DEF n
<1>6. /\ s0 \in Safes /\ s0.recent = n.recent /\ s0.armed = n.armed
      /\ w_safe.valid => s0.valid
      /\ w_p.state = "play" /\ ~w_p.air /\ w_p.floor /\ w_p.x # Wall!OOB => s0.valid
  BY <1>3, <1>5, Remembered
<1> HIDE DEF s0, l0, stick
<1>7. /\ w_safe' \in Safes /\ w_safe'.valid = s0.valid
      /\ ~w_p.air /\ w_p.floor /\ w_p.side = 0 /\ ~l2.on =>
           /\ s0.recent # 0 => w_safe'.recent = s0.recent - 1 /\ w_safe'.armed = s0.armed
           /\ s0.recent = 0 => w_safe'.recent = 0 /\ (w_safe'.armed <=> s0.armed /\ w_cls' = "run")
  BY <1>1, <1>3, <1>4, <1>6, Noted
<1> HIDE DEF l1, l2
<1>8. /\ w_p' \in Bodies /\ q.x \in Wall!Places /\ q.air \in BOOLEAN
      /\ w_p'.air = q.air /\ w_p'.floor = q.floor /\ w_p'.crush = q.crush /\ w_p'.x = q.x
      /\ put => q.x = l1.x /\ ~q.air /\ q.floor /\ ~q.crush
      /\ ~put => q = w_p
      /\ w_p'.state = "play"
  <2>1. w_p' = [q EXCEPT !.deep = FALSE] /\ w_p.state = "play"
    BY <1>1
  <2>2. CASE put
    <3>1. q = Wall!restore_step_wall_latch(w_p, l1) /\ ~l1.air
      BY <1>4, <2>2
    <3> HIDE DEF q, put
    <3>2. /\ w_p' \in Bodies /\ q \in Bodies
          /\ w_p'.air = q.air /\ w_p'.floor = q.floor /\ w_p'.crush = q.crush /\ w_p'.x = q.x
          /\ q.x = l1.x /\ ~q.air /\ q.floor /\ ~q.crush
          /\ w_p'.state = w_p.state
      <4>1. l1.x \in Wall!Places /\ l1.air = FALSE /\ l1.side \in Wall!Dirs /\ l1.air \in BOOLEAN
        BY <1>4, <3>1 DEF Latches
      <4>2. q = [w_p EXCEPT !.x = l1.x, !.air = l1.air, !.side = l1.side, !.floor = TRUE,
                            !.crush = FALSE]
        BY <3>1 DEF Wall!restore_step_wall_latch
      <4>3. /\ q \in Bodies /\ q.x = l1.x /\ q.floor = TRUE /\ q.crush = FALSE
            /\ q.air = FALSE /\ q.state = w_p.state
        BY <1>3, <4>1, <4>2 DEF Bodies
      <4> QED BY <2>1, <4>3 DEF Bodies
    <3> QED BY <2>1, <2>2, <3>2 DEF Bodies
  <2>3. CASE ~put
    <3>1. q = w_p
      BY <2>3
    <3> HIDE DEF q
    <3>2. w_p' \in Bodies /\ q \in Bodies
      BY <1>3, <2>1, <3>1 DEF Bodies
    <3> QED BY <1>3, <2>1, <2>3, <3>1, <3>2 DEF Bodies
  <2> QED BY <2>2, <2>3
<1> HIDE DEF q
<1>9. \/ put /\ q.x = w_p.x /\ ~l2.on /\ ~w_p.air
      \/ put /\ l2.on /\ w_latch.on /\ q.x = w_latch.x /\ l2.x = w_latch.x /\ ~w_p.air
      \/ ~put /\ q = w_p /\ ~l2.on
  BY <1>4, <1>8
<1> HIDE DEF put, stopped
<1>10. w_snap' \in Snaps /\ w_snap'.x = q.x /\ w_snap'.air = q.air
  BY <1>2, <1>8 DEF Snaps
<1>11. q.x \in Int /\ w_p.x \in Int /\ w_latch.x \in Int
  BY <1>3, <1>8 DEF Bodies, Latches, Wall!Places, WallAssumption
<1>12. Wall!Jerk(q) \in Nat
  BY <1>11, Distance DEF Wall!Jerk
<1>13. Wall!Jerk(q) <= 1
  <2>1. CASE q.x = w_p.x
    BY <2>1, <1>11, Distance DEF Wall!Jerk
  <2>2. CASE w_latch.on /\ q.x = w_latch.x
    <3>1. w_p.x = Wall!OOB \/ Wall!Abs(w_p.x - w_latch.x) <= 1
      BY <1>1, <1>3, <2>2 DEF LatchNear
    <3>2. Wall!Abs(w_latch.x - w_p.x) = Wall!Abs(w_p.x - w_latch.x)
      BY <1>11, Distance
    <3>3. w_p.x = Wall!OOB \/ Wall!Abs(q.x - w_p.x) <= 1
      BY <2>2, <3>1, <3>2
    <3>4. Wall!Abs(q.x - w_p.x) \in Nat
      BY <1>11, Distance
    <3> QED BY <3>3, <3>4 DEF Wall!Jerk
  <2> QED BY <1>9, <2>1, <2>2
<1>14. /\ Wall!Calm(w_safe) \in Nat
       /\ Wall!Calm(w_safe) # 0 =>
            /\ ~w_p.air /\ w_p.floor /\ w_p.side = 0 /\ ~w_latch.on /\ w_cls # "run"
            /\ Wall!Calm(w_safe) <= w_ghost.calm + 1
  BY <1>3 DEF Wall!Calm, Wall!ground_run_wall_state, Notes
<1>15. /\ w_ghost' \in Notes /\ w_ghost'.calm = Wall!Calm(w_safe) /\ w_ghost'.jerk = Wall!Jerk(q)
       /\ w_ghost'.undone = w_ghost.undone
  <2> DEFINE c == Wall!Calm(w_safe)
             j == Wall!Jerk(q)
  <2>1. w_ghost' = [w_ghost EXCEPT !.calm = c, !.jerk = j]
    BY <1>1
  <2>2. c \in Nat /\ j \in Nat
    BY <1>12, <1>14
  <2> HIDE DEF c, j
  <2>3. w_ghost' \in Notes /\ w_ghost'.calm = c /\ w_ghost'.jerk = j /\ w_ghost'.undone = w_ghost.undone
    BY <1>3, <2>1, <2>2 DEF Notes
  <2> QED BY <2>3 DEF c, j
<1>16. HazardFades'
  <2>1. w_safe'.recent \in 0 .. SafetyNotes /\ w_safe.recent \in 0 .. SafetyNotes
        /\ w_ghost.calm \in Nat /\ SafetyNotes \in Nat
    BY <1>3, <1>7 DEF Safes, Notes, WallAssumption
  <2>2. CASE w_ghost'.calm = 0
    BY <2>1, <2>2 DEF HazardFades
  <2>3. CASE w_ghost'.calm # 0
    <3>1. /\ ~w_p.air /\ w_p.floor /\ w_p.side = 0 /\ ~l0.on /\ ~l2.on /\ w_cls # "run"
          /\ w_ghost'.calm <= w_ghost.calm + 1 /\ w_ghost'.calm \in Nat
      BY <1>4, <1>14, <1>15, <2>3
    <3>2. CASE w_safe.recent = 0
      <4>1. w_safe'.recent = 0 /\ ~w_safe'.armed
        BY <1>5, <1>6, <1>7, <3>1, <3>2
      <4> QED BY <4>1 DEF HazardFades
    <3>3. CASE w_safe.recent = 1
      <4>1. n.recent = 0 /\ n.armed = w_safe.armed
        BY <1>5, <3>1, <3>3
      <4>2. w_safe'.recent = 0 /\ (w_safe'.armed => w_safe.armed)
        BY <1>6, <1>7, <3>1, <4>1
      <4> QED BY <1>3, <2>1, <3>1, <3>3, <4>2 DEF HazardFades
    <3>4. CASE w_safe.recent > 1
      <4>1. n.recent = w_safe.recent - 1 /\ n.recent # 0
        BY <1>5, <2>1, <3>1, <3>4
      <4>2. w_safe'.recent = w_safe.recent - 1 - 1
        BY <1>6, <1>7, <3>1, <4>1
      <4> QED BY <1>3, <2>1, <3>1, <3>4, <4>2 DEF HazardFades
    <3> QED BY <2>1, <3>2, <3>3, <3>4
  <2> QED BY <2>2, <2>3
<1>17. OnGround'
  <2>1. w_p.floor = ~w_p.air /\ (w_p.crush => ~w_p.air)
    BY <1>3 DEF OnGround
  <2>2. w_p'.floor \in BOOLEAN /\ w_p'.air \in BOOLEAN
    BY <1>8 DEF Bodies
  <2>3. w_p'.floor = ~w_p'.air /\ (w_p'.crush => ~w_p'.air)
    <3>1. CASE put
      BY <1>8, <2>2, <3>1
    <3>2. CASE ~put
      BY <1>8, <2>1, <3>2
    <3> QED BY <3>1, <3>2
  <2> QED BY <1>1, <1>4, <2>3 DEF OnGround
<1>18. GroundKnown'
  <2>1. w_latch.on /\ w_latch.x # Wall!OOB => w_safe'.valid
    BY <1>3, <1>6, <1>7 DEF GroundKnown
  <2>2. ~w_p.air /\ w_p.x # Wall!OOB => w_safe'.valid
    <3>1. ~w_p.air => w_p.floor
      BY <1>3 DEF OnGround
    <3> QED BY <1>1, <1>6, <1>7, <3>1
  <2>3. ~q.air /\ q.x # Wall!OOB => w_safe'.valid
    BY <1>9, <2>1, <2>2
  <2> QED BY <1>1, <1>9, <1>10, <2>1, <2>3 DEF GroundKnown, Wall!OOB
<1>19. HeldInPlace' /\ LoadReleases'
  BY <1>1, <1>8, <1>9, <1>10 DEF HeldInPlace, LoadReleases, Colliding
<1>20. LatchNear'
  BY <1>1 DEF LatchNear
<1>21. Wall!WallsHold'
  <2>1. w_ghost.undone <= SafetyNotes + 2
    BY DEF WallInv, Wall!WallsHold, Wall!RescueNeedsHazard
  <2>2. Wall!RescueNeedsHazard'
    BY <1>15, <2>1 DEF Wall!RescueNeedsHazard
  <2>3. Wall!LatchHoldsColumn'
    BY <1>1 DEF Wall!LatchHoldsColumn
  <2>4. Wall!LatchMovesOneColumn'
    BY <1>13, <1>15 DEF Wall!LatchMovesOneColumn
  <2> QED BY <2>2, <2>3, <2>4 DEF Wall!WallsHold
<1>22. WallTypes'
  BY <1>1, <1>3, <1>4, <1>7, <1>8, <1>10, <1>15 DEF WallTypes
<1> QED BY <1>1, <1>16, <1>17, <1>18, <1>19, <1>20, <1>21, <1>22 DEF WallInv

-----------------------------------------------------------------------------
(* The rescue undoes a death in bounds only while the hazard is remembered. *)
LEMMA WallRescues ==
  ASSUME WallAssumption, WallInv, Wall!RestoreWallSafeGround PROVE WallInv'
<1> DEFINE side == IF w_p.side # 0 THEN w_p.side ELSE w_safe.side
           q == [w_p EXCEPT !.state = "play", !.air = FALSE, !.deep = FALSE,
                            !.x = w_safe.x, !.side = side, !.floor = TRUE, !.crush = FALSE]
           undone == IF w_p.state = "dead" /\ w_p.x # Wall!OOB THEN 2 * w_ghost.calm ELSE 0
<1>1. /\ w_at \in {"DC2D", "80D2"} /\ w_at' = w_at
      /\ w_p' = q /\ w_own' = "foreign"
      /\ w_cls' \in IF w_cls = "kick" THEN {"other"} ELSE {w_cls, "other"}
      /\ w_safe' = [w_safe EXCEPT !.armed = TRUE, !.recent = SafetyNotes]
      /\ w_snap' = [w_snap EXCEPT !.pending = FALSE]
      /\ w_ghost' = [w_ghost EXCEPT !.saved = TRUE, !.calm = 0, !.undone = undone]
  BY DEF Wall!RestoreWallSafeGround, Wall!Rescue
<1>2. PICK dir \in IF side # 0 THEN {side} ELSE {-1, 1} :
        w_latch' = Wall!install_current_step_wall_latch(q, dir)
  BY DEF Wall!RestoreWallSafeGround, Wall!Rescue
<1>3. /\ w_p \in Bodies /\ w_latch \in Latches /\ w_safe \in Safes /\ w_ghost \in Notes
      /\ w_snap \in Snaps /\ w_cls \in {"run", "kick", "other"} /\ HazardFades
  BY DEF WallInv, WallTypes
<1>4. w_safe.valid /\ (w_p.state = "dead" /\ w_p.x # Wall!OOB => w_safe.armed \/ w_safe.recent # 0)
  BY DEF Wall!RestoreWallSafeGround, Wall!wall_safety_should_restore
<1>5. side \in Wall!Dirs /\ dir \in Wall!Dirs
  <2>1. w_p.side \in Wall!Dirs /\ w_safe.side \in Wall!Dirs
    BY <1>3 DEF Bodies, Safes
  <2> QED BY <1>2, <2>1 DEF Wall!Dirs
<1> HIDE DEF side
<1>6. /\ q \in Bodies /\ q.x = w_safe.x /\ q.air = FALSE /\ q.floor = TRUE
      /\ q.side = side /\ q.crush = FALSE /\ q.state = "play"
  <2>1. w_safe.x \in Wall!Places
    BY <1>3 DEF Safes
  <2> QED BY <1>3, <1>5, <2>1 DEF Bodies
<1> HIDE DEF q
<1>7. w_latch' \in Latches /\ w_latch'.x = w_p'.x /\ w_latch'.air = FALSE
  <2>1. w_latch' = [on |-> TRUE, dir |-> dir, x |-> q.x, air |-> q.air, side |-> q.side]
    BY <1>2 DEF Wall!install_current_step_wall_latch
  <2>2. q.x \in Wall!Places
    BY <1>6 DEF Bodies
  <2> QED BY <1>1, <1>5, <1>6, <2>1, <2>2 DEF Latches
<1>8. /\ w_safe' \in Safes /\ w_safe'.valid = w_safe.valid
      /\ w_safe'.recent = SafetyNotes
  <2>1. SafetyNotes \in 0 .. SafetyNotes
    BY DEF WallAssumption
  <2> QED BY <1>1, <1>3, <2>1 DEF Safes
<1>9. w_snap' \in Snaps
  BY <1>1, <1>3 DEF Snaps
<1>10. undone \in Nat /\ undone <= SafetyNotes + 2
  <2>1. w_safe.recent \in 0 .. SafetyNotes /\ w_ghost.calm \in Nat /\ SafetyNotes \in Nat
    BY <1>3 DEF Safes, Notes, WallAssumption
  <2>2. w_safe.armed \/ w_safe.recent # 0 => 2 * w_ghost.calm <= SafetyNotes + 1
    BY <1>3, <2>1 DEF HazardFades
  <2> QED BY <1>4, <2>1, <2>2
<1> HIDE DEF undone
<1>11. /\ w_ghost' \in Notes /\ w_ghost'.saved /\ w_ghost'.calm = 0 /\ w_ghost'.undone = undone
       /\ w_ghost'.jerk = w_ghost.jerk
  BY <1>1, <1>3, <1>10 DEF Notes
<1>12. WallTypes'
  <2>1. w_cls' \in {"run", "kick", "other"}
    BY <1>1, <1>3
  <2> QED BY <1>1, <1>6, <1>7, <1>8, <1>9, <1>11, <2>1 DEF WallTypes
<1>13. OnGround' /\ GroundKnown' /\ HeldInPlace' /\ LoadReleases'
  BY <1>1, <1>4, <1>6, <1>7, <1>8 DEF OnGround, GroundKnown, HeldInPlace, LoadReleases, Colliding
<1>14. LatchNear'
  <2>1. w_p'.x \in Int
    BY <1>1, <1>6, <1>12, WallAssumption DEF WallTypes, Bodies, Wall!Places, WallAssumption
  <2>2. Wall!Abs(w_p'.x - w_p'.x) = 0
    BY <2>1, Distance
  <2> QED BY <1>1, <1>7, <2>2 DEF LatchNear
<1>15. HazardFades'
  BY <1>8, <1>11 DEF HazardFades, WallAssumption
<1>16. Wall!WallsHold'
  <2>1. w_ghost.jerk <= 1
    BY DEF WallInv, Wall!WallsHold, Wall!LatchMovesOneColumn
  <2> QED BY <1>10, <1>11, <2>1 DEF Wall!WallsHold, Wall!RescueNeedsHazard, Wall!LatchHoldsColumn,
                                  Wall!LatchMovesOneColumn
<1> QED BY <1>1, <1>12, <1>13, <1>14, <1>15, <1>16 DEF WallInv

-----------------------------------------------------------------------------
(* The native collision.                                                   *)
LEMMA WallCollides ==
  ASSUME WallAssumption, WallInv, Wall!Collide PROVE WallInv'
<1>1. /\ w_at = "body" /\ w_at' = "crush"
      /\ UNCHANGED <<w_own, w_cls, w_latch, w_safe, w_snap, w_ghost>>
  BY DEF Wall!Collide, Wall!Seam
<1>2. PICK x \in {w_snap.x, w_snap.x + Wall!Speed} \cup {Wall!OOB}, side \in Wall!Dirs,
           air \in BOOLEAN, crush \in BOOLEAN :
        /\ x \in Wall!Places
        /\ crush => ~air
        /\ w_p' = [w_p EXCEPT !.x = x, !.side = side, !.air = air, !.deep = air /\ w_p.air,
                              !.floor = ~air, !.crush = crush]
  BY DEF Wall!Collide
<1>3. w_p \in Bodies /\ w_snap \in Snaps /\ w_ghost \in Notes
  BY DEF WallInv, WallTypes
<1>4. (air /\ w_p.air) \in BOOLEAN /\ (~air) \in BOOLEAN
  OBVIOUS
<1>5. /\ w_p' \in Bodies /\ w_p'.x = x /\ w_p'.air = air /\ w_p'.crush = crush
      /\ w_p'.floor = ~air
  BY <1>2, <1>3, <1>4 DEF Bodies
<1>6. /\ w_snap.x \in Int /\ Wall!Speed \in {-1, 0, 1}
      /\ w_latch.on => Wall!Speed = 0
  BY <1>3 DEF Wall!Speed, Snaps, Wall!Places, Wall!Dirs, WallAssumption
<1>7. x # Wall!OOB => Wall!Abs(x - w_snap.x) <= 1
  BY <1>2, <1>6 DEF Wall!Abs
<1>8. w_latch.on /\ x # Wall!OOB => x = w_snap.x
  BY <1>2, <1>6
<1>9. WallTypes'
  BY <1>1, <1>5 DEF WallInv, WallTypes
<1>10. OnGround'
  BY <1>1, <1>2, <1>5 DEF WallInv, OnGround
<1>11. GroundKnown' /\ LatchNear' /\ HazardFades'
  BY <1>1 DEF WallInv, GroundKnown, LatchNear, HazardFades, Colliding, Wall!OOB
<1>12. HeldInPlace' /\ LoadReleases'
  <2>1. w_p.state # "load"
    BY <1>1 DEF WallInv, LoadReleases
  <2>2. w_p'.state = w_p.state
    BY <1>2, <1>3 DEF Bodies
  <2> QED BY <1>1, <1>5, <1>7, <1>8, <2>1, <2>2 DEF WallInv, HeldInPlace, LoadReleases, Colliding, Wall!OOB
<1>13. Wall!WallsHold'
  BY <1>1 DEF WallInv, Wall!WallsHold, Wall!RescueNeedsHazard, Wall!LatchHoldsColumn,
              Wall!LatchMovesOneColumn
<1> QED BY <1>1, <1>9, <1>10, <1>11, <1>12, <1>13 DEF WallInv

-----------------------------------------------------------------------------
(* The two corrections.  A latch that is installed puts the player where   *)
(* the tick began, in a collision that left him a column from there.       *)
LEMMA StepLatchInstalled ==
  ASSUME WallInv, ~w_snap.air,
         NEW l, l = Wall!install_step_wall_latch(w_p),
         NEW q, q = Wall!restore_step_wall_latch(w_p, l)
  PROVE  /\ l \in Latches /\ l.on /\ l.x = w_snap.x /\ ~l.air
         /\ q \in Bodies /\ q.x = w_snap.x /\ ~q.air /\ q.floor /\ ~q.crush
         /\ q.state = w_p.state
<1>1. w_p \in Bodies /\ w_snap \in Snaps
  BY DEF WallInv, WallTypes
<1>2. l = [on |-> TRUE, dir |-> w_snap.dir, x |-> w_snap.x, air |-> w_snap.air,
           side |-> w_p.side]
  BY DEF Wall!install_step_wall_latch
<1>3. /\ w_snap.dir \in Wall!Dirs /\ w_snap.x \in Wall!Places /\ w_snap.air \in BOOLEAN
      /\ w_p.side \in Wall!Dirs
  BY <1>1 DEF Bodies, Snaps
<1>4. l \in Latches /\ l.on /\ l.x = w_snap.x /\ ~l.air /\ l.side = w_p.side /\ l.air = FALSE
  BY <1>2, <1>3 DEF Latches
<1>5. q = [w_p EXCEPT !.x = l.x, !.air = l.air, !.side = l.side, !.floor = TRUE, !.crush = FALSE]
  BY DEF Wall!restore_step_wall_latch
<1>6. q \in Bodies /\ q.x = l.x /\ q.air = FALSE /\ q.floor = TRUE /\ q.crush = FALSE
      /\ q.state = w_p.state
  BY <1>1, <1>3, <1>4, <1>5 DEF Bodies
<1> QED BY <1>4, <1>6

(* How far a correction moves the player.                                  *)
LEMMA Corrected ==
  ASSUME WallAssumption, WallInv, Colliding, NEW q \in Bodies, q.x = w_snap.x \/ q.x = w_p.x
  PROVE  Wall!Jerk(q) \in Nat /\ Wall!Jerk(q) <= 1
<1>1. /\ w_p \in Bodies /\ w_snap \in Snaps
      /\ w_p.x # Wall!OOB => Wall!Abs(w_p.x - w_snap.x) <= 1
  BY DEF WallInv, WallTypes, HeldInPlace
<1>2. w_p.x \in Int /\ w_snap.x \in Int /\ q.x \in Int
  BY <1>1 DEF Bodies, Snaps, Wall!Places, WallAssumption
<1>3. CASE q.x = w_p.x
  BY <1>2, <1>3, Distance DEF Wall!Jerk
<1>4. CASE q.x = w_snap.x
  <2>1. Wall!Abs(q.x - w_p.x) = Wall!Abs(w_p.x - w_snap.x) /\ Wall!Abs(q.x - w_p.x) \in Nat
    BY <1>2, <1>4, Distance
  <2> QED BY <1>1, <2>1 DEF Wall!Jerk
<1> QED BY <1>3, <1>4

(* What a correction at either seam leaves.                                *)
LEMMA CorrectionHolds ==
  ASSUME WallAssumption, WallInv, Colliding, w_at' \in {"squeeze", "80D2"},
         w_at # "frame", w_own' = w_own,
         w_cls' \in {"run", "kick", "other"}, w_latch' \in Latches, w_safe' \in Safes,
         w_snap' \in Snaps, w_snap'.x = w_snap.x, w_snap'.air = w_snap.air,
         w_safe'.recent = w_safe.recent, w_safe'.armed = w_safe.armed,
         w_safe.valid => w_safe'.valid,
         w_p' \in Bodies, w_p'.floor = ~w_p'.air, w_p'.crush => ~w_p'.air,
         w_p'.state = w_p.state,
         w_p'.x \in {w_p.x, w_snap.x},
         \/ w_latch' = w_latch
         \/ /\ ~w_snap.air /\ w_latch'.x = w_snap.x /\ ~w_latch'.air
            /\ w_p'.x = w_snap.x,
         w_ghost' = [w_ghost EXCEPT !.jerk = Wall!Jerk(w_p')]
  PROVE  WallInv'
<1>1. /\ w_ghost \in Notes /\ w_snap \in Snaps /\ w_p \in Bodies
  BY DEF WallInv, WallTypes
<1>2. /\ Wall!Jerk(w_p') \in Nat /\ Wall!Jerk(w_p') <= 1
  BY Corrected
<1>3. /\ w_ghost' \in Notes /\ w_ghost'.jerk = Wall!Jerk(w_p')
      /\ w_ghost'.calm = w_ghost.calm /\ w_ghost'.undone = w_ghost.undone
  BY <1>1, <1>2 DEF Notes
<1>4. WallTypes'
  BY <1>3 DEF WallInv, WallTypes
<1>5. w_latch'.on => ~w_latch'.air /\ w_latch'.x = w_snap.x
  BY DEF WallInv, OnGround, HeldInPlace
<1>6. OnGround'
  BY <1>5 DEF OnGround
<1>7. GroundKnown'
  BY <1>5 DEF WallInv, GroundKnown, Colliding, Wall!OOB
<1>8. w_p'.x # Wall!OOB => Wall!Abs(w_p'.x - w_snap.x) <= 1 /\ (w_latch'.on => w_p'.x = w_snap.x)
  <2>1. w_snap.x \in Int
    BY <1>1 DEF Snaps, Wall!Places, WallAssumption
  <2>2. Wall!Abs(w_snap.x - w_snap.x) = 0
    BY <2>1, Distance
  <2> QED BY <2>2 DEF WallInv, HeldInPlace
<1>9. HeldInPlace' /\ LoadReleases'
  BY <1>5, <1>8 DEF WallInv, HeldInPlace, LoadReleases, Colliding, Wall!OOB
<1>10. LatchNear'
  BY <1>5, <1>8 DEF LatchNear, Wall!OOB
<1>11. HazardFades'
  BY <1>3 DEF WallInv, HazardFades
<1>12. Wall!WallsHold'
  <2>1. w_ghost'.jerk <= 1
    BY <1>2, <1>3
  <2> QED BY <1>3, <1>8, <2>1 DEF WallInv, Wall!WallsHold, Wall!RescueNeedsHazard,
                Wall!LatchHoldsColumn, Wall!LatchMovesOneColumn, Wall!OOB
<1> QED BY <1>4, <1>6, <1>7, <1>9, <1>10, <1>11, <1>12 DEF WallInv

LEMMA WallCrushes ==
  ASSUME WallAssumption, WallInv, Wall!SmwFalconBeforeCrushCheck PROVE WallInv'
<1>1. /\ w_at = "crush" /\ w_at' = "squeeze" /\ UNCHANGED <<w_own, w_safe>>
      /\ w_ghost' = [w_ghost EXCEPT !.jerk = Wall!Jerk(w_p')]
  BY DEF Wall!SmwFalconBeforeCrushCheck, Wall!Seam
<1>2. /\ w_p \in Bodies /\ w_snap \in Snaps /\ w_latch \in Latches /\ w_safe \in Safes
      /\ w_cls \in {"run", "kick", "other"} /\ OnGround
  BY DEF WallInv, WallTypes
<1>3. w_snap.x \in Wall!Places
  BY <1>2 DEF Snaps
<1>4. CASE UNCHANGED <<w_p, w_cls, w_snap, w_latch>>
  BY <1>1, <1>2, <1>4, CorrectionHolds DEF Colliding, OnGround
<1>5. CASE /\ w_p.crush /\ ~w_snap.air
           /\ w_p' = [w_p EXCEPT !.x = w_snap.x, !.air = FALSE, !.crush = FALSE]
           /\ w_cls' = "other" /\ w_snap' = [w_snap EXCEPT !.pending = FALSE]
           /\ w_latch' = w_latch
  <2>1. w_p' \in Bodies /\ w_p'.x = w_snap.x /\ w_p'.air = FALSE /\ w_p'.crush = FALSE
        /\ w_p'.floor = w_p.floor /\ w_p'.state = w_p.state
    BY <1>2, <1>3, <1>5 DEF Bodies
  <2>2. w_p.floor = TRUE
    BY <1>2, <1>5 DEF OnGround, Bodies
  <2>3. w_snap' \in Snaps /\ w_snap'.x = w_snap.x /\ w_snap'.air = w_snap.air
    BY <1>2, <1>5 DEF Snaps
  <2> QED BY <1>1, <1>2, <1>5, <2>1, <2>2, <2>3, CorrectionHolds DEF Colliding
<1>6. CASE /\ ~w_snap.air
           /\ w_latch' = Wall!install_step_wall_latch(w_p)
           /\ w_p' = Wall!restore_step_wall_latch(w_p, w_latch')
           /\ UNCHANGED <<w_cls, w_snap>>
  <2>1. /\ w_latch' \in Latches /\ w_latch'.x = w_snap.x /\ ~w_latch'.air
        /\ w_p' \in Bodies /\ w_p'.x = w_snap.x /\ ~w_p'.air /\ w_p'.floor /\ ~w_p'.crush
        /\ w_p'.state = w_p.state
    BY <1>6, StepLatchInstalled
  <2>2. w_p'.floor = ~w_p'.air
    BY <2>1 DEF Bodies
  <2> QED BY <1>1, <1>2, <1>6, <2>1, <2>2, CorrectionHolds DEF Colliding
<1> QED BY <1>4, <1>5, <1>6 DEF Wall!SmwFalconBeforeCrushCheck

LEMMA WallFollows ==
  ASSUME WallAssumption, WallInv, Wall!SmwFalconAfterPhysics PROVE WallInv'
<1> DEFINE meets == /\ ~w_p.air /\ ~w_snap.air /\ w_p.side # 0
                    /\ Wall!ground_run_wall_state(w_cls)
                    /\ w_snap.dir # 0 /\ w_p.side = w_snap.dir
           l == IF meets THEN Wall!install_step_wall_latch(w_p) ELSE w_latch
           q == IF meets THEN Wall!restore_step_wall_latch(w_p, l) ELSE w_p
<1>1. /\ w_at = "CD36" /\ w_at' = "80D2" /\ w_own' = w_own
      /\ w_ghost' = [w_ghost EXCEPT !.jerk = Wall!Jerk(w_p')]
  BY DEF Wall!SmwFalconAfterPhysics, Wall!Seam
<1>2. /\ w_p \in Bodies /\ w_snap \in Snaps /\ w_latch \in Latches /\ w_safe \in Safes
      /\ w_cls \in {"run", "kick", "other"} /\ OnGround
  BY DEF WallInv, WallTypes
<1>3. CASE UNCHANGED <<w_p, w_latch, w_safe, w_snap, w_cls>>
  BY <1>1, <1>2, <1>3, CorrectionHolds DEF Colliding, OnGround
<1>4. CASE /\ w_latch' = l /\ w_p' = q /\ w_cls' \in {w_cls, "other"}
           /\ w_safe' = IF Wall!wall_safety_should_restore(w_safe, q) THEN w_safe
                        ELSE Wall!remember_wall_safe_ground(w_safe, q)
           /\ w_snap' = [w_snap EXCEPT !.pending = FALSE]
  <2>1. /\ l \in Latches /\ q \in Bodies /\ q.floor = ~q.air /\ (q.crush => ~q.air)
        /\ q.x \in {w_p.x, w_snap.x} /\ q.state = w_p.state
        /\ \/ l = w_latch
           \/ ~w_snap.air /\ l.x = w_snap.x /\ ~l.air /\ q.x = w_snap.x
    <3>1. CASE meets
      <4>1. /\ l = Wall!install_step_wall_latch(w_p)
            /\ q = Wall!restore_step_wall_latch(w_p, l) /\ ~w_snap.air
        BY <3>1
      <4> HIDE DEF l, q, meets
      <4>2. /\ l \in Latches /\ l.x = w_snap.x /\ ~l.air
            /\ q \in Bodies /\ q.x = w_snap.x /\ ~q.air /\ q.floor /\ ~q.crush
            /\ q.state = w_p.state
        BY <4>1, StepLatchInstalled
      <4>3. q.floor = ~q.air
        BY <4>2 DEF Bodies
      <4> QED BY <4>1, <4>2, <4>3
    <3>2. CASE ~meets
      BY <1>2, <3>2 DEF OnGround
    <3> QED BY <3>1, <3>2
  <2> HIDE DEF l, q, meets
  <2>2. /\ w_safe' \in Safes /\ w_safe'.recent = w_safe.recent /\ w_safe'.armed = w_safe.armed
        /\ w_safe.valid => w_safe'.valid
    BY <1>2, <1>4, <2>1, Remembered
  <2>3. w_snap' \in Snaps /\ w_snap'.x = w_snap.x /\ w_snap'.air = w_snap.air
    BY <1>2, <1>4 DEF Snaps
  <2>4. w_cls' \in {"run", "kick", "other"}
    BY <1>2, <1>4
  <2> QED BY <1>1, <1>4, <2>1, <2>2, <2>3, <2>4, CorrectionHolds DEF Colliding
<1>5. \/ UNCHANGED <<w_p, w_latch, w_safe, w_snap, w_cls>>
      \/ /\ w_latch' = l /\ w_p' = q /\ w_cls' \in {w_cls, "other"}
         /\ w_safe' = IF Wall!wall_safety_should_restore(w_safe, q) THEN w_safe
                      ELSE Wall!remember_wall_safe_ground(w_safe, q)
         /\ w_snap' = [w_snap EXCEPT !.pending = FALSE]
  BY DEF Wall!SmwFalconAfterPhysics
<1> QED BY <1>3, <1>4, <1>5

-----------------------------------------------------------------------------
(* The guest, and the seams that only end or forget something.             *)

LEMMA WallCarries == ASSUME WallAssumption, WallInv, Wall!LiveFrame PROVE WallInv'
<1>1. PICK x \in {y \in 0 .. Columns - 1 : Wall!Abs(y - w_p.x) <= 1} \cup {w_p.x} :
        w_p' = [w_p EXCEPT !.x = x]
  BY DEF Wall!LiveFrame
<1>2. /\ w_at = "frame" /\ w_at' \in {"D5F2", "DC2D"}
      /\ w_p.state = "load" => w_at' = "DC2D"
      /\ UNCHANGED <<w_own, w_cls, w_latch, w_safe, w_snap, w_ghost>>
  BY DEF Wall!LiveFrame, Wall!Seam
<1>3. w_p \in Bodies /\ w_p.x \in Int
  BY DEF WallInv, WallTypes, Bodies, Wall!Places, WallAssumption
<1>4. x \in Wall!Places /\ Wall!Abs(x - w_p.x) <= 1
  <2>1. Wall!Abs(w_p.x - w_p.x) = 0
    BY <1>3, Distance
  <2>2. w_p.x \in Wall!Places
    BY <1>3 DEF Bodies
  <2> QED BY <1>1, <2>1, <2>2 DEF Wall!Places, WallAssumption
<1>5. /\ w_p' \in Bodies /\ w_p'.x = x
      /\ UNCHANGED <<w_p.air, w_p.floor, w_p.crush, w_p.state>>
  BY <1>1, <1>3, <1>4 DEF Bodies
<1>6. WallTypes'
  BY <1>2, <1>5 DEF WallInv, WallTypes
<1>7. OnGround' /\ GroundKnown' /\ HeldInPlace' /\ LoadReleases' /\ HazardFades'
  BY <1>2, <1>5 DEF WallInv, OnGround, GroundKnown, HeldInPlace, LoadReleases, HazardFades,
                    Colliding, Wall!OOB
<1>8. LatchNear'
  <2>1. w_latch.on => w_p.x = w_latch.x
    BY <1>2 DEF WallInv, LatchNear
  <2> QED BY <1>2, <1>4, <1>5, <2>1 DEF LatchNear
<1>9. Wall!WallsHold'
  BY <1>2 DEF WallInv, Wall!WallsHold, Wall!RescueNeedsHazard, Wall!LatchHoldsColumn,
              Wall!LatchMovesOneColumn
<1> QED BY <1>2, <1>6, <1>7, <1>8, <1>9 DEF WallInv

LEMMA WallScripts == ASSUME WallAssumption, WallInv, Wall!NativePhase PROVE WallInv'
<1>1. PICK s \in {"play", "script", "dead"} \ {w_p.state} : w_p' = [w_p EXCEPT !.state = s]
  BY DEF Wall!NativePhase
<1>2. w_at = "frame" /\ UNCHANGED <<w_at, w_own, w_cls, w_latch, w_safe, w_snap, w_ghost>>
  BY DEF Wall!NativePhase, Wall!Seam
<1>3. w_p \in Bodies
  BY DEF WallInv, WallTypes
<1>4. /\ w_p' \in Bodies /\ w_p'.state # "load" /\ UNCHANGED <<w_p.x, w_p.air, w_p.floor, w_p.crush>>
  BY <1>1, <1>3 DEF Bodies
<1>5. WallTypes'
  BY <1>2, <1>4 DEF WallInv, WallTypes
<1>6. OnGround' /\ GroundKnown' /\ HeldInPlace' /\ LoadReleases' /\ HazardFades' /\ LatchNear'
  BY <1>2, <1>4 DEF WallInv, OnGround, GroundKnown, HeldInPlace, LoadReleases, HazardFades,
                    LatchNear, Colliding, Wall!OOB
<1>7. Wall!WallsHold'
  BY <1>2 DEF WallInv, Wall!WallsHold, Wall!RescueNeedsHazard, Wall!LatchHoldsColumn,
              Wall!LatchMovesOneColumn
<1> QED BY <1>2, <1>5, <1>6, <1>7 DEF WallInv

LEMMA WallEnters == ASSUME WallAssumption, WallInv, Wall!EnterLevel PROVE WallInv'
<1>1. PICK x \in 0 .. Columns - 1 :
        w_p' = [x |-> x, air |-> FALSE, deep |-> FALSE, side |-> 0, floor |-> TRUE,
                crush |-> FALSE, state |-> "load"]
  BY DEF Wall!EnterLevel
<1>2. /\ w_at = "frame" /\ w_at' = "DC2D"
      /\ UNCHANGED <<w_own, w_cls, w_latch, w_safe, w_snap, w_ghost>>
  BY DEF Wall!EnterLevel, Wall!Seam
<1>3. w_p' \in Bodies /\ w_p'.floor = ~w_p'.air /\ ~w_p'.crush /\ w_p'.state = "load"
  <2>1. x \in Wall!Places /\ 0 \in Wall!Dirs
    BY DEF Wall!Places, Wall!Dirs, WallAssumption
  <2> QED BY <1>1, <2>1 DEF Bodies
<1>4. WallTypes'
  BY <1>2, <1>3 DEF WallInv, WallTypes
<1>5. OnGround' /\ GroundKnown' /\ HeldInPlace' /\ LoadReleases' /\ HazardFades' /\ LatchNear'
  BY <1>2, <1>3 DEF WallInv, OnGround, GroundKnown, HeldInPlace, LoadReleases, HazardFades,
                    LatchNear, Colliding, Wall!OOB
<1>6. Wall!WallsHold'
  BY <1>2 DEF WallInv, Wall!WallsHold, Wall!RescueNeedsHazard, Wall!LatchHoldsColumn,
              Wall!LatchMovesOneColumn
<1> QED BY <1>2, <1>4, <1>5, <1>6 DEF WallInv

LEMMA NothingLatched ==
  ASSUME WallAssumption PROVE Wall!NoLatch \in Latches /\ ~Wall!NoLatch.on
<1>1. 0 \in Wall!Places /\ 0 \in Wall!Dirs
  BY DEF Wall!Places, Wall!Dirs, WallAssumption
<1> QED BY <1>1 DEF Wall!NoLatch, Latches

LEMMA NothingKnown ==
  ASSUME WallAssumption
  PROVE  /\ Wall!NoSafety \in Safes /\ ~Wall!NoSafety.armed /\ Wall!NoSafety.recent = 0
<1>1. 0 \in Wall!Places /\ 0 \in Wall!Dirs /\ 0 \in 0 .. SafetyNotes
  BY DEF Wall!Places, Wall!Dirs, WallAssumption
<1> QED BY <1>1 DEF Wall!NoSafety, Safes

LEMMA WallLoads == ASSUME WallAssumption, WallInv, Wall!SmwFalconOnStateLoaded PROVE WallInv'
<1>1. PICK x \in 0 .. Columns - 1 : w_p' = [w_p EXCEPT !.x = x, !.state = "play"]
  BY DEF Wall!SmwFalconOnStateLoaded
<1>2. /\ w_at = "frame" /\ w_at' = w_at /\ w_cls' = w_cls /\ w_own' \in {"foreign", "scripted"}
      /\ w_latch' = Wall!NoLatch /\ w_safe' = Wall!NoSafety
      /\ w_snap' = [w_snap EXCEPT !.pending = FALSE, !.dir = 0]
      /\ w_ghost' = [w_ghost EXCEPT !.calm = 0]
  BY DEF Wall!SmwFalconOnStateLoaded, Wall!Seam
<1>3. w_p \in Bodies /\ w_ghost \in Notes /\ w_snap \in Snaps
  BY DEF WallInv, WallTypes
<1>4. w_p' \in Bodies /\ w_p'.state = "play" /\ UNCHANGED <<w_p.air, w_p.floor, w_p.crush>>
  <2>1. x \in Wall!Places
    BY DEF Wall!Places, WallAssumption
  <2> QED BY <1>1, <1>3, <2>1 DEF Bodies
<1>5. w_ghost' \in Notes /\ w_ghost'.calm = 0 /\ UNCHANGED <<w_ghost.undone, w_ghost.jerk>>
  BY <1>2, <1>3 DEF Notes
<1>6. w_snap' \in Snaps
  <2>1. 0 \in Wall!Dirs
    BY DEF Wall!Dirs
  <2> QED BY <1>2, <1>3, <2>1 DEF Snaps
<1>7. WallTypes'
  BY <1>2, <1>4, <1>5, <1>6, NothingLatched, NothingKnown DEF WallInv, WallTypes
<1>8. OnGround' /\ GroundKnown' /\ HeldInPlace' /\ LoadReleases' /\ LatchNear'
  BY <1>2, <1>4, NothingLatched DEF WallInv, OnGround, GroundKnown, HeldInPlace, LoadReleases,
                                    LatchNear, Colliding
<1>9. HazardFades'
  BY <1>2, NothingKnown DEF HazardFades
<1>10. w_ghost.jerk = 0
  BY <1>2 DEF WallInv
<1>11. Wall!WallsHold'
  BY <1>2, <1>5, <1>10 DEF WallInv, Wall!WallsHold, Wall!RescueNeedsHazard,
                           Wall!LatchHoldsColumn, Wall!LatchMovesOneColumn
<1> QED BY <1>2, <1>5, <1>7, <1>8, <1>9, <1>10, <1>11 DEF WallInv

LEMMA WallLetsGo == ASSUME WallAssumption, WallInv, Wall!BeforePlayerPhysics PROVE WallInv'
<1>1. /\ w_at = "D5F2" /\ w_at' = "DC2D" /\ UNCHANGED <<w_p, w_own, w_cls, w_safe, w_snap, w_ghost>>
      /\ w_latch' = w_latch \/ w_latch' = Wall!NoLatch
  BY DEF Wall!BeforePlayerPhysics, Wall!Seam
<1>2. w_latch' \in Latches /\ (w_latch'.on => w_latch' = w_latch)
  BY <1>1, NothingLatched DEF WallInv, WallTypes
<1>3. WallTypes'
  BY <1>1, <1>2 DEF WallInv, WallTypes
<1>4. OnGround' /\ GroundKnown' /\ HeldInPlace' /\ LoadReleases' /\ LatchNear' /\ HazardFades'
  BY <1>1, <1>2 DEF WallInv, OnGround, GroundKnown, HeldInPlace, LoadReleases, LatchNear,
                    HazardFades, Colliding, Wall!OOB
<1>5. Wall!WallsHold'
  BY <1>1 DEF WallInv, Wall!WallsHold, Wall!RescueNeedsHazard, Wall!LatchHoldsColumn,
              Wall!LatchMovesOneColumn
<1> QED BY <1>1, <1>3, <1>4, <1>5 DEF WallInv

LEMMA WallYields == ASSUME WallAssumption, WallInv, Wall!BeforePhysicsNotOurs PROVE WallInv'
<1>1. /\ w_at = "DC2D" /\ w_at' = "80D2" /\ UNCHANGED <<w_p, w_cls, w_ghost>>
      /\ w_own' \in {w_own, "scripted"} /\ w_latch' = Wall!NoLatch
      /\ w_safe' = w_safe \/ w_safe' = Wall!NoSafety
      /\ \E b \in BOOLEAN : w_snap' = [w_snap EXCEPT !.pending = b]
  <2>1. w_snap' = [w_snap EXCEPT !.pending = @ /\ ~Wall!Active]
    BY DEF Wall!BeforePhysicsNotOurs
  <2>2. \E b \in BOOLEAN : w_snap' = [w_snap EXCEPT !.pending = b]
    <3>1. w_snap' = [w_snap EXCEPT !.pending = w_snap.pending /\ ~Wall!Active]
      BY <2>1
    <3>2. (w_snap.pending /\ ~Wall!Active) \in BOOLEAN
      OBVIOUS
    <3> QED BY <3>1, <3>2
  <2> QED BY <2>2 DEF Wall!BeforePhysicsNotOurs, Wall!Seam
<1>2. w_snap' \in Snaps
  BY <1>1 DEF WallInv, WallTypes, Snaps
<1>3. w_safe' \in Safes /\ (w_safe'.armed => w_safe' = w_safe) /\ (w_safe'.recent # 0 => w_safe' = w_safe)
  BY <1>1, NothingKnown DEF WallInv, WallTypes
<1>4. WallTypes'
  BY <1>1, <1>2, <1>3, NothingLatched DEF WallInv, WallTypes
<1>5. OnGround' /\ GroundKnown' /\ HeldInPlace' /\ LoadReleases' /\ LatchNear' /\ HazardFades'
  BY <1>1, <1>3, NothingLatched DEF WallInv, OnGround, GroundKnown, HeldInPlace, LoadReleases,
                                    LatchNear, HazardFades, Colliding
<1>6. Wall!WallsHold'
  BY <1>1, NothingLatched DEF WallInv, Wall!WallsHold, Wall!RescueNeedsHazard,
                              Wall!LatchHoldsColumn, Wall!LatchMovesOneColumn
<1> QED BY <1>1, <1>4, <1>5, <1>6 DEF WallInv

LEMMA WallKills == ASSUME WallAssumption, WallInv, Wall!Squeeze PROVE WallInv'
<1>1. /\ w_at = "squeeze" /\ w_at' \in {"CD36", "80D2"}
      /\ UNCHANGED <<w_own, w_cls, w_latch, w_safe, w_snap, w_ghost>>
      /\ w_p' = w_p \/ w_p' = [w_p EXCEPT !.state = "dead"]
  BY DEF Wall!Squeeze, Wall!Seam
<1>2. /\ w_p' \in Bodies /\ UNCHANGED <<w_p.x, w_p.air, w_p.floor, w_p.crush>>
      /\ w_p.state # "load" /\ w_p'.state # "load"
  BY <1>1 DEF WallInv, WallTypes, LoadReleases, Bodies
<1>3. WallTypes'
  BY <1>1, <1>2 DEF WallInv, WallTypes
<1>4. OnGround' /\ GroundKnown' /\ HazardFades'
  BY <1>1, <1>2 DEF WallInv, OnGround, GroundKnown, HazardFades, Colliding, Wall!OOB
<1>5. HeldInPlace' /\ LoadReleases' /\ LatchNear'
  BY <1>1, <1>2 DEF WallInv, HeldInPlace, LoadReleases, LatchNear, Colliding, Wall!OOB
<1>6. Wall!WallsHold'
  BY <1>1, <1>2 DEF WallInv, Wall!WallsHold, Wall!RescueNeedsHazard, Wall!LatchHoldsColumn,
                    Wall!LatchMovesOneColumn, HeldInPlace, Colliding, Wall!OOB
<1> QED BY <1>1, <1>3, <1>4, <1>5, <1>6 DEF WallInv

(* At the end of a frame nobody whose ground is known is out of bounds.    *)
LEMMA WallRests == ASSUME WallAssumption, WallInv, Wall!SpritesRun PROVE WallInv'
<1>1. /\ w_at = "80D2" /\ w_at' = "frame"
      /\ UNCHANGED <<w_p, w_own, w_cls, w_latch, w_safe, w_snap>>
      /\ w_ghost' = [w_ghost EXCEPT !.saved = FALSE, !.undone = 0, !.jerk = 0]
  BY DEF Wall!SpritesRun, Wall!Seam
<1>2. w_safe.valid /\ w_p.state # "load" => w_p.x # Wall!OOB
  <2>1. w_own # "none"
    BY DEF WallInv, WallTypes
  <2> QED BY <2>1 DEF Wall!SpritesRun, Wall!Unsaved, Wall!wall_safety_should_restore, Wall!Active
<1>3. /\ w_ghost' \in Notes /\ w_ghost'.undone = 0 /\ w_ghost'.jerk = 0
      /\ UNCHANGED w_ghost.calm
  BY <1>1 DEF WallInv, WallTypes, Notes
<1>4. WallTypes'
  BY <1>1, <1>3 DEF WallInv, WallTypes
<1>5. OnGround' /\ GroundKnown' /\ HeldInPlace' /\ LoadReleases' /\ HazardFades'
  BY <1>1, <1>3 DEF WallInv, OnGround, GroundKnown, HeldInPlace, LoadReleases, HazardFades,
                    Colliding, Wall!OOB
<1>6. LatchNear'
  BY <1>1, <1>2 DEF WallInv, LoadReleases, LatchNear, GroundKnown
<1>7. Wall!WallsHold'
  BY <1>1, <1>3 DEF Wall!WallsHold, Wall!RescueNeedsHazard, Wall!LatchHoldsColumn,
                    Wall!LatchMovesOneColumn, WallAssumption
<1> QED BY <1>1, <1>3, <1>4, <1>5, <1>6, <1>7 DEF WallInv

LEMMA WallSteps == ASSUME WallAssumption, WallInv, [Wall!Next]_(Wall!vars) PROVE WallInv'
<1>1. CASE UNCHANGED Wall!vars
  BY <1>1 DEF Wall!vars, WallInv, WallTypes, OnGround, GroundKnown, HeldInPlace,
              LoadReleases, LatchNear, HazardFades, Colliding, Wall!WallsHold, Wall!RescueNeedsHazard,
              Wall!LatchHoldsColumn, Wall!LatchMovesOneColumn, Wall!OOB
<1>2. ASSUME NEW dir \in Wall!Dirs, NEW jump \in BOOLEAN, Wall!SmwFalconBeforePhysics(dir, jump)
      PROVE  WallInv'
  BY <1>2, WallTicks
<1> QED BY <1>1, <1>2, WallCarries, WallScripts, WallEnters, WallLoads, WallLetsGo, WallRescues,
           WallYields, WallCollides, WallCrushes, WallKills, WallFollows, WallRests
        DEF Wall!Next

(* A wall holds the fighter where he was, in a level of any width and for  *)
(* any memory and reach of the net: a latched player ends the collision in *)
(* the column the tick began in, the corrections move him by at most one,  *)
(* and no death in bounds is undone after the hazard was forgotten         *)
(* (smw_falcon_restore_wall_safe_ground, SmwFalconBeforeCrushCheck,        *)
(* SmwFalconAfterPhysics).                                                 *)
THEOREM WallsAreHeld == Spec => []WallsHold
<1>1. WallAssumption
  BY SeamAssumption DEF WallAssumption
<1>2. Init => WallInv
  BY <1>1, WallStarts DEF Init
<1>3. WallInv /\ [Next]_vars => WallInv'
  <2>1. [Next]_vars => [Wall!Next]_(Wall!vars)
    BY DEF Next, vars, wall, Wall!vars
  <2> QED BY <1>1, <2>1, WallSteps
<1>4. WallInv => WallsHold
  BY DEF WallInv, WallsHold
<1> QED BY <1>2, <1>3, <1>4, PTL DEF Spec

-----------------------------------------------------------------------------
(* The pad.  Of the double tap the code keeps the direction of a first tap  *)
(* and its age: the history has that tap at that distance, and after it    *)
(* nothing that would have ended it.                                       *)

PadAssumption == DoubleTap \in Nat

Ticks == [dir : -1 .. 1, turning : BOOLEAN]
Dashes == [first : -1 .. 1, prev : -1 .. 1, full : BOOLEAN, ignore : BOOLEAN, age : Nat]
Histories == [dirs : Seq(Ticks), turning : BOOLEAN, second : BOOLEAN, owed : Int,
              masked : BOOLEAN]

PadTypes ==
  /\ p_at \in {"frame", "D5F2", "DC2D", "80D2", "sprite"}
  /\ p_phys \in Pad!Buttons
  /\ p_io \in [dir : -1 .. 1, y : BOOLEAN, down : BOOLEAN, a : BOOLEAN, press : BOOLEAN]
  /\ p_guest \in [playable : BOOLEAN, pipe : BOOLEAN, carrying : BOOLEAN]
  /\ p_own \in [active : BOOLEAN, foreign : BOOLEAN]
  /\ p_pad \in [valid : BOOLEAN, hold : Pad!Buttons, press : BOOLEAN, carry_a : BOOLEAN,
                carry_down : BOOLEAN, carry_valid : BOOLEAN]
  /\ p_grace \in BOOLEAN

\* The tap at j of a history has not been ended by another direction.
Clean(dirs, j, dir) ==
  \A i \in j .. Len(dirs) : dirs[i].dir \in {dir, 0} \/ dirs[i].turning

FirstTap(d, dirs) ==
  LET j == Len(dirs) - d.age
  IN  /\ j \in 1 .. Len(dirs) /\ d.age <= DoubleTap
      /\ dirs[j].dir = d.first /\ ~dirs[j].turning
      /\ j = 1 \/ dirs[j - 1].dir # d.first
      /\ Clean(dirs, j, d.first)

\* What the code remembers of the taps, and what the history does.
TapsMatch(d, g) ==
  /\ d \in Dashes /\ g \in Histories
  /\ Len(g.dirs) <= DoubleTap + 1
  /\ d.prev = Pad!Last(g.dirs)
  /\ d.ignore = g.turning
  /\ g.dirs # <<>> /\ g.dirs[Len(g.dirs)].turning /\ d.prev # 0 => g.turning
  /\ d.first # 0 => FirstTap(d, g.dirs)
  /\ d.full => g.second

\* The words for the carried sprite are those of this frame's pad.
CarryMatch ==
  /\ p_own.foreign => p_own.active
  /\ p_at = "D5F2" =>
       p_io.a = p_phys.carry /\ p_io.down = p_phys.down /\ ~p_ghost.masked
  /\ p_at \in {"DC2D", "80D2"} /\ p_ghost.masked /\ p_guest.playable =>
       /\ p_pad.carry_valid
       /\ p_pad.carry_a = p_phys.carry /\ p_pad.carry_down = p_phys.down
  /\ Pad!CarryFollowsA

PadInv ==
  PadTypes /\ TapsMatch(p_dash, p_ghost) /\ Pad!SpecialOnce /\ CarryMatch

\* A history is as long as it has to be: the oldest tick goes.
Cut(dirs) == IF Len(dirs) <= DoubleTap THEN 0 ELSE 1
Longer(dirs, t) == Append(IF Len(dirs) <= DoubleTap THEN dirs ELSE Tail(dirs), t)

LEMMA Appended ==
  ASSUME PadAssumption, NEW dirs \in Seq(Ticks), Len(dirs) <= DoubleTap + 1,
         NEW t \in Ticks
  PROVE  /\ Cut(dirs) \in {0, 1} /\ (Cut(dirs) = 1 => Len(dirs) = DoubleTap + 1)
         /\ Longer(dirs, t) \in Seq(Ticks)
         /\ Len(Longer(dirs, t)) = Len(dirs) + 1 - Cut(dirs)
         /\ Len(Longer(dirs, t)) <= DoubleTap + 1
         /\ Longer(dirs, t)[Len(Longer(dirs, t))] = t
         /\ \A k \in 1 .. Len(dirs) - Cut(dirs) : Longer(dirs, t)[k] = dirs[k + Cut(dirs)]
<1>1. CASE Len(dirs) <= DoubleTap
  <2>1. Longer(dirs, t) = Append(dirs, t) /\ Cut(dirs) = 0
    BY <1>1 DEF Longer, Cut
  <2> QED BY <1>1, <2>1 DEF PadAssumption
<1>2. CASE ~(Len(dirs) <= DoubleTap)
  <2>1. /\ Longer(dirs, t) = Append(Tail(dirs), t) /\ Cut(dirs) = 1
        /\ Len(dirs) = DoubleTap + 1
    BY <1>2 DEF Longer, Cut, PadAssumption
  <2>2. dirs # <<>>
    BY <2>1 DEF PadAssumption
  <2>3. Tail(dirs) \in Seq(Ticks) /\ Len(Tail(dirs)) = Len(dirs) - 1
    BY <2>2
  <2>4. \A k \in 1 .. Len(dirs) - 1 : Tail(dirs)[k] = dirs[k + 1]
    BY <2>2
  <2> QED BY <2>1, <2>3, <2>4 DEF PadAssumption
<1> QED BY <1>1, <1>2

(* A tap that AgeTap keeps is still in the history once a tick was added.  *)
LEMMA OlderTap ==
  ASSUME PadAssumption, NEW d, NEW g, TapsMatch(d, g), NEW a, a = Pad!AgeTap(d),
         NEW t \in Ticks, NEW longer,
         longer = Longer(g.dirs, t), a.first # 0
  PROVE  LET j == Len(longer) - a.age
         IN  /\ a.first = d.first /\ a.age = d.age + 1 /\ a.age <= DoubleTap
             /\ j \in 1 .. Len(longer) - 1
             /\ longer[j].dir = a.first /\ ~longer[j].turning
             /\ j = 1 \/ longer[j - 1].dir # a.first
             /\ \A i \in j .. Len(longer) - 1 :
                  longer[i].dir \in {a.first, 0} \/ longer[i].turning
<1> DEFINE cut == Cut(g.dirs)
           old == Len(g.dirs) - d.age
           j == Len(longer) - a.age
<1>1. d \in Dashes /\ g.dirs \in Seq(Ticks) /\ Len(g.dirs) <= DoubleTap + 1
  BY DEF TapsMatch, Histories
<1>2. d.first # 0 /\ d.age \in Nat /\ d.age < DoubleTap /\ a = [d EXCEPT !.age = @ + 1]
  BY <1>1 DEF Pad!AgeTap, Dashes, PadAssumption
<1>3. a.first = d.first /\ a.age = d.age + 1 /\ a.age <= DoubleTap
  BY <1>1, <1>2 DEF Dashes, PadAssumption
<1>4. FirstTap(d, g.dirs)
  BY <1>2 DEF TapsMatch
<1>5. /\ old \in 1 .. Len(g.dirs)
      /\ g.dirs[old].dir = d.first /\ ~g.dirs[old].turning
      /\ old = 1 \/ g.dirs[old - 1].dir # d.first
      /\ Clean(g.dirs, old, d.first)
  BY <1>4 DEF FirstTap
<1>6. cut \in {0, 1} /\ (cut = 1 => Len(g.dirs) = DoubleTap + 1)
  BY <1>1, Appended
<1>7. /\ Len(longer) = Len(g.dirs) + 1 - cut
      /\ \A k \in 1 .. Len(g.dirs) - cut : longer[k] = g.dirs[k + cut]
  BY <1>1, Appended
<1> HIDE DEF cut
<1>9. Len(g.dirs) \in Nat /\ DoubleTap \in Nat
  BY <1>1 DEF PadAssumption
<1>10. old = Len(g.dirs) - d.age /\ j = Len(longer) - a.age
  OBVIOUS
<1> HIDE DEF old, j
<1>11. j = old - cut /\ Len(longer) - 1 = Len(g.dirs) - cut
  BY <1>2, <1>3, <1>6, <1>7, <1>9, <1>10
<1>12. j \in 1 .. Len(longer) - 1
  BY <1>2, <1>5, <1>6, <1>9, <1>10, <1>11
<1>13. longer[j] = g.dirs[old]
  BY <1>5, <1>6, <1>7, <1>9, <1>11, <1>12
<1>14. j = 1 \/ longer[j - 1].dir # a.first
  <2>1. CASE j = 1
    BY <2>1
  <2>2. CASE j # 1
    <3>1. j - 1 \in 1 .. Len(g.dirs) - cut /\ j - 1 + cut = old - 1 /\ old # 1
      BY <2>2, <1>5, <1>6, <1>9, <1>11, <1>12
    <3> QED BY <3>1, <1>3, <1>5, <1>7
  <2> QED BY <2>1, <2>2
<1>15. ASSUME NEW i \in j .. Len(longer) - 1
       PROVE longer[i].dir \in {a.first, 0} \/ longer[i].turning
  <2>1. i \in 1 .. Len(g.dirs) - cut /\ i + cut \in old .. Len(g.dirs)
    BY <1>5, <1>6, <1>9, <1>11, <1>12
  <2>2. longer[i] = g.dirs[i + cut]
    BY <2>1, <1>7
  <2> QED BY <2>1, <2>2, <1>3, <1>5 DEF Clean
<1>16. longer[j].dir = a.first /\ ~longer[j].turning
  BY <1>3, <1>5, <1>13
<1> QED BY <1>3, <1>10, <1>12, <1>14, <1>15, <1>16

LEMMA TapCases ==
  ASSUME PadAssumption, NEW a \in Dashes, NEW dir \in -1 .. 1, NEW b, b = Pad!Tap(a, dir)
  PROVE  /\ b \in Dashes /\ b.prev = dir
         /\ a.ignore => ~b.full /\ (b.ignore <=> dir # 0)
         /\ ~a.ignore => ~b.ignore
         /\ dir = 0 => ~b.full
         /\ a.ignore \/ dir = 0 => b.first = a.first /\ b.age = a.age
         /\ ~a.ignore /\ dir # 0 /\ dir = a.prev =>
              b.first = a.first /\ b.age = a.age /\ (b.full <=> a.full)
         /\ ~a.ignore /\ dir # 0 /\ dir # a.prev =>
              /\ b.age = 0 /\ b.first \in {0, dir}
              /\ b.full => dir = a.first /\ a.age <= DoubleTap
<1>1. CASE a.ignore
  <2>1. b = [a EXCEPT !.full = FALSE, !.ignore = dir # 0, !.prev = dir]
    BY <1>1 DEF Pad!Tap, Dashes
  <2> QED BY <1>1, <2>1 DEF Dashes
<1>2. CASE ~a.ignore /\ dir = 0
  <2>1. b = [a EXCEPT !.full = FALSE, !.prev = dir]
    BY <1>2 DEF Pad!Tap, Dashes
  <2> QED BY <1>2, <2>1 DEF Dashes
<1>3. CASE ~a.ignore /\ dir # 0 /\ dir = a.prev
  <2>1. b = [a EXCEPT !.prev = dir]
    BY <1>3 DEF Pad!Tap, Dashes
  <2> QED BY <1>3, <2>1 DEF Dashes
<1>4. CASE ~a.ignore /\ dir # 0 /\ dir # a.prev
  <2>1. CASE dir = a.first /\ a.age <= DoubleTap
    <3>1. b = [a EXCEPT !.full = TRUE, !.age = 0, !.first = 0, !.prev = dir]
      BY <1>4, <2>1 DEF Pad!Tap, Dashes
    <3>2. b \in Dashes
      <4>1. b = [first |-> 0, prev |-> dir, full |-> TRUE, ignore |-> a.ignore, age |-> 0]
        BY <3>1 DEF Dashes
      <4>2. 0 \in -1 .. 1 /\ a.ignore \in BOOLEAN
        BY DEF Dashes
      <4> QED BY <4>1, <4>2 DEF Dashes
    <3>3. /\ b.full = TRUE /\ b.age = 0 /\ b.first = 0 /\ b.prev = dir
          /\ b.ignore = a.ignore
      BY <3>1 DEF Dashes
    <3> QED BY <1>4, <2>1, <3>2, <3>3
  <2>2. CASE ~(dir = a.first /\ a.age <= DoubleTap)
    <3>1. b = [a EXCEPT !.full = FALSE, !.age = 0, !.first = dir, !.prev = dir]
      BY <1>4, <2>2 DEF Pad!Tap, Dashes
    <3>2. b \in Dashes
      <4>1. b = [first |-> dir, prev |-> dir, full |-> FALSE, ignore |-> a.ignore, age |-> 0]
        BY <3>1 DEF Dashes
      <4>2. dir \in -1 .. 1 /\ a.ignore \in BOOLEAN
        BY DEF Dashes
      <4> QED BY <4>1, <4>2 DEF Dashes
    <3>3. /\ b.full = FALSE /\ b.age = 0 /\ b.first = dir /\ b.prev = dir
          /\ b.ignore = a.ignore
      BY <3>1 DEF Dashes
    <3> QED BY <1>4, <2>2, <3>2, <3>3
  <2> QED BY <2>1, <2>2
<1> QED BY <1>1, <1>2, <1>3, <1>4

(* One tick of the double tap, of the code's and of the history's.         *)
LEMMA TapsStep ==
  ASSUME PadAssumption, NEW d, NEW g, TapsMatch(d, g),
         NEW dir \in -1 .. 1, NEW turns \in BOOLEAN,
         NEW t, t = [dir |-> dir, turning |-> g.turning],
         NEW e, e = [Pad!Tap(Pad!AgeTap(d), dir) EXCEPT !.ignore = @ \/ turns],
         NEW h \in Histories, h.dirs = Longer(g.dirs, t),
         h.turning <=> turns \/ (g.turning /\ dir # 0),
         h.second <=> IF dir # 0 /\ dir # Pad!Last(g.dirs) THEN Pad!Second(g.dirs, dir)
                      ELSE g.second /\ dir = Pad!Last(g.dirs)
  PROVE  TapsMatch(e, h)
<1> DEFINE a == Pad!AgeTap(d)
           b == Pad!Tap(a, dir)
           m == Len(h.dirs)
<1>1. d \in Dashes /\ g \in Histories /\ g.dirs \in Seq(Ticks) /\ Len(g.dirs) <= DoubleTap + 1
  BY DEF TapsMatch, Histories
<1>2. t \in Ticks
  BY <1>1 DEF Ticks, Histories
<1>3. /\ a \in Dashes /\ a.prev = d.prev /\ (a.ignore <=> d.ignore) /\ (a.full <=> d.full)
      /\ a.first \in {0, d.first}
  BY <1>1 DEF Pad!AgeTap, Dashes, PadAssumption
<1>4. a = Pad!AgeTap(d) /\ b = Pad!Tap(a, dir) /\ e = [b EXCEPT !.ignore = @ \/ turns]
  OBVIOUS
<1> HIDE DEF a, b
<1>5. /\ b \in Dashes /\ b.prev = dir
      /\ a.ignore => ~b.full /\ (b.ignore <=> dir # 0)
      /\ ~a.ignore => ~b.ignore
      /\ dir = 0 => ~b.full
      /\ a.ignore \/ dir = 0 => b.first = a.first /\ b.age = a.age
      /\ ~a.ignore /\ dir # 0 /\ dir = a.prev =>
           b.first = a.first /\ b.age = a.age /\ (b.full <=> a.full)
      /\ ~a.ignore /\ dir # 0 /\ dir # a.prev =>
           /\ b.age = 0 /\ b.first \in {0, dir}
           /\ b.full => dir = a.first /\ a.age <= DoubleTap
  BY <1>3, <1>4, TapCases
<1>6. /\ e \in Dashes /\ e.prev = dir /\ (e.full <=> b.full) /\ (e.ignore <=> b.ignore \/ turns)
      /\ e.first = b.first /\ e.age = b.age
  BY <1>4, <1>5 DEF Dashes
<1>7. d.prev = Pad!Last(g.dirs) /\ (d.ignore <=> g.turning) /\ (d.full => g.second)
  BY DEF TapsMatch
<1> DEFINE cut == Cut(g.dirs)
<1>8. /\ cut \in {0, 1} /\ (cut = 1 => Len(g.dirs) = DoubleTap + 1)
      /\ h.dirs \in Seq(Ticks) /\ m = Len(g.dirs) + 1 - cut /\ m <= DoubleTap + 1
      /\ h.dirs[m] = t /\ \A k \in 1 .. Len(g.dirs) - cut : h.dirs[k] = g.dirs[k + cut]
  <2>1. /\ Cut(g.dirs) \in {0, 1} /\ (Cut(g.dirs) = 1 => Len(g.dirs) = DoubleTap + 1)
        /\ Longer(g.dirs, t) \in Seq(Ticks)
        /\ Len(Longer(g.dirs, t)) = Len(g.dirs) + 1 - Cut(g.dirs)
        /\ Len(Longer(g.dirs, t)) <= DoubleTap + 1
        /\ Longer(g.dirs, t)[Len(Longer(g.dirs, t))] = t
        /\ \A k \in 1 .. Len(g.dirs) - Cut(g.dirs) :
             Longer(g.dirs, t)[k] = g.dirs[k + Cut(g.dirs)]
    BY <1>1, <1>2, Appended
  <2> QED BY <2>1
<1>9. m \in Nat /\ m >= 1 /\ m <= DoubleTap + 1 /\ h.dirs # <<>> /\ Pad!Last(h.dirs) = dir
  <2>1. m >= 1
    BY <1>1, <1>8 DEF PadAssumption
  <2>2. h.dirs # <<>>
    BY <2>1, <1>8
  <2> QED BY <2>1, <2>2, <1>8 DEF Pad!Last
<1>10. h.dirs[m].dir = dir /\ (h.dirs[m].turning <=> g.turning)
  BY <1>8
<1> HIDE DEF cut
<1>11. e.prev = Pad!Last(h.dirs)
  BY <1>6, <1>9
<1>12. e.ignore = h.turning
  <2>1. e.ignore <=> h.turning
    BY <1>3, <1>5, <1>6, <1>7
  <2>2. e.ignore \in BOOLEAN /\ h.turning \in BOOLEAN
    BY <1>6 DEF Dashes, Histories
  <2> QED BY <2>1, <2>2
<1>13. h.dirs # <<>> /\ h.dirs[m].turning /\ e.prev # 0 => h.turning
  BY <1>6, <1>10
<1>14. d.prev # 0 /\ ~g.turning /\ g.dirs # <<>> => ~g.dirs[Len(g.dirs)].turning
  BY DEF TapsMatch
<1>15. e.full => h.second
  <2> SUFFICES ASSUME e.full PROVE h.second
    OBVIOUS
  <2>1. b.full /\ dir # 0 /\ ~a.ignore
    BY <1>5, <1>6
  <2>2. CASE dir = a.prev
    <3>1. d.full /\ dir = Pad!Last(g.dirs)
      BY <2>1, <2>2, <1>3, <1>5, <1>7
    <3> QED BY <3>1, <1>7
  <2>3. CASE dir # a.prev
    <3>1. dir = a.first /\ a.first # 0 /\ a.first = d.first /\ dir # Pad!Last(g.dirs)
      BY <2>1, <2>3, <1>3, <1>5, <1>7
    <3>2. d.first # 0 /\ d.age \in Nat /\ d.age < DoubleTap
      BY <3>1, <1>1, <1>4 DEF Pad!AgeTap, Dashes, PadAssumption
    <3>3. FirstTap(d, g.dirs)
      BY <3>2 DEF TapsMatch
    <3>4. Len(g.dirs) - d.age \in Pad!Taps(g.dirs)
      <4> DEFINE j == Len(g.dirs) - d.age
      <4>1. /\ j \in 1 .. Len(g.dirs) /\ g.dirs[j].dir = d.first /\ ~g.dirs[j].turning
            /\ j = 1 \/ g.dirs[j - 1].dir # d.first
            /\ Clean(g.dirs, j, d.first)
        BY <3>3 DEF FirstTap
      <4>2. Len(g.dirs) - j < DoubleTap
        BY <3>2, <1>1 DEF PadAssumption
      <4> HIDE DEF j
      <4>3. j \in Pad!Taps(g.dirs)
        BY <4>1, <4>2, <3>2 DEF Pad!Taps, Clean
      <4> QED BY <4>3 DEF j
    <3>5. g.dirs[Len(g.dirs) - d.age].dir = dir
      BY <3>1, <3>3 DEF FirstTap
    <3>6. Pad!Second(g.dirs, dir)
      BY <3>4, <3>5 DEF Pad!Second
    <3> QED BY <2>1, <3>1, <3>6
  <2> QED BY <2>2, <2>3
<1>16. e.first # 0 => FirstTap(e, h.dirs)
  <2> SUFFICES ASSUME e.first # 0 PROVE FirstTap(e, h.dirs)
    OBVIOUS
  <2>1. CASE ~a.ignore /\ dir # 0 /\ dir # a.prev
    <3>1. e.first = dir /\ e.age = 0
      BY <2>1, <1>5, <1>6
    <3>2. ~g.turning /\ dir # Pad!Last(g.dirs)
      BY <2>1, <1>3, <1>7
    <3>3. m = 1 \/ h.dirs[m - 1].dir # dir
      <4> SUFFICES ASSUME m # 1 PROVE h.dirs[m - 1].dir # dir
        OBVIOUS
      <4>1. Len(g.dirs) \in Nat /\ DoubleTap \in Nat
        BY <1>1 DEF PadAssumption
      <4>6. /\ cut \in {0, 1} /\ (cut = 1 => Len(g.dirs) = DoubleTap + 1)
            /\ m = Len(g.dirs) + 1 - cut /\ m # 1
        BY <1>8
      <4> HIDE DEF cut, m
      <4>2. Len(g.dirs) # 0
        BY ONLY <4>1, <4>6
      <4>3. g.dirs # <<>>
        BY <4>2
      <4>4. m - 1 \in 1 .. Len(g.dirs) - cut /\ m - 1 + cut = Len(g.dirs)
        BY ONLY <4>1, <4>2, <4>6
      <4>5. h.dirs[m - 1] = g.dirs[Len(g.dirs)]
        BY <4>4, <1>8 DEF cut, m
      <4> QED BY <4>3, <4>5, <3>2 DEF Pad!Last, m
    <3>4. Clean(h.dirs, m, dir)
      BY <1>9, <1>10 DEF Clean
    <3>5. Len(h.dirs) - e.age = m
      BY <3>1, <1>9
    <3> QED BY <3>1, <3>2, <3>3, <3>4, <3>5, <1>9, <1>10 DEF FirstTap, PadAssumption
  <2>2. CASE a.ignore \/ dir = 0 \/ dir = a.prev
    <3>1. e.first = a.first /\ e.age = a.age /\ a.first # 0
      BY <2>2, <1>5, <1>6
    <3> DEFINE j == m - e.age
    <3>2. /\ a.first = d.first /\ a.age = d.age + 1 /\ a.age <= DoubleTap
          /\ j \in 1 .. m - 1
          /\ h.dirs[j].dir = a.first /\ ~h.dirs[j].turning
          /\ j = 1 \/ h.dirs[j - 1].dir # a.first
          /\ \A i \in j .. m - 1 : h.dirs[i].dir \in {a.first, 0} \/ h.dirs[i].turning
      <4>1. LET k == Len(h.dirs) - a.age
            IN  /\ a.first = d.first /\ a.age = d.age + 1 /\ a.age <= DoubleTap
                /\ k \in 1 .. Len(h.dirs) - 1
                /\ h.dirs[k].dir = a.first /\ ~h.dirs[k].turning
                /\ k = 1 \/ h.dirs[k - 1].dir # a.first
                /\ \A i \in k .. Len(h.dirs) - 1 :
                     h.dirs[i].dir \in {a.first, 0} \/ h.dirs[i].turning
        BY <3>1, <1>2, <1>4, OlderTap
      <4> QED BY <4>1, <3>1
    <3>3. dir \in {a.first, 0} \/ g.turning
      <4> SUFFICES ASSUME dir # 0, ~g.turning PROVE dir = a.first
        OBVIOUS
      <4>1. dir = d.prev /\ d.prev = Pad!Last(g.dirs) /\ g.dirs # <<>>
        BY <2>2, <1>3, <1>7 DEF Pad!Last
      <4>2. g.dirs[Len(g.dirs)].dir = dir /\ ~g.dirs[Len(g.dirs)].turning
        BY <4>1, <1>14 DEF Pad!Last
      <4>3. FirstTap(d, g.dirs)
        BY <3>1, <3>2 DEF TapsMatch
      <4>4. Len(g.dirs) \in Len(g.dirs) - d.age .. Len(g.dirs)
        BY <1>1 DEF Dashes
      <4>5. g.dirs[Len(g.dirs)].dir \in {d.first, 0} \/ g.dirs[Len(g.dirs)].turning
        BY <4>3, <4>4 DEF FirstTap, Clean
      <4> QED BY <4>2, <4>5, <3>2
    <3>4. Clean(h.dirs, j, e.first)
      <4> SUFFICES ASSUME NEW i \in j .. Len(h.dirs)
                   PROVE h.dirs[i].dir \in {e.first, 0} \/ h.dirs[i].turning
        BY DEF Clean
      <4>1. CASE i = m
        BY <4>1, <3>1, <3>3, <1>10
      <4>2. CASE i # m
        <5>1. i \in j .. m - 1
          BY <4>2, <1>9, <3>2
        <5> QED BY <5>1, <3>1, <3>2
      <4> QED BY <4>1, <4>2
    <3>5. j \in 1 .. m
      BY <3>2, <1>9
    <3> QED BY <3>1, <3>2, <3>4, <3>5 DEF FirstTap
  <2> QED BY <2>1, <2>2
<1> QED BY <1>6, <1>8, <1>9, <1>11, <1>12, <1>13, <1>15, <1>16 DEF TapsMatch

LEMMA TapsForgotten ==
  ASSUME PadAssumption, NEW g, g \in Histories, NEW h,
         h = [g EXCEPT !.dirs = <<>>, !.turning = FALSE, !.second = FALSE, !.owed = 0]
  PROVE  TapsMatch(Pad!NoDash, h) /\ h.owed = 0 /\ h.masked = g.masked
<1>1. Pad!NoDash \in Dashes
  BY DEF Pad!NoDash, Dashes
<1>2. <<>> \in Seq(Ticks) /\ Len(<<>>) <= DoubleTap + 1
  BY DEF PadAssumption
<1>3. /\ h \in Histories /\ h.dirs = <<>> /\ h.turning = FALSE /\ h.owed = 0
      /\ h.masked = g.masked
  <2>1. h = [dirs |-> <<>>, turning |-> FALSE, second |-> FALSE, owed |-> 0,
             masked |-> g.masked]
    BY DEF Histories
  <2>2. g.masked \in BOOLEAN
    BY DEF Histories
  <2>3. h.dirs = <<>> /\ ~h.turning /\ ~h.second /\ h.owed = 0 /\ h.masked = g.masked
    BY <2>1
  <2>4. 0 \in Int /\ FALSE \in BOOLEAN /\ <<>> \in Seq(Ticks)
    BY <1>2
  <2>5. h \in Histories
    BY <2>1, <2>2, <2>4 DEF Histories
  <2> QED BY <2>1, <2>3, <2>5
<1> QED BY <1>1, <1>2, <1>3 DEF TapsMatch, Pad!NoDash, Pad!Last

(* Nothing that TapsMatch says is about the seam of a frame.               *)
LEMMA TapsStay ==
  ASSUME NEW d, NEW g, TapsMatch(d, g), NEW bit \in BOOLEAN,
         NEW h, h = [g EXCEPT !.masked = bit]
  PROVE  TapsMatch(d, h) /\ h.owed = g.owed /\ h.masked = bit
<1>1. g \in Histories
  BY DEF TapsMatch
<1>2. /\ h \in Histories /\ h.dirs = g.dirs /\ h.turning = g.turning
      /\ h.second = g.second /\ h.owed = g.owed /\ h.masked = bit
  BY <1>1 DEF Histories
<1> QED BY <1>2 DEF TapsMatch

LEMMA PadStarts == ASSUME PadAssumption, Pad!Init PROVE PadInv
<1>1. PadTypes
  <2>1. /\ Pad!Released \in Pad!Buttons /\ 0 \in -1 .. 1
    BY DEF Pad!Released, Pad!Buttons
  <2>2. p_pad \in [valid : BOOLEAN, hold : Pad!Buttons, press : BOOLEAN, carry_a : BOOLEAN,
                   carry_down : BOOLEAN, carry_valid : BOOLEAN]
    BY <2>1 DEF Pad!Init, Pad!NoPad
  <2> QED BY <2>1, <2>2 DEF Pad!Init, PadTypes
<1>2. TapsMatch(p_dash, p_ghost)
  <2>1. Pad!NoDash \in Dashes
    BY DEF Pad!NoDash, Dashes
  <2>2. <<>> \in Seq(Ticks) /\ Len(<<>>) <= DoubleTap + 1
    BY DEF PadAssumption
  <2>3. /\ p_ghost \in Histories /\ p_ghost.dirs = <<>> /\ p_ghost.turning = FALSE
        /\ p_dash = Pad!NoDash
    BY <2>2 DEF Pad!Init, Histories
  <2> QED BY <2>1, <2>2, <2>3 DEF TapsMatch, Pad!NoDash, Pad!Last
<1>3. Pad!SpecialOnce /\ CarryMatch
  BY DEF Pad!Init, Pad!SpecialOnce, CarryMatch, Pad!CarryFollowsA
<1> QED BY <1>1, <1>2, <1>3 DEF PadInv

(* $00:DC2D with the fighter in charge.                                    *)
LEMMA TickStep ==
  ASSUME PadAssumption, PadInv, NEW turns \in BOOLEAN,
         p_dash' = [Pad!smw_falcon_input.dash EXCEPT !.ignore = @ \/ turns],
         p_grace' = Pad!smw_falcon_input.grace,
         p_ghost' = Pad!Ticked(Pad!smw_falcon_input, turns)
  PROVE  /\ TapsMatch(p_dash', p_ghost') /\ Pad!SpecialOnce' /\ p_grace' \in BOOLEAN
         /\ p_ghost'.masked = p_ghost.masked
<1> DEFINE i == Pad!smw_falcon_input
           words == IF p_pad.valid THEN [p_pad.hold EXCEPT !.special = p_pad.press]
                    ELSE [dir |-> p_io.dir, down |-> p_io.down, special |-> p_io.press,
                          carry |-> p_io.a]
           directed == words.dir # 0 \/ words.down
<1>1. /\ words.dir \in -1 .. 1 /\ words.special \in BOOLEAN
  BY DEF PadInv, PadTypes, Pad!Buttons
<1>2. /\ i.dash = Pad!Tap(Pad!AgeTap(p_dash), words.dir)
      /\ i.grace = (words.special /\ ~directed)
      /\ i.press = words.special /\ i.out.dir = words.dir
      /\ i.out.special = IF words.special THEN directed ELSE p_grace
  BY DEF Pad!smw_falcon_input, Pad!GraceAfter
<1>3. directed \in BOOLEAN /\ p_grace \in BOOLEAN
  BY DEF PadInv, PadTypes
<1>4. i = Pad!smw_falcon_input
  OBVIOUS
<1> HIDE DEF i, words, directed
<1> DEFINE dir == words.dir
           t == [dir |-> dir, turning |-> p_ghost.turning]
           second == IF dir # 0 /\ dir # Pad!Last(p_ghost.dirs)
                     THEN Pad!Second(p_ghost.dirs, dir)
                     ELSE p_ghost.second /\ dir = Pad!Last(p_ghost.dirs)
           owed == IF ~i.out.special THEN IF i.press THEN 1 ELSE p_ghost.owed
                   ELSE IF i.press THEN 0 ELSE p_ghost.owed - 1
<1>5. TapsMatch(p_dash, p_ghost) /\ p_ghost \in Histories /\ p_ghost.owed \in Int
  BY DEF PadInv, TapsMatch, Histories
<1>6. p_ghost' = [p_ghost EXCEPT !.dirs = Longer(p_ghost.dirs, t),
                    !.turning = turns \/ (@ /\ dir # 0),
                    !.second = second, !.owed = owed]
  BY <1>2, <1>4 DEF Pad!Ticked, Longer
<1>7. second \in BOOLEAN /\ owed \in Int /\ Longer(p_ghost.dirs, t) \in Seq(Ticks)
  <2>1. second \in BOOLEAN
    BY <1>5 DEF Histories, Pad!Second
  <2>2. owed \in Int
    BY <1>5
  <2>3. t \in Ticks
    BY <1>1, <1>5 DEF Ticks, Histories
  <2>4. p_ghost.dirs \in Seq(Ticks) /\ Len(p_ghost.dirs) <= DoubleTap + 1
    BY <1>5 DEF TapsMatch, Histories
  <2> HIDE DEF second, owed, t
  <2> QED BY <2>1, <2>2, <2>3, <2>4, Appended
<1>8. owed = IF words.special /\ ~directed THEN 1 ELSE 0
  BY <1>2, <1>3, <1>1 DEF PadInv, Pad!SpecialOnce
<1> HIDE DEF second, owed
<1>9. /\ p_ghost' \in Histories
      /\ p_ghost'.dirs = Longer(p_ghost.dirs, t)
      /\ p_ghost'.turning <=> turns \/ (p_ghost.turning /\ dir # 0)
      /\ p_ghost'.second <=> second
      /\ p_ghost'.owed = owed /\ p_ghost'.masked = p_ghost.masked
  BY <1>5, <1>6, <1>7 DEF Histories
<1>10. p_dash' = [Pad!Tap(Pad!AgeTap(p_dash), dir) EXCEPT !.ignore = @ \/ turns]
  BY <1>2, <1>4
<1>11. p_grace' = (words.special /\ ~directed)
  BY <1>2, <1>4
<1>12. TapsMatch(p_dash', p_ghost')
  BY <1>1, <1>5, <1>9, <1>10, TapsStep DEF second
<1>13. Pad!SpecialOnce'
  BY <1>8, <1>9, <1>11 DEF Pad!SpecialOnce
<1> QED BY <1>9, <1>11, <1>12, <1>13

PadSet == [valid : BOOLEAN, hold : Pad!Buttons, press : BOOLEAN, carry_a : BOOLEAN,
           carry_down : BOOLEAN, carry_valid : BOOLEAN]

LEMMA PadWords ==
  /\ \A q \in PadSet : Pad!Invalid(q) \in PadSet /\ Pad!Invalid(q).carry_valid = q.carry_valid
       /\ Pad!Invalid(q).carry_a = q.carry_a /\ Pad!Invalid(q).carry_down = q.carry_down
  /\ \A q \in PadSet : [q EXCEPT !.carry_valid = FALSE] \in PadSet
  /\ \A q \in PadSet :
       [q EXCEPT !.carry_a = FALSE, !.carry_down = FALSE, !.carry_valid = FALSE] \in PadSet
<1>1. Pad!Released \in Pad!Buttons
  BY DEF Pad!Released, Pad!Buttons
<1>2. ASSUME NEW q \in PadSet PROVE Pad!Invalid(q) \in PadSet
  BY <1>1 DEF Pad!Invalid, PadSet
<1>3. ASSUME NEW q \in PadSet
      PROVE  /\ Pad!Invalid(q).carry_valid = q.carry_valid
             /\ Pad!Invalid(q).carry_a = q.carry_a /\ Pad!Invalid(q).carry_down = q.carry_down
  BY DEF Pad!Invalid, PadSet
<1>4. ASSUME NEW q \in PadSet
      PROVE  /\ [q EXCEPT !.carry_valid = FALSE] \in PadSet
             /\ [q EXCEPT !.carry_a = FALSE, !.carry_down = FALSE, !.carry_valid = FALSE]
                  \in PadSet
  BY DEF PadSet
<1> QED BY <1>2, <1>3, <1>4

IoSet == [dir : -1 .. 1, y : BOOLEAN, down : BOOLEAN, a : BOOLEAN, press : BOOLEAN]

\* What every seam finds, in the sets above.
LEMMA PadFacts ==
  PadInv => /\ PadTypes /\ p_pad \in PadSet /\ p_io \in IoSet
            /\ TapsMatch(p_dash, p_ghost) /\ p_ghost \in Histories
            /\ Pad!SpecialOnce /\ CarryMatch
BY DEF PadInv, PadTypes, PadSet, IoSet, TapsMatch

LEMMA PadFrames == ASSUME PadAssumption, PadInv, Pad!Frame PROVE PadInv'
<1>1. /\ p_at' \in {"D5F2", "DC2D", "80D2"} /\ p_phys' \in Pad!Buttons
      /\ p_guest' \in [playable : BOOLEAN, pipe : BOOLEAN, carrying : BOOLEAN]
      /\ p_own' = p_own /\ p_pad' = p_pad /\ p_dash' = p_dash /\ p_grace' = p_grace
      /\ p_ghost' = [p_ghost EXCEPT !.masked = FALSE]
  BY DEF Pad!Frame
<1>2. p_io' \in IoSet /\ p_io'.a = p_phys'.carry /\ p_io'.down = p_phys'.down
  <2>1. p_io' = [dir |-> p_phys'.dir, y |-> p_phys'.special, down |-> p_phys'.down,
                 a |-> p_phys'.carry, press |-> p_phys'.special /\ ~p_phys.special]
    BY DEF Pad!Frame
  <2>2. /\ p_phys'.dir \in -1 .. 1 /\ p_phys'.special \in BOOLEAN
        /\ p_phys'.down \in BOOLEAN /\ p_phys'.carry \in BOOLEAN
    BY <1>1 DEF Pad!Buttons
  <2> QED BY <2>1, <2>2 DEF IoSet
<1>3. TapsMatch(p_dash', p_ghost') /\ p_ghost'.owed = p_ghost.owed /\ ~p_ghost'.masked
  BY <1>1, PadFacts, TapsStay
<1>4. PadTypes'
  BY <1>1, <1>2, PadFacts DEF PadTypes, IoSet
<1>5. Pad!SpecialOnce'
  BY <1>1, <1>3, PadFacts DEF Pad!SpecialOnce
<1>6. CarryMatch'
  BY <1>1, <1>2, <1>3, PadFacts DEF CarryMatch, Pad!CarryFollowsA
<1> QED BY <1>3, <1>4, <1>5, <1>6 DEF PadInv

LEMMA PadScripts == ASSUME PadInv, Pad!Script PROVE PadInv'
<1>1. /\ p_at \in {"DC2D", "80D2"} /\ p_guest' = [p_guest EXCEPT !.playable = FALSE]
      /\ UNCHANGED <<p_at, p_phys, p_io, p_own, p_pad, p_dash, p_grace, p_ghost>>
  BY DEF Pad!Script
<1>2. /\ p_guest' \in [playable : BOOLEAN, pipe : BOOLEAN, carrying : BOOLEAN]
      /\ ~p_guest'.playable
  BY <1>1, PadFacts DEF PadTypes
<1>3. PadTypes'
  BY <1>1, <1>2, PadFacts DEF PadTypes
<1>4. TapsMatch(p_dash, p_ghost)' /\ Pad!SpecialOnce'
  BY <1>1, PadFacts DEF Pad!SpecialOnce
<1>5. CarryMatch'
  BY <1>1, <1>2, PadFacts DEF CarryMatch, Pad!CarryFollowsA
<1> QED BY <1>3, <1>4, <1>5 DEF PadInv

LEMMA PadSelects == ASSUME PadInv, Pad!Select PROVE PadInv'
<1>1. /\ p_at = "frame" /\ p_own' \in [active : BOOLEAN, foreign : {FALSE}]
      /\ UNCHANGED <<p_at, p_phys, p_io, p_guest, p_pad, p_dash, p_grace, p_ghost>>
  BY DEF Pad!Select
<1>2. p_own' \in [active : BOOLEAN, foreign : BOOLEAN] /\ ~p_own'.foreign
  BY <1>1
<1>3. PadTypes'
  BY <1>1, <1>2, PadFacts DEF PadTypes
<1>4. TapsMatch(p_dash, p_ghost)' /\ Pad!SpecialOnce'
  BY <1>1, PadFacts DEF Pad!SpecialOnce
<1>5. CarryMatch'
  BY <1>1, <1>2, PadFacts DEF CarryMatch, Pad!CarryFollowsA
<1> QED BY <1>3, <1>4, <1>5 DEF PadInv

LEMMA PadLoads == ASSUME PadAssumption, PadInv, Pad!SmwFalconOnStateLoaded PROVE PadInv'
<1>1. /\ p_at = "frame" /\ p_dash' = Pad!NoDash /\ p_grace' = FALSE
      /\ p_pad' = [Pad!Invalid(p_pad) EXCEPT !.carry_a = FALSE, !.carry_down = FALSE,
                                             !.carry_valid = FALSE]
      /\ p_io' = IF p_own.active
                 THEN [p_io EXCEPT !.y = FALSE, !.down = FALSE, !.press = FALSE] ELSE p_io
      /\ p_ghost' = [p_ghost EXCEPT !.dirs = <<>>, !.turning = FALSE, !.second = FALSE,
                                    !.owed = 0]
      /\ UNCHANGED <<p_at, p_phys, p_guest, p_own>>
  BY DEF Pad!SmwFalconOnStateLoaded, Pad!Forgotten
<1>2. p_pad' \in PadSet
  BY <1>1, PadFacts, PadWords
<1>3. p_io' \in IoSet
  BY <1>1, PadFacts DEF IoSet
<1>4. TapsMatch(p_dash', p_ghost') /\ p_ghost'.owed = 0
  BY <1>1, PadFacts, TapsForgotten
<1>5. PadTypes'
  BY <1>1, <1>2, <1>3, PadFacts DEF PadTypes, PadSet, IoSet
<1>6. Pad!SpecialOnce'
  BY <1>1, <1>4 DEF Pad!SpecialOnce
<1>7. CarryMatch'
  BY <1>1, PadFacts DEF CarryMatch, Pad!CarryFollowsA
<1> QED BY <1>4, <1>5, <1>6, <1>7 DEF PadInv

LEMMA PadCaptures ==
  ASSUME PadAssumption, PadInv, Pad!SmwFalconBeforePlayerPhysics PROVE PadInv'
<1>1. /\ p_at = "D5F2" /\ p_at' = "DC2D" /\ UNCHANGED <<p_phys, p_guest, p_own>>
  BY DEF Pad!SmwFalconBeforePlayerPhysics
<1>2. CASE p_own.active /\ p_guest.playable
  <2>1. /\ p_pad' = [valid |-> TRUE,
                     hold |-> [dir |-> p_io.dir, down |-> p_io.down, special |-> p_io.y,
                               carry |-> p_io.a],
                     press |-> p_io.press, carry_a |-> p_io.a, carry_down |-> p_io.down,
                     carry_valid |-> TRUE]
        /\ p_io' = Pad!Masked(p_io, p_guest.pipe)
        /\ p_ghost' = [p_ghost EXCEPT !.masked = TRUE]
        /\ p_dash' = p_dash /\ p_grace' = p_grace
    BY <1>2 DEF Pad!SmwFalconBeforePlayerPhysics, Pad!capture_and_mask_input
  <2>2. p_io.dir \in -1 .. 1 /\ p_io.down \in BOOLEAN /\ p_io.y \in BOOLEAN
        /\ p_io.a \in BOOLEAN /\ p_io.press \in BOOLEAN /\ p_guest.pipe \in BOOLEAN
    BY PadFacts DEF PadTypes
  <2>3. p_pad' \in PadSet
    BY <2>1, <2>2 DEF PadSet, Pad!Buttons
  <2>4. p_io' \in IoSet
    <3>1. 0 \in -1 .. 1 /\ (p_guest.pipe /\ p_io.down) \in BOOLEAN
      OBVIOUS
    <3> QED BY <2>1, <3>1 DEF IoSet, Pad!Masked
  <2>5. TapsMatch(p_dash', p_ghost') /\ p_ghost'.owed = p_ghost.owed
    BY <2>1, PadFacts, TapsStay
  <2>6. PadTypes'
    BY <1>1, <2>1, <2>3, <2>4, PadFacts DEF PadTypes, PadSet, IoSet
  <2>7. Pad!SpecialOnce'
    BY <2>1, <2>5, PadFacts DEF Pad!SpecialOnce
  <2>8. CarryMatch'
    <3>1. p_pad'.carry_valid /\ p_pad'.carry_a = p_io.a /\ p_pad'.carry_down = p_io.down
      BY <2>1
    <3> QED BY <1>1, <3>1, PadFacts DEF CarryMatch, Pad!CarryFollowsA
  <2> QED BY <2>5, <2>6, <2>7, <2>8 DEF PadInv
<1>3. CASE ~(p_own.active /\ p_guest.playable)
  <2>1. /\ p_pad' = [Pad!Invalid(p_pad) EXCEPT !.carry_valid = FALSE]
        /\ p_dash' = Pad!NoDash /\ p_grace' = FALSE /\ p_io' = p_io
        /\ p_ghost' = [p_ghost EXCEPT !.dirs = <<>>, !.turning = FALSE, !.second = FALSE,
                                      !.owed = 0]
    BY <1>3 DEF Pad!SmwFalconBeforePlayerPhysics, Pad!Forgotten
  <2>2. p_pad' \in PadSet
    BY <2>1, PadFacts, PadWords
  <2>3. TapsMatch(p_dash', p_ghost') /\ p_ghost'.owed = 0 /\ p_ghost'.masked = p_ghost.masked
    BY <2>1, PadFacts, TapsForgotten
  <2>4. PadTypes'
    BY <1>1, <2>1, <2>2, PadFacts DEF PadTypes, PadSet
  <2>5. Pad!SpecialOnce'
    BY <2>1, <2>3 DEF Pad!SpecialOnce
  <2>6. CarryMatch'
    BY <1>1, <1>3, <2>1, <2>3, PadFacts DEF CarryMatch, Pad!CarryFollowsA
  <2> QED BY <2>3, <2>4, <2>5, <2>6 DEF PadInv
<1> QED BY <1>2, <1>3

LEMMA PadTicks == ASSUME PadAssumption, PadInv, Pad!SmwFalconBeforePhysics PROVE PadInv'
<1>1. p_at = "DC2D" /\ p_at' = "80D2" /\ UNCHANGED <<p_phys, p_guest>>
  BY DEF Pad!SmwFalconBeforePhysics
<1>2. CASE ~p_own.active /\ UNCHANGED <<p_io, p_own, p_pad, p_dash, p_grace, p_ghost>>
  <2>1. PadTypes'
    BY <1>1, <1>2, PadFacts DEF PadTypes
  <2>2. CarryMatch'
    BY <1>1, <1>2, PadFacts DEF CarryMatch, Pad!CarryFollowsA
  <2>3. TapsMatch(p_dash, p_ghost)' /\ Pad!SpecialOnce'
    BY <1>2, PadFacts DEF Pad!SpecialOnce
  <2> QED BY <2>1, <2>2, <2>3 DEF PadInv
<1>3. CASE /\ p_own.active /\ ~p_guest.playable
           /\ p_own' = [p_own EXCEPT !.foreign = FALSE]
           /\ p_dash' = Pad!NoDash /\ p_grace' = FALSE
           /\ Pad!clear_carry_bridge
           /\ p_ghost' = Pad!Forgotten
  <2>1. /\ p_pad' = [p_pad EXCEPT !.carry_a = FALSE, !.carry_down = FALSE,
                                  !.carry_valid = FALSE]
        /\ p_io' = IF p_own.active
                   THEN [p_io EXCEPT !.y = FALSE, !.down = FALSE, !.press = FALSE] ELSE p_io
        /\ p_ghost' = [p_ghost EXCEPT !.dirs = <<>>, !.turning = FALSE, !.second = FALSE,
                                      !.owed = 0]
    BY <1>3 DEF Pad!clear_carry_bridge, Pad!Forgotten
  <2>2. p_pad' \in PadSet
    BY <2>1, PadFacts, PadWords
  <2>3. p_io' \in IoSet
    BY <2>1, PadFacts DEF IoSet
  <2>4. TapsMatch(p_dash', p_ghost') /\ p_ghost'.owed = 0
    BY <1>3, <2>1, PadFacts, TapsForgotten
  <2>5. p_own' \in [active : BOOLEAN, foreign : BOOLEAN] /\ ~p_own'.foreign
    BY <1>3, PadFacts DEF PadTypes
  <2>6. PadTypes'
    BY <1>1, <1>3, <2>2, <2>3, <2>5, PadFacts DEF PadTypes, PadSet, IoSet
  <2>7. Pad!SpecialOnce'
    BY <1>3, <2>4 DEF Pad!SpecialOnce
  <2>8. CarryMatch'
    BY <1>1, <1>3, <2>5, PadFacts DEF CarryMatch, Pad!CarryFollowsA
  <2> QED BY <2>4, <2>6, <2>7, <2>8 DEF PadInv
<1>4. CASE /\ p_own.active /\ p_guest.playable
           /\ p_own' = [p_own EXCEPT !.foreign = TRUE]
           /\ p_pad' = Pad!Invalid(p_pad) /\ p_io' = p_io
           /\ p_grace' = Pad!smw_falcon_input.grace
           /\ \E turns \in BOOLEAN :
                /\ p_dash' = [Pad!smw_falcon_input.dash EXCEPT !.ignore = @ \/ turns]
                /\ p_ghost' = Pad!Ticked(Pad!smw_falcon_input, turns)
  <2>1. PICK turns \in BOOLEAN :
          /\ p_dash' = [Pad!smw_falcon_input.dash EXCEPT !.ignore = @ \/ turns]
          /\ p_ghost' = Pad!Ticked(Pad!smw_falcon_input, turns)
    BY <1>4
  <2>2. /\ TapsMatch(p_dash', p_ghost') /\ Pad!SpecialOnce' /\ p_grace' \in BOOLEAN
        /\ p_ghost'.masked = p_ghost.masked
    BY <1>4, <2>1, TickStep
  <2>3. /\ p_pad' \in PadSet /\ p_pad'.carry_valid = p_pad.carry_valid
        /\ p_pad'.carry_a = p_pad.carry_a /\ p_pad'.carry_down = p_pad.carry_down
    BY <1>4, PadFacts, PadWords
  <2>4. /\ p_own' \in [active : BOOLEAN, foreign : BOOLEAN] /\ p_own'.active
    BY <1>4, PadFacts DEF PadTypes
  <2>5. PadTypes'
    BY <1>1, <1>4, <2>2, <2>3, <2>4, PadFacts DEF PadTypes, PadSet
  <2>6. CarryMatch'
    BY <1>1, <1>4, <2>2, <2>3, <2>4, PadFacts DEF CarryMatch, Pad!CarryFollowsA
  <2> QED BY <2>2, <2>5, <2>6 DEF PadInv
<1> QED BY <1>2, <1>3, <1>4 DEF Pad!SmwFalconBeforePhysics

LEMMA PadCarries == ASSUME PadInv, Pad!SmwFalconBeforeNormalSprites PROVE PadInv'
<1>1. /\ p_at = "80D2" /\ p_at' = "sprite"
      /\ UNCHANGED <<p_phys, p_guest, p_own, p_dash, p_grace, p_ghost>>
  BY DEF Pad!SmwFalconBeforeNormalSprites
<1>2. TapsMatch(p_dash, p_ghost)' /\ Pad!SpecialOnce'
  BY <1>1, PadFacts DEF Pad!SpecialOnce
<1>3. CASE p_own.active /\ p_own.foreign /\ p_guest.playable
  <2>1. /\ p_pad' = p_pad
        /\ p_io' = IF p_pad.carry_valid THEN Pad!emit_carry_input(p_io) ELSE p_io
    BY <1>3 DEF Pad!SmwFalconBeforeNormalSprites
  <2>2. p_pad.carry_a \in BOOLEAN /\ p_pad.carry_down \in BOOLEAN
        /\ p_guest.carrying \in BOOLEAN
    BY PadFacts DEF PadTypes
  <2>3. /\ Pad!emit_carry_input(p_io) \in IoSet
        /\ Pad!emit_carry_input(p_io).y = p_pad.carry_a
        /\ Pad!emit_carry_input(p_io).down <=>
             ~p_pad.carry_a /\ p_guest.carrying /\ p_pad.carry_down
    BY <2>2, PadFacts DEF IoSet, Pad!emit_carry_input
  <2>4. p_io' \in IoSet
    BY <2>1, <2>3, PadFacts
  <2>5. PadTypes'
    BY <1>1, <2>1, <2>4, PadFacts DEF PadTypes, IoSet
  <2>6. CarryMatch'
    <3>1. ASSUME p_ghost.masked
          PROVE /\ p_io' = Pad!emit_carry_input(p_io)
                /\ p_pad.carry_a = p_phys.carry /\ p_pad.carry_down = p_phys.down
      BY <1>1, <1>3, <2>1, <3>1, PadFacts DEF CarryMatch
    <3> QED BY <1>1, <2>3, <3>1, PadFacts DEF CarryMatch, Pad!CarryFollowsA
  <2> QED BY <1>2, <2>5, <2>6 DEF PadInv
<1>4. CASE ~(p_own.active /\ p_own.foreign /\ p_guest.playable)
  <2>1. /\ p_pad' = [p_pad EXCEPT !.carry_a = FALSE, !.carry_down = FALSE,
                                  !.carry_valid = FALSE]
        /\ p_io' = IF p_own.active
                   THEN [p_io EXCEPT !.y = FALSE, !.down = FALSE, !.press = FALSE] ELSE p_io
    BY <1>4 DEF Pad!SmwFalconBeforeNormalSprites, Pad!clear_carry_bridge
  <2>2. p_pad' \in PadSet
    BY <2>1, PadFacts, PadWords
  <2>3. p_io' \in IoSet
    BY <2>1, PadFacts DEF IoSet
  <2>4. PadTypes'
    BY <1>1, <2>2, <2>3, PadFacts DEF PadTypes, PadSet, IoSet
  <2>5. CarryMatch'
    BY <1>1, <1>4, PadFacts DEF CarryMatch, Pad!CarryFollowsA
  <2> QED BY <1>2, <2>4, <2>5 DEF PadInv
<1> QED BY <1>3, <1>4

LEMMA PadSteps == ASSUME PadAssumption, PadInv, [Pad!Next]_(Pad!vars) PROVE PadInv'
<1>1. CASE Pad!SpriteRuns
  <2>1. /\ p_at' = "frame"
        /\ UNCHANGED <<p_phys, p_io, p_guest, p_own, p_pad, p_dash, p_grace, p_ghost>>
    BY <1>1 DEF Pad!SpriteRuns
  <2>2. PadTypes'
    BY <2>1, PadFacts DEF PadTypes
  <2>3. CarryMatch' /\ Pad!SpecialOnce'
    BY <2>1, PadFacts DEF CarryMatch, Pad!CarryFollowsA, Pad!SpecialOnce
  <2> QED BY <2>1, <2>2, <2>3, PadFacts DEF PadInv
<1>2. CASE UNCHANGED Pad!vars
  <2>1. UNCHANGED <<p_at, p_phys, p_io, p_guest, p_own, p_pad, p_dash, p_grace, p_ghost>>
    BY <1>2 DEF Pad!vars
  <2>2. PadTypes'
    BY <2>1, PadFacts DEF PadTypes
  <2>3. CarryMatch' /\ Pad!SpecialOnce'
    BY <2>1, PadFacts DEF CarryMatch, Pad!CarryFollowsA, Pad!SpecialOnce
  <2> QED BY <2>1, <2>2, <2>3, PadFacts DEF PadInv
<1> QED BY <1>1, <1>2, PadFrames, PadScripts, PadSelects, PadLoads, PadCaptures, PadTicks,
           PadCarries DEF Pad!Next

(* What was pressed is what the fighter and the guest are given: a full    *)
(* stick is the second tap of its direction inside the window, whatever    *)
(* the window, a special is delivered once, and the carried sprite follows *)
(* A (smw_falcon_input, capture_and_mask_input, emit_carry_input).         *)
THEOREM PressesAreKept == Spec => []PressesKept
<1>1. PadAssumption
  BY SeamAssumption DEF PadAssumption
<1>2. Init => PadInv
  BY <1>1, PadStarts DEF Init
<1>3. PadInv /\ [Next]_vars => PadInv'
  <2>1. [Next]_vars => [Pad!Next]_(Pad!vars)
    BY DEF Next, vars, pad, Pad!vars
  <2> QED BY <1>1, <2>1, PadSteps
<1>4. PadInv => PressesKept
  BY DEF PadInv, TapsMatch, CarryMatch, PressesKept, Pad!PressesKept, Pad!DashIsSecondTap
<1> QED BY <1>2, <1>3, <1>4, PTL DEF Spec

-----------------------------------------------------------------------------
(* The blocks.  Tiles are told by their column and row from the player's,  *)
(* the column counted the way he faces; the columns of a player who faces  *)
(* left are mirrored about the two that he stands in.                      *)
Tile == Int \X Int

Column(p, t) == IF p.dir = 1 THEN t[1] - (p.x \div 16) ELSE (p.x \div 16) + 1 - t[1]
Row(p, t) == t[2] - (p.y \div 16)

(* A rectangle of columns and rows, and how many tiles it has.             *)
Rectangle(p, a, b, c, d) ==
  {t \in Tile : Column(p, t) \in a .. b /\ Row(p, t) \in c .. d}

(* Where the player may be; he faces one way or the other.                 *)
Placed(p) == p.x \in Int /\ p.y \in Int /\ p.dir \in {-1, 1}

LEMMA RectangleCount ==
  ASSUME NEW p, Placed(p), NEW a \in Int, NEW b \in Int, NEW c \in Int, NEW d \in Int,
         a <= b, c <= d
  PROVE  /\ IsFiniteSet(Rectangle(p, a, b, c, d))
         /\ Cardinality(Rectangle(p, a, b, c, d)) = (b - a + 1) * (d - c + 1)
<1>1. PICK x \in Int : x = p.x \div 16
  BY DEF Placed
<1>2. PICK y \in Int : y = p.y \div 16
  BY DEF Placed
<1> DEFINE from == IF p.dir = 1 THEN x + a ELSE x + 1 - b
           S == from .. from + (b - a)
           T == y + c .. y + d
<1>3. from \in Int
  BY <1>1
<1>4. Rectangle(p, a, b, c, d) = S \X T
  <2>1. ASSUME NEW t \in Tile PROVE t \in Rectangle(p, a, b, c, d) <=> t \in S \X T
    <3>1. t[1] \in Int /\ t[2] \in Int /\ t = <<t[1], t[2]>>
      BY DEF Tile
    <3>2. Row(p, t) \in c .. d <=> t[2] \in T
      BY <1>2, <3>1 DEF Row
    <3>3. Column(p, t) \in a .. b <=> t[1] \in S
      BY <1>1, <3>1 DEF Column
    <3> HIDE DEF S, T
    <3> QED BY <3>1, <3>2, <3>3 DEF Rectangle
  <2>2. S \X T \subseteq Tile
    BY <1>3, <1>2 DEF Tile
  <2> HIDE DEF S, T
  <2> QED BY <2>1, <2>2 DEF Rectangle
<1>5. IsFiniteSet(S) /\ Cardinality(S) = b - a + 1
  <2>1. /\ from + (b - a) \in Int /\ ~(from > from + (b - a))
        /\ from + (b - a) - from + 1 = b - a + 1
    BY <1>3
  <2> HIDE DEF from
  <2> QED BY <1>3, <2>1, FS_Interval
<1>6. IsFiniteSet(T) /\ Cardinality(T) = d - c + 1
  <2>1. y + c \in Int /\ y + d \in Int /\ ~(y + c > y + d) /\ (y + d) - (y + c) + 1 = d - c + 1
    OBVIOUS
  <2> QED BY <2>1, FS_Interval
<1> HIDE DEF S, T
<1>7. IsFiniteSet(S \X T) /\ Cardinality(S \X T) = Cardinality(S) * Cardinality(T)
  BY <1>5, <1>6, FS_Product
<1> QED BY <1>4, <1>5, <1>6, <1>7

(* Two sets have no more elements than the one and the other.              *)
LEMMA UnionCount ==
  ASSUME NEW S, IsFiniteSet(S), NEW T, IsFiniteSet(T), NEW m \in Nat, NEW n \in Nat,
         Cardinality(S) <= m, Cardinality(T) <= n
  PROVE  IsFiniteSet(S \cup T) /\ Cardinality(S \cup T) <= m + n
<1>1. IsFiniteSet(S \cap T)
  BY FS_Subset
<1>2. /\ Cardinality(S) \in Nat /\ Cardinality(T) \in Nat /\ Cardinality(S \cap T) \in Nat
  BY <1>1, FS_CardinalityType
<1> QED BY <1>2, FS_Union

(* What a call may break, by the kind of the move: a diagonal kick, a      *)
(* punch on the ground, and any other.                                     *)
DiagonalReach(p) ==
  ((((Rectangle(p, -1, 4, 0, 0) \cup Rectangle(p, -1, 5, 1, 2))
      \cup Rectangle(p, -1, 7, 3, 4)) \cup Rectangle(p, 0, 7, 5, 6))
      \cup Rectangle(p, 0, 8, 7, 7))

Reach(move, p) ==
  IF move \in {"kick_air", "kick_landing"} THEN DiagonalReach(p)
  ELSE IF move = "punch_ground" THEN Rectangle(p, 0, 4, -2, 4)
  ELSE Rectangle(p, 0, 8, -1, 4)

(* However he stands on the tiles, that is no more than are remembered.    *)
LEMMA ReachCount ==
  ASSUME NEW p, Placed(p), NEW move
  PROVE  IsFiniteSet(Reach(move, p)) /\ Cardinality(Reach(move, p)) <= 64
<1>1. /\ IsFiniteSet(Rectangle(p, -1, 4, 0, 0)) /\ Cardinality(Rectangle(p, -1, 4, 0, 0)) = 6
  BY RectangleCount
<1>2. /\ IsFiniteSet(Rectangle(p, -1, 5, 1, 2)) /\ Cardinality(Rectangle(p, -1, 5, 1, 2)) = 14
  BY RectangleCount
<1>3. /\ IsFiniteSet(Rectangle(p, -1, 7, 3, 4)) /\ Cardinality(Rectangle(p, -1, 7, 3, 4)) = 18
  BY RectangleCount
<1>4. /\ IsFiniteSet(Rectangle(p, 0, 7, 5, 6)) /\ Cardinality(Rectangle(p, 0, 7, 5, 6)) = 16
  BY RectangleCount
<1>5. /\ IsFiniteSet(Rectangle(p, 0, 8, 7, 7)) /\ Cardinality(Rectangle(p, 0, 8, 7, 7)) = 9
  BY RectangleCount
<1>6. /\ IsFiniteSet(Rectangle(p, 0, 4, -2, 4)) /\ Cardinality(Rectangle(p, 0, 4, -2, 4)) = 35
  BY RectangleCount
<1>7. /\ IsFiniteSet(Rectangle(p, 0, 8, -1, 4)) /\ Cardinality(Rectangle(p, 0, 8, -1, 4)) = 54
  BY RectangleCount
<1>8. IsFiniteSet(DiagonalReach(p)) /\ Cardinality(DiagonalReach(p)) <= 63
  <2> DEFINE S2 == Rectangle(p, -1, 4, 0, 0) \cup Rectangle(p, -1, 5, 1, 2)
             S3 == S2 \cup Rectangle(p, -1, 7, 3, 4)
             S4 == S3 \cup Rectangle(p, 0, 7, 5, 6)
  <2>1. IsFiniteSet(S2) /\ Cardinality(S2) <= 20
    BY <1>1, <1>2, UnionCount
  <2>2. IsFiniteSet(S3) /\ Cardinality(S3) <= 38
    <3> HIDE DEF S2
    <3> QED BY <2>1, <1>3, UnionCount
  <2>3. IsFiniteSet(S4) /\ Cardinality(S4) <= 54
    <3> HIDE DEF S3
    <3> QED BY <2>2, <1>4, UnionCount
  <2>4. DiagonalReach(p) = S4 \cup Rectangle(p, 0, 8, 7, 7)
    BY DEF DiagonalReach
  <2> HIDE DEF S4
  <2> QED BY <2>3, <2>4, <1>5, UnionCount
<1>9. Cardinality(DiagonalReach(p)) \in Nat
  BY <1>8, FS_CardinalityType
<1> HIDE DEF DiagonalReach
<1> QED BY <1>6, <1>7, <1>8, <1>9 DEF Reach

(* A box from l to r before the player and from u to w below his corner,   *)
(* in hundredths of a pixel.                                               *)
Facing(p, l, u, r, w) ==
  IF p.dir = 1
  THEN Blocks!Box(100 * p.x + l, 100 * p.y + u, 100 * p.x + r, 100 * p.y + w)
  ELSE Blocks!Box(100 * p.x + 1600 - r, 100 * p.y + u, 100 * p.x + 1600 - l, 100 * p.y + w)

LEMMA Quotients ==
  ASSUME NEW n \in Int
  PROVE  /\ n \div 16 \in Int /\ 16 * (n \div 16) <= n /\ n < 16 * (n \div 16) + 16
         /\ n \div 1600 \in Int /\ 1600 * (n \div 1600) <= n
         /\ n < 1600 * (n \div 1600) + 1600
OBVIOUS

(* A tile of a box overlaps it.                                            *)
LEMMA TilesInside ==
  ASSUME NEW v, v.left \in Int, v.top \in Int, v.right \in Int, v.bottom \in Int,
         NEW t \in Blocks!Tiles(v)
  PROVE  t \in Tile /\ Blocks!Inside(t, v)
<1>1. PICK l \in Int : l = v.left \div 1600 /\ v.left < 1600 * l + 1600
  BY Quotients
<1>2. PICK r \in Int : r = (v.right - 1) \div 1600 /\ 1600 * r <= v.right - 1
  <2>1. v.right - 1 \in Int
    OBVIOUS
  <2> QED BY <2>1, Quotients
<1>3. PICK u \in Int : u = v.top \div 1600 /\ v.top < 1600 * u + 1600
  BY Quotients
<1>4. PICK w \in Int : w = (v.bottom - 1) \div 1600 /\ 1600 * w <= v.bottom - 1
  <2>1. v.bottom - 1 \in Int
    OBVIOUS
  <2> QED BY <2>1, Quotients
<1>5. t \in (l .. r) \X (u .. w)
  BY <1>1, <1>2, <1>3, <1>4 DEF Blocks!Tiles
<1>6. /\ t \in Tile /\ t[1] \in Int /\ t[2] \in Int
      /\ l <= t[1] /\ t[1] <= r /\ u <= t[2] /\ t[2] <= w
  BY <1>5 DEF Tile
<1> QED BY <1>1, <1>2, <1>3, <1>4, <1>6 DEF Blocks!Inside

(* Where the tiles are that such a box overlaps.                           *)
LEMMA Spans ==
  ASSUME NEW p, Placed(p), NEW l \in Int, NEW u \in Int, NEW r \in Int, NEW w \in Int,
         NEW t \in Tile, Blocks!Inside(t, Facing(p, l, u, r, w))
  PROVE  /\ Column(p, t) \in Int /\ Row(p, t) \in Int
         /\ l < 1600 * (Column(p, t) + 1) /\ 1600 * Column(p, t) < r + 1600
         /\ u < 1600 * (Row(p, t) + 1) /\ 1600 * Row(p, t) < w + 1600
<1>1. PICK x \in Int : x = p.x \div 16 /\ 16 * x <= p.x /\ p.x < 16 * x + 16
  BY Quotients DEF Placed
<1>2. PICK y \in Int : y = p.y \div 16 /\ 16 * y <= p.y /\ p.y < 16 * y + 16
  BY Quotients DEF Placed
<1>3. t[1] \in Int /\ t[2] \in Int /\ p.x \in Int /\ p.y \in Int
  BY DEF Tile, Placed
<1>4. CASE p.dir = 1
  <2>1. /\ 1600 * t[1] < 100 * p.x + r /\ 1600 * (t[1] + 1) > 100 * p.x + l
        /\ 1600 * t[2] < 100 * p.y + w /\ 1600 * (t[2] + 1) > 100 * p.y + u
    BY <1>3, <1>4 DEF Facing, Blocks!Box, Blocks!Inside
  <2>2. Column(p, t) = t[1] - x /\ Row(p, t) = t[2] - y
    BY <1>1, <1>2, <1>4 DEF Column, Row
  <2> QED BY <1>1, <1>2, <1>3, <2>1, <2>2
<1>5. CASE p.dir = -1
  <2>1. /\ 1600 * t[1] < 100 * p.x + 1600 - l /\ 1600 * (t[1] + 1) > 100 * p.x + 1600 - r
        /\ 1600 * t[2] < 100 * p.y + w /\ 1600 * (t[2] + 1) > 100 * p.y + u
    BY <1>3, <1>5 DEF Facing, Blocks!Box, Blocks!Inside
  <2>2. Column(p, t) = x + 1 - t[1] /\ Row(p, t) = t[2] - y
    BY <1>1, <1>2, <1>5 DEF Column, Row
  <2> QED BY <1>1, <1>2, <1>3, <2>1, <2>2
<1> QED BY <1>4, <1>5 DEF Placed

(* The hitboxes and the slabs are such boxes.                              *)
LEMMA HitboxesFace ==
  ASSUME NEW p, Placed(p)
  PROVE  /\ Blocks!attack_world_aabb("punch", p.x, p.y, p.dir) = Facing(p, 800, -200, 6400, 5000)
         /\ Blocks!attack_world_aabb("kick", p.x, p.y, p.dir) = Facing(p, 968, 480, 6008, 5280)
         /\ Blocks!attack_world_aabb("skid", p.x, p.y, p.dir) = Facing(p, -800, 960, 2400, 3200)
         /\ Blocks!attack_world_aabb("stomp", p.x, p.y, p.dir) = Facing(p, -1200, 2080, 2800, 5280)
<1>1. p.x \in Int /\ p.y \in Int
  BY DEF Placed
<1>2. CASE p.dir = 1
  BY <1>1, <1>2 DEF Blocks!attack_world_aabb, Blocks!Hitboxes, Blocks!Box, Facing
<1>3. CASE p.dir = -1
  BY <1>1, <1>3 DEF Blocks!attack_world_aabb, Blocks!Hitboxes, Blocks!Box, Facing
<1> QED BY <1>2, <1>3 DEF Placed

LEMMA SlabsFace ==
  ASSUME NEW p, Placed(p), NEW a \in Int, NEW b \in Int, NEW c \in Int, NEW d \in Int
  PROVE  Blocks!Slab(p.x, p.y, p.dir, a, b, c, d) = Facing(p, 100 * a, 100 * b, 100 * c, 100 * d)
<1>1. PICK x \in Int, y \in Int : x = p.x /\ y = p.y
  BY DEF Placed
<1>2. /\ 100 * (x + a) = 100 * x + 100 * a /\ 100 * (x + c) = 100 * x + 100 * c
      /\ 100 * (y + b) = 100 * y + 100 * b /\ 100 * (y + d) = 100 * y + 100 * d
      /\ 100 * (x + 16 - c) = 100 * x + 1600 - 100 * c
      /\ 100 * (x + 16 - a) = 100 * x + 1600 - 100 * a
  OBVIOUS
<1>3. CASE p.dir = 1
  <2>1. Blocks!Slab(p.x, p.y, p.dir, a, b, c, d)
          = Blocks!Box(100 * (x + a), 100 * (y + b), 100 * (x + c), 100 * (y + d))
    BY <1>1, <1>3 DEF Blocks!Slab
  <2> QED BY <1>1, <1>2, <1>3, <2>1 DEF Facing
<1>4. CASE p.dir = -1
  <2>1. Blocks!Slab(p.x, p.y, p.dir, a, b, c, d)
          = Blocks!Box(100 * (x + 16 - c), 100 * (y + b), 100 * (x + 16 - a), 100 * (y + d))
    BY <1>1, <1>4 DEF Blocks!Slab
  <2> QED BY <1>1, <1>2, <1>4, <2>1 DEF Facing
<1> QED BY <1>3, <1>4 DEF Placed

LEMMA GrownBox ==
  ASSUME NEW l, NEW u \in Int, NEW r, NEW w \in Int, NEW up \in Int, NEW down \in Int
  PROVE  Blocks!Grown(Blocks!Box(l, u, r, w), up, down)
           = Blocks!Box(l, u - 100 * up, r, w + 100 * down)
BY DEF Blocks!Grown, Blocks!Box

LEMMA GrownFaces ==
  ASSUME NEW p, Placed(p), NEW l \in Int, NEW u \in Int, NEW r \in Int, NEW w \in Int,
         NEW up \in Int, NEW down \in Int
  PROVE  Blocks!Grown(Facing(p, l, u, r, w), up, down)
           = Facing(p, l, u - 100 * up, r, w + 100 * down)
<1>1. PICK y \in Int : y = p.y
  BY DEF Placed
<1>2. /\ 100 * y + u \in Int /\ 100 * y + w \in Int
      /\ (100 * y + u) - 100 * up = 100 * y + (u - 100 * up)
      /\ (100 * y + w) + 100 * down = 100 * y + (w + 100 * down)
  OBVIOUS
<1>3. ASSUME NEW a, NEW b
      PROVE  Blocks!Grown(Blocks!Box(a, 100 * y + u, b, 100 * y + w), up, down)
               = Blocks!Box(a, 100 * y + (u - 100 * up), b, 100 * y + (w + 100 * down))
  <2> DEFINE t == 100 * y + u
             m == 100 * y + w
  <2>1. Blocks!Grown(Blocks!Box(a, t, b, m), up, down)
          = Blocks!Box(a, t - 100 * up, b, m + 100 * down)
    <3>1. t \in Int /\ m \in Int
      BY <1>2
    <3> HIDE DEF t, m
    <3> QED BY <3>1, GrownBox
  <2> QED BY <1>2, <2>1
<1> QED BY <1>1, <1>3 DEF Facing

(* Both: the columns and rows of a tile of such a box.                     *)
LEMMA TilesOfFacing ==
  ASSUME NEW p, Placed(p), NEW l \in Int, NEW u \in Int, NEW r \in Int, NEW w \in Int,
         NEW t \in Blocks!Tiles(Facing(p, l, u, r, w))
  PROVE  /\ t \in Tile /\ Column(p, t) \in Int /\ Row(p, t) \in Int
         /\ l < 1600 * (Column(p, t) + 1) /\ 1600 * Column(p, t) < r + 1600
         /\ u < 1600 * (Row(p, t) + 1) /\ 1600 * Row(p, t) < w + 1600
<1> DEFINE v == Facing(p, l, u, r, w)
<1>1. v.left \in Int /\ v.top \in Int /\ v.right \in Int /\ v.bottom \in Int
  BY DEF Facing, Placed, Blocks!Box
<1> HIDE DEF v
<1>2. t \in Tile /\ Blocks!Inside(t, v)
  BY <1>1, TilesInside DEF v
<1> QED BY <1>2, Spans DEF v

LEMMA InDiagonalReach ==
  ASSUME NEW p, NEW t \in Tile, NEW c \in Int, NEW r \in Int,
         Column(p, t) = c, Row(p, t) = r,
         \/ r = 0 /\ c \in -1 .. 4
         \/ r \in 1 .. 2 /\ c \in -1 .. 5
         \/ r \in 3 .. 4 /\ c \in -1 .. 7
         \/ r \in 5 .. 6 /\ c \in 0 .. 7
         \/ r = 7 /\ c \in 0 .. 8
  PROVE  t \in DiagonalReach(p)
<1>1. CASE r = 0 /\ c \in -1 .. 4
  BY <1>1 DEF DiagonalReach, Rectangle
<1>2. CASE r \in 1 .. 2 /\ c \in -1 .. 5
  BY <1>2 DEF DiagonalReach, Rectangle
<1>3. CASE r \in 3 .. 4 /\ c \in -1 .. 7
  BY <1>3 DEF DiagonalReach, Rectangle
<1>4. CASE r \in 5 .. 6 /\ c \in 0 .. 7
  BY <1>4 DEF DiagonalReach, Rectangle
<1>5. CASE r = 7 /\ c \in 0 .. 8
  BY <1>5 DEF DiagonalReach, Rectangle
<1> QED BY <1>1, <1>2, <1>3, <1>4, <1>5

(* Which hitbox goes with which move.                                      *)
LEMMA MovesAndBoxes ==
  ASSUME NEW s \in Blocks!Strikes
  PROVE  LET move == Blocks!block_move_state_for_attack(s)
         IN  \/ move \in {"kick_air", "kick_landing"} /\ s.box \in {"kick", "skid", "stomp"}
             \/ move = "punch_ground" /\ s.box = "punch"
             \/ move = "kick_ground" /\ s.box = "kick"
             \/ move = "kick_ground_air" /\ s.box = "kick"
             \/ move = "other" /\ s.box = "punch"
BY DEF Blocks!Strikes, Blocks!block_move_state_for_attack

LEMMA DiagonalVolumes ==
  ASSUME NEW p, Placed(p), NEW move \in {"kick_air", "kick_landing"},
         NEW box \in {"kick", "skid", "stomp"},
         NEW k \in DOMAIN Blocks!block_break_volumes(move, box, p.x, p.y, p.dir),
         NEW t \in Blocks!Tiles(Blocks!block_break_volumes(move, box, p.x, p.y, p.dir)[k])
  PROVE  t \in DiagonalReach(p)
<1> DEFINE hit == Blocks!attack_world_aabb(box, p.x, p.y, p.dir)
<1>1. \/ t \in Blocks!Tiles(hit)
      \/ t \in Blocks!Tiles(Facing(p, 400, 1600, 8000, 5600))
      \/ t \in Blocks!Tiles(Facing(p, 3200, 4800, 11200, 10400))
  <2>1. Blocks!block_break_volumes(move, box, p.x, p.y, p.dir)
          = <<hit, Blocks!Slab(p.x, p.y, p.dir, 4, 16, 80, 56),
              Blocks!Slab(p.x, p.y, p.dir, 32, 48, 112, 104)>>
    BY DEF Blocks!block_break_volumes
  <2>2. /\ Blocks!Slab(p.x, p.y, p.dir, 4, 16, 80, 56) = Facing(p, 400, 1600, 8000, 5600)
        /\ Blocks!Slab(p.x, p.y, p.dir, 32, 48, 112, 104) = Facing(p, 3200, 4800, 11200, 10400)
    BY SlabsFace
  <2> HIDE DEF hit
  <2> QED BY <2>1, <2>2
<1>2. ASSUME t \in Blocks!Tiles(Facing(p, 400, 1600, 8000, 5600)) PROVE t \in DiagonalReach(p)
  <2>1. PICK c \in Int, r \in Int :
          /\ t \in Tile /\ Column(p, t) = c /\ Row(p, t) = r
          /\ 400 < 1600 * (c + 1) /\ 1600 * c < 9600 /\ 1600 < 1600 * (r + 1) /\ 1600 * r < 7200
    BY <1>2, TilesOfFacing
  <2>2. c \in 0 .. 5 /\ r \in 1 .. 4
    BY <2>1
  <2> QED BY <2>1, <2>2, InDiagonalReach
<1>3. ASSUME t \in Blocks!Tiles(Facing(p, 3200, 4800, 11200, 10400)) PROVE t \in DiagonalReach(p)
  <2>1. PICK c \in Int, r \in Int :
          /\ t \in Tile /\ Column(p, t) = c /\ Row(p, t) = r
          /\ 3200 < 1600 * (c + 1) /\ 1600 * c < 12800 /\ 4800 < 1600 * (r + 1) /\ 1600 * r < 12000
    BY <1>3, TilesOfFacing
  <2>2. c \in 2 .. 7 /\ r \in 3 .. 7
    BY <2>1
  <2> QED BY <2>1, <2>2, InDiagonalReach
<1>4. ASSUME t \in Blocks!Tiles(hit), box = "kick" PROVE t \in DiagonalReach(p)
  <2>1. PICK c \in Int, r \in Int :
          /\ t \in Tile /\ Column(p, t) = c /\ Row(p, t) = r
          /\ 968 < 1600 * (c + 1) /\ 1600 * c < 7608 /\ 480 < 1600 * (r + 1) /\ 1600 * r < 6880
    BY <1>4, HitboxesFace, TilesOfFacing
  <2>2. c \in 0 .. 4 /\ r \in 0 .. 4
    BY <2>1
  <2> QED BY <2>1, <2>2, InDiagonalReach
<1>5. ASSUME t \in Blocks!Tiles(hit), box = "skid" PROVE t \in DiagonalReach(p)
  <2>1. PICK c \in Int, r \in Int :
          /\ t \in Tile /\ Column(p, t) = c /\ Row(p, t) = r
          /\ -800 < 1600 * (c + 1) /\ 1600 * c < 4000 /\ 960 < 1600 * (r + 1) /\ 1600 * r < 4800
    BY <1>5, HitboxesFace, TilesOfFacing
  <2>2. c \in -1 .. 2 /\ r \in 0 .. 2
    BY <2>1
  <2> QED BY <2>1, <2>2, InDiagonalReach
<1>6. ASSUME t \in Blocks!Tiles(hit), box = "stomp" PROVE t \in DiagonalReach(p)
  <2>1. PICK c \in Int, r \in Int :
          /\ t \in Tile /\ Column(p, t) = c /\ Row(p, t) = r
          /\ -1200 < 1600 * (c + 1) /\ 1600 * c < 4400 /\ 2080 < 1600 * (r + 1) /\ 1600 * r < 6880
    BY <1>6, HitboxesFace, TilesOfFacing
  <2>2. c \in -1 .. 2 /\ r \in 1 .. 4
    BY <2>1
  <2> QED BY <2>1, <2>2, InDiagonalReach
<1> HIDE DEF hit
<1> QED BY <1>1, <1>2, <1>3, <1>4, <1>5, <1>6

LEMMA OtherVolumes ==
  ASSUME NEW p, Placed(p), NEW move, NEW box,
         \/ move = "kick_ground" /\ box = "kick"
         \/ move = "kick_ground_air" /\ box = "kick"
         \/ move = "other" /\ box = "punch",
         NEW k \in DOMAIN Blocks!block_break_volumes(move, box, p.x, p.y, p.dir),
         NEW t \in Blocks!Tiles(Blocks!block_break_volumes(move, box, p.x, p.y, p.dir)[k])
  PROVE  t \in Rectangle(p, 0, 8, -1, 4)
<1> DEFINE hit == Blocks!attack_world_aabb(box, p.x, p.y, p.dir)
<1>1. \/ t \in Blocks!Tiles(Facing(p, 968, 80, 6008, 5680))
      \/ t \in Blocks!Tiles(Facing(p, 400, 800, 12800, 5600))
      \/ t \in Blocks!Tiles(Facing(p, 968, 480, 6008, 5280))
      \/ t \in Blocks!Tiles(Facing(p, 800, -200, 6400, 5000))
  <2>1. CASE move = "kick_ground"
    <3>1. Blocks!block_break_volumes(move, box, p.x, p.y, p.dir)
            = <<Blocks!Grown(hit, 4, 4), Blocks!Slab(p.x, p.y, p.dir, 4, 8, 128, 56)>>
      BY <2>1 DEF Blocks!block_break_volumes
    <3>2. Blocks!Slab(p.x, p.y, p.dir, 4, 8, 128, 56) = Facing(p, 400, 800, 12800, 5600)
      BY SlabsFace
    <3>3. Blocks!Grown(Facing(p, 968, 480, 6008, 5280), 4, 4) = Facing(p, 968, 80, 6008, 5680)
      BY GrownFaces
    <3>4. hit = Facing(p, 968, 480, 6008, 5280)
      BY <2>1, HitboxesFace
    <3> HIDE DEF hit
    <3> QED BY <3>1, <3>2, <3>3, <3>4
  <2>2. CASE move # "kick_ground"
    <3>1. Blocks!block_break_volumes(move, box, p.x, p.y, p.dir) = <<hit>>
      BY <2>2 DEF Blocks!block_break_volumes
    <3>2. \/ hit = Facing(p, 968, 480, 6008, 5280)
          \/ hit = Facing(p, 800, -200, 6400, 5000)
      BY <2>2, HitboxesFace
    <3> HIDE DEF hit
    <3> QED BY <3>1, <3>2
  <2> QED BY <2>1, <2>2
<1>2. ASSUME NEW l \in Int, NEW u \in Int, NEW r \in Int, NEW w \in Int,
             t \in Blocks!Tiles(Facing(p, l, u, r, w)),
             l >= 0, r <= 12800, u >= -200, w <= 5680
      PROVE  t \in Rectangle(p, 0, 8, -1, 4)
  <2>1. PICK c \in Int, d \in Int :
          /\ t \in Tile /\ Column(p, t) = c /\ Row(p, t) = d
          /\ l < 1600 * (c + 1) /\ 1600 * c < r + 1600 /\ u < 1600 * (d + 1) /\ 1600 * d < w + 1600
    BY <1>2, TilesOfFacing
  <2>2. c \in 0 .. 8 /\ d \in -1 .. 4
    BY <1>2, <2>1
  <2> QED BY <2>1, <2>2 DEF Rectangle
<1> HIDE DEF hit
<1> QED BY <1>1, <1>2

(* A punch's volumes are cut down to its column.                           *)
LEMMA PunchVolumes ==
  ASSUME NEW p, Placed(p), NEW t \in Tile,
         Blocks!is_direct_sweep_tile("punch_ground", p.x, p.y, p.dir, t)
  PROVE  t \in Rectangle(p, 0, 4, -2, 4)
<1>1. PICK x \in Int : x = p.x \div 16
  BY Quotients DEF Placed
<1>2. PICK y \in Int : y = p.y \div 16 /\ 16 * y <= p.y /\ p.y < 16 * y + 16
  BY Quotients DEF Placed
<1>3. /\ t[1] \in Int /\ t[2] \in Int /\ p.y \in Int
      /\ p.y - 32 \in Int /\ p.y + 64 \in Int
  BY DEF Tile, Placed
<1>4. PICK top \in Int : top = (p.y - 32) \div 16 /\ p.y - 32 < 16 * top + 16
  BY <1>3, Quotients
<1>5. PICK low \in Int : low = (p.y + 64) \div 16 /\ 16 * low <= p.y + 64
  BY <1>3, Quotients
<1>6. t[2] \in top .. low /\ (t[1] - x) * p.dir \in 1 .. 3
  BY <1>1, <1>4, <1>5 DEF Blocks!is_direct_sweep_tile
<1>7. Row(p, t) \in -2 .. 4
  <2>1. PICK b \in Int, n \in Int : b = t[2] /\ n = p.y
    BY <1>3
  <2>2. b - y \in -2 .. 4
    BY <1>2, <1>4, <1>5, <1>6, <2>1
  <2> QED BY <1>2, <2>1, <2>2 DEF Row
<1>8. Column(p, t) \in 0 .. 4
  <2>1. CASE p.dir = 1
    BY <1>1, <1>3, <1>6, <2>1 DEF Column
  <2>2. CASE p.dir = -1
    BY <1>1, <1>3, <1>6, <2>2 DEF Column
  <2> QED BY <2>1, <2>2 DEF Placed
<1> QED BY <1>7, <1>8 DEF Rectangle

(* The tiles he touches are those he stands in.                            *)
LEMMA TouchedInReach ==
  ASSUME NEW p, Placed(p), NEW move,
         NEW t \in (p.x \div 16 .. (p.x + 15) \div 16) \X (p.y \div 16 .. (p.y + 32) \div 16)
  PROVE  t \in Tile /\ Column(p, t) \in 0 .. 1 /\ Row(p, t) \in 0 .. 2 /\ t \in Reach(move, p)
<1>1. PICK x \in Int : x = p.x \div 16 /\ 16 * x <= p.x /\ p.x < 16 * x + 16
  BY Quotients DEF Placed
<1>2. PICK y \in Int : y = p.y \div 16 /\ 16 * y <= p.y /\ p.y < 16 * y + 16
  BY Quotients DEF Placed
<1>3. p.x \in Int /\ p.y \in Int /\ p.x + 15 \in Int /\ p.y + 32 \in Int
  BY DEF Placed
<1>4. PICK far \in Int : far = (p.x + 15) \div 16 /\ 16 * far <= p.x + 15
  BY <1>3, Quotients
<1>5. PICK low \in Int : low = (p.y + 32) \div 16 /\ 16 * low <= p.y + 32
  BY <1>3, Quotients
<1>6. t \in (x .. far) \X (y .. low)
  BY <1>1, <1>2, <1>4, <1>5
<1>7. /\ t \in Tile /\ t[1] \in Int /\ t[2] \in Int
      /\ x <= t[1] /\ t[1] <= far /\ y <= t[2] /\ t[2] <= low
  BY <1>6 DEF Tile
<1>8. Row(p, t) \in 0 .. 2
  <2>1. PICK b \in Int, n \in Int : b = t[2] /\ n = p.y
    BY <1>3, <1>7
  <2>2. b - y \in 0 .. 2
    BY <1>2, <1>5, <1>7, <2>1
  <2> QED BY <1>2, <2>1, <2>2 DEF Row
<1>9. Column(p, t) \in 0 .. 1
  <2>1. PICK a \in Int, n \in Int : a = t[1] /\ n = p.x
    BY <1>3, <1>7
  <2>2. a \in x .. x + 1
    BY <1>1, <1>4, <1>7, <2>1
  <2>3. a - x \in 0 .. 1 /\ x + 1 - a \in 0 .. 1
    BY <2>2
  <2> QED BY <1>1, <2>1, <2>3 DEF Column
<1>10. t \in DiagonalReach(p)
  BY <1>7, <1>8, <1>9, InDiagonalReach
<1>11. t \in Rectangle(p, 0, 4, -2, 4) /\ t \in Rectangle(p, 0, 8, -1, 4)
  BY <1>7, <1>8, <1>9 DEF Rectangle
<1> QED BY <1>7, <1>8, <1>9, <1>10, <1>11 DEF Reach

Volumes(move, box, p) ==
  UNION {Blocks!Tiles(Blocks!block_break_volumes(move, box, p.x, p.y, p.dir)[k]) :
           k \in DOMAIN Blocks!block_break_volumes(move, box, p.x, p.y, p.dir)}

LEMMA PunchTiles ==
  ASSUME NEW p, Placed(p), NEW t \in Volumes("punch_ground", "punch", p)
  PROVE  t \in Tile
<1> DEFINE hit == Blocks!attack_world_aabb("punch", p.x, p.y, p.dir)
           slab == IF p.dir > 0 THEN Blocks!Slab(p.x, p.y, p.dir, 4, -32, 64, 64)
                                ELSE Blocks!Slab(p.x, p.y, p.dir, 4, -32, 80, 64)
<1>1. Blocks!block_break_volumes("punch_ground", "punch", p.x, p.y, p.dir)
        = <<Blocks!Grown(hit, 16, 8), slab>>
  BY DEF Blocks!block_break_volumes
<1>2. Blocks!Grown(hit, 16, 8) = Facing(p, 800, -1800, 6400, 5800)
  <2>1. hit = Facing(p, 800, -200, 6400, 5000)
    BY HitboxesFace
  <2>2. Blocks!Grown(Facing(p, 800, -200, 6400, 5000), 16, 8) = Facing(p, 800, -1800, 6400, 5800)
    BY GrownFaces
  <2> QED BY <2>1, <2>2
<1>3. \/ slab = Facing(p, 400, -3200, 6400, 6400)
      \/ slab = Facing(p, 400, -3200, 8000, 6400)
  BY SlabsFace
<1> HIDE DEF hit, slab
<1>4. \/ t \in Blocks!Tiles(Facing(p, 800, -1800, 6400, 5800))
      \/ t \in Blocks!Tiles(Facing(p, 400, -3200, 6400, 6400))
      \/ t \in Blocks!Tiles(Facing(p, 400, -3200, 8000, 6400))
  BY <1>1, <1>2, <1>3 DEF Volumes
<1> QED BY <1>4, TilesOfFacing

(* Whatever a move sweeps is in its reach.                                 *)
LEMMA SweepInReach ==
  ASSUME NEW p, Placed(p), NEW s \in Blocks!Strikes, NEW move,
         move = Blocks!block_move_state_for_attack(s),
         NEW t \in Volumes(move, s.box, p),
         Blocks!is_direct_sweep_tile(move, p.x, p.y, p.dir, t)
  PROVE  t \in Reach(move, p)
<1>1. PICK box : box = s.box
  OBVIOUS
<1>2. \/ move \in {"kick_air", "kick_landing"} /\ box \in {"kick", "skid", "stomp"}
      \/ move = "punch_ground" /\ box = "punch"
      \/ move = "kick_ground" /\ box = "kick"
      \/ move = "kick_ground_air" /\ box = "kick"
      \/ move = "other" /\ box = "punch"
  BY <1>1, MovesAndBoxes
<1>3. PICK k \in DOMAIN Blocks!block_break_volumes(move, box, p.x, p.y, p.dir) :
        t \in Blocks!Tiles(Blocks!block_break_volumes(move, box, p.x, p.y, p.dir)[k])
  BY <1>1 DEF Volumes
<1>4. CASE move \in {"kick_air", "kick_landing"}
  <2>1. t \in DiagonalReach(p)
    BY <1>2, <1>3, <1>4, DiagonalVolumes
  <2> QED BY <1>4, <2>1 DEF Reach
<1>5. CASE move = "punch_ground"
  <2>1. t \in Tile
    BY <1>1, <1>2, <1>5, PunchTiles
  <2>2. t \in Rectangle(p, 0, 4, -2, 4)
    BY <1>5, <2>1, PunchVolumes
  <2> QED BY <1>5, <2>2 DEF Reach
<1>6. CASE move \notin {"kick_air", "kick_landing", "punch_ground"}
  <2>1. t \in Rectangle(p, 0, 8, -1, 4)
    BY <1>2, <1>3, <1>6, OtherVolumes
  <2> QED BY <1>6, <2>1 DEF Reach
<1> QED BY <1>4, <1>5, <1>6

(* So is the crater of a diagonal kick: it begins in the row of the feet.  *)
LEMMA CraterInReach ==
  ASSUME NEW p, Placed(p), NEW move \in {"kick_air", "kick_landing"},
         NEW touch \in (p.x \div 16 .. (p.x + 15) \div 16) \X (p.y \div 16 .. (p.y + 32) \div 16),
         NEW t \in Blocks!Crater(touch, Blocks!kick_direct_anchor_y(move, touch, p.y), p.dir)
  PROVE  t \in Reach(move, p)
<1>1. /\ touch \in Tile /\ Column(p, touch) \in 0 .. 1 /\ Row(p, touch) \in 0 .. 2
  BY TouchedInReach
<1>2. PICK x \in Int : x = p.x \div 16
  BY Quotients DEF Placed
<1>3. PICK y \in Int, n \in Int : n = p.y /\ y = p.y \div 16 /\ 16 * y <= n /\ n < 16 * y + 16
  BY Quotients DEF Placed
<1>4. PICK low \in Int : low = (p.y + 32) \div 16 /\ 16 * low <= n + 32 /\ n + 32 < 16 * low + 16
  BY <1>3, Quotients
<1>5. low = y + 2
  BY <1>3, <1>4
<1>6. PICK a \in Int, b \in Int : touch[1] = a /\ touch[2] = b
  BY <1>1 DEF Tile
<1>7. b - y \in 0 .. 2
  BY <1>1, <1>3, <1>6 DEF Row
<1>8. Blocks!kick_direct_anchor_y(move, touch, p.y) = low
  BY <1>4, <1>5, <1>6, <1>7 DEF Blocks!kick_direct_anchor_y, Blocks!block_sweep_is_diagonal_kick
<1>9. t \in Tile /\ t[2] - low \in 0 .. 5 /\ (t[1] - a) * p.dir \in 0 .. 2 + (t[2] - low)
  BY <1>6, <1>8 DEF Blocks!Crater, Blocks!is_aerial_kick_direct_tile, Tile
<1>10. PICK c \in Int, d \in Int : t[1] = c /\ t[2] = d
  BY <1>9 DEF Tile
<1>11. PICK k \in 0 .. 5 : k = d - low
  BY <1>9, <1>10
<1>12. Row(p, t) = k + 2
  BY <1>3, <1>5, <1>10, <1>11 DEF Row
<1>13. Column(p, t) \in 0 .. 3 + k
  <2>1. CASE p.dir = 1
    <3>1. a - x \in 0 .. 1
      BY <1>1, <1>2, <1>6, <2>1 DEF Column
    <3>2. c - a \in 0 .. 2 + k
      BY <1>9, <1>10, <1>11, <2>1
    <3>3. c - x \in 0 .. 3 + k
      BY <3>1, <3>2
    <3> QED BY <1>2, <1>10, <2>1, <3>3 DEF Column
  <2>2. CASE p.dir = -1
    <3>1. x + 1 - a \in 0 .. 1
      BY <1>1, <1>2, <1>6, <2>2 DEF Column
    <3>2. a - c \in 0 .. 2 + k
      BY <1>9, <1>10, <1>11, <2>2
    <3>3. x + 1 - c \in 0 .. 3 + k
      BY <3>1, <3>2
    <3> QED BY <1>2, <1>10, <2>2, <3>3 DEF Column
  <2> QED BY <2>1, <2>2 DEF Placed
<1>14. t \in DiagonalReach(p)
  <2>1. PICK e \in Int, r \in Int : e = Column(p, t) /\ r = Row(p, t) /\ r = k + 2 /\ e \in 0 .. 3 + k
    BY <1>12, <1>13
  <2>2. \/ r \in 1 .. 2 /\ e \in -1 .. 5
        \/ r \in 3 .. 4 /\ e \in -1 .. 7
        \/ r \in 5 .. 6 /\ e \in 0 .. 7
        \/ r = 7 /\ e \in 0 .. 8
    BY <2>1
  <2> QED BY <1>9, <2>1, <2>2, InDiagonalReach
<1> QED BY <1>14 DEF Reach

LEMMA BlocksCountAlike == \A S : Blocks!Cardinality(S) = Cardinality(S)
BY DEF Blocks!Cardinality, Cardinality

(* A call in the words of the lemmas above: what the scan met, what the    *)
(* direct sweep broke, what a diagonal kick hollowed out, what of that was *)
(* met again, and what the call leaves.                                    *)
BlockCall(touch, cls, met, sweep, hollow, again) ==
  LET move == Blocks!block_move_state_for_attack(b_strike)
      repeats == Blocks!block_sweep_can_repeat(move)
      volumes == Volumes(move, b_strike.box, b_player)
      boxes == Blocks!block_break_volumes(move, b_strike.box, b_player.x, b_player.y, b_player.dir)
      anchor == Blocks!kick_direct_anchor_y(move, touch, b_player.y)
      support == Blocks!is_ground_punch_support_block(move, b_player.y, touch)
      found == Blocks!Scan(move, anchor, touch, support, volumes)
      proved == cls # "unknown"
      scanned == found # {}
      direct == proved \/ (repeats /\ (b_ledger.field > 0 \/ scanned))
  IN  /\ met = IF proved /\ ~scanned THEN Blocks!Fallback(touch, support, boxes) ELSE found
      /\ sweep = IF direct THEN Blocks!Sweep(move, touch, support, volumes) ELSE {}
      /\ hollow = IF direct THEN Blocks!Hollow(move, anchor, touch) ELSE {}
      /\ b_ledger' = [Blocks!FieldAfter(b_ledger, repeats, proved, scanned)
                        EXCEPT !.applied = @ \/ met \cup sweep \cup hollow # {}]
      /\ b_ghost' = [broken |-> (met \cup sweep \cup hollow) \cap Stones,
                     again |-> Blocks!Repeated(met \cup sweep \cup hollow, again),
                     swept |-> direct,
                     idle |-> IF proved \/ scanned THEN 0
                              ELSE IF b_ghost.idle > Field THEN b_ghost.idle
                              ELSE b_ghost.idle + 1]

LEMMA CallIsCall ==
  ASSUME NEW touch, NEW cls, Blocks!apply_native_blocks(touch, cls)
  PROVE  \E met, sweep, hollow, again : BlockCall(touch, cls, met, sweep, hollow, again)
<1> DEFINE move == Blocks!block_move_state_for_attack(b_strike)
           repeats == Blocks!block_sweep_can_repeat(move)
           volumes == Volumes(move, b_strike.box, b_player)
           boxes == Blocks!block_break_volumes(move, b_strike.box, b_player.x, b_player.y,
                                                b_player.dir)
           anchor == Blocks!kick_direct_anchor_y(move, touch, b_player.y)
           support == Blocks!is_ground_punch_support_block(move, b_player.y, touch)
           found == Blocks!Scan(move, anchor, touch, support, volumes)
           proved == cls # "unknown"
           scanned == found # {}
           direct == proved \/ (repeats /\ (b_ledger.field > 0 \/ scanned))
           met == IF proved /\ ~scanned THEN Blocks!Fallback(touch, support, boxes) ELSE found
           sweep == IF direct THEN Blocks!Sweep(move, touch, support, volumes) ELSE {}
           hollow == IF direct THEN Blocks!Hollow(move, anchor, touch) ELSE {}
           again == Blocks!MetAgain(met, sweep, hollow, boxes)
<1>1. /\ b_ledger' = [Blocks!FieldAfter(b_ledger, repeats, proved, scanned)
                        EXCEPT !.applied = @ \/ met \cup sweep \cup hollow # {}]
      /\ b_ghost' = [broken |-> (met \cup sweep \cup hollow) \cap Stones,
                     again |-> Blocks!Repeated(met \cup sweep \cup hollow, again),
                     swept |-> direct,
                     idle |-> IF proved \/ scanned THEN 0
                              ELSE IF b_ghost.idle > Field THEN b_ghost.idle
                              ELSE b_ghost.idle + 1]
  BY DEF Blocks!apply_native_blocks, Volumes
<1> HIDE DEF met, sweep, hollow, again
<1>2. /\ met = (IF proved /\ ~scanned THEN Blocks!Fallback(touch, support, boxes) ELSE found)
      /\ sweep = (IF direct THEN Blocks!Sweep(move, touch, support, volumes) ELSE {})
      /\ hollow = (IF direct THEN Blocks!Hollow(move, anchor, touch) ELSE {})
  BY DEF met, sweep, hollow
<1>3. BlockCall(touch, cls, met, sweep, hollow, again)
  BY <1>1, <1>2 DEF BlockCall
<1> QED BY <1>3

LEMMA NothingIsRepeated ==
  ASSUME Placed(b_player), b_strike \in Blocks!Strikes, NEW touch \in Blocks!Touched, NEW cls,
         NEW met, NEW sweep, NEW hollow, NEW again,
         BlockCall(touch, cls, met, sweep, hollow, again)
  PROVE  b_ghost'.again = {}
<1> DEFINE m == Blocks!block_move_state_for_attack(b_strike)
           volumes == Volumes(m, b_strike.box, b_player)
           anchor == Blocks!kick_direct_anchor_y(m, touch, b_player.y)
           support == Blocks!is_ground_punch_support_block(m, b_player.y, touch)
           found == Blocks!Scan(m, anchor, touch, support, volumes)
<1>1. PICK move : move = m
  OBVIOUS
<1> DEFINE boxes == Blocks!block_break_volumes(m, b_strike.box, b_player.x, b_player.y,
                                               b_player.dir)
           direct == \/ cls # "unknown"
                     \/ (Blocks!block_sweep_can_repeat(m)
                            /\ (b_ledger.field > 0 \/ found # {}))
<1>2. /\ met = found \/ met \subseteq {touch}
      /\ sweep = {} \/ sweep = Blocks!Sweep(m, touch, support, volumes)
      /\ hollow = {} \/ hollow = Blocks!Hollow(m, anchor, touch)
  <2>1. Blocks!Fallback(touch, support, boxes) \subseteq {touch}
    BY DEF Blocks!Fallback
  <2>2. /\ met = Blocks!Fallback(touch, support, boxes) \/ met = found
        /\ sweep = Blocks!Sweep(m, touch, support, volumes) \/ sweep = {}
        /\ hollow = Blocks!Hollow(m, anchor, touch) \/ hollow = {}
    BY DEF BlockCall
  <2> HIDE DEF boxes, found, direct, volumes, anchor, support, m
  <2> QED BY <2>1, <2>2
<1>3. b_ghost'.again = Blocks!Repeated(met \cup sweep \cup hollow, again)
  BY DEF BlockCall
<1>4. touch \in (b_player.x \div 16 .. (b_player.x + 15) \div 16)
                  \X (b_player.y \div 16 .. (b_player.y + 32) \div 16)
  BY DEF Blocks!Touched
<1>5. {touch} \subseteq Reach(move, b_player)
  BY <1>4, TouchedInReach
<1>6. ASSUME NEW t \in volumes, Blocks!is_direct_sweep_tile(m, b_player.x, b_player.y, b_player.dir, t)
      PROVE  t \in Reach(move, b_player)
  BY <1>1, <1>6, SweepInReach
<1>7. found \subseteq Reach(move, b_player)
  BY <1>6 DEF Blocks!Scan
<1>8. Blocks!Sweep(m, touch, support, volumes) \subseteq Reach(move, b_player)
  BY <1>6 DEF Blocks!Sweep
<1>9. Blocks!Hollow(m, anchor, touch) \subseteq Reach(move, b_player)
  <2>1. CASE move \in {"kick_air", "kick_landing"}
    <3>1. Blocks!Crater(touch, Blocks!kick_direct_anchor_y(move, touch, b_player.y), b_player.dir)
            \subseteq Reach(move, b_player)
      BY <1>4, <2>1, CraterInReach
    <3> QED BY <1>1, <3>1 DEF Blocks!Hollow
  <2>2. CASE move \notin {"kick_air", "kick_landing"}
    BY <1>1, <2>2 DEF Blocks!Hollow, Blocks!block_sweep_is_diagonal_kick
  <2> QED BY <2>1, <2>2
<1>10. PICK broken \in SUBSET Reach(move, b_player) : b_ghost'.again = Blocks!Repeated(broken, again)
  <2>1. met \cup sweep \cup hollow \subseteq Reach(move, b_player)
    <3> HIDE DEF found, volumes, anchor, support
    <3> QED BY <1>2, <1>5, <1>7, <1>8, <1>9
  <2> QED BY <1>3, <2>1
<1>11. /\ IsFiniteSet(Reach(move, b_player)) /\ Cardinality(Reach(move, b_player)) <= 64
  BY ReachCount
<1>12. Cardinality(broken) <= Memory
  <2>1. /\ IsFiniteSet(broken) /\ Cardinality(broken) <= Cardinality(Reach(move, b_player))
    BY <1>11, FS_Subset
  <2>2. Cardinality(broken) \in Nat /\ Cardinality(Reach(move, b_player)) \in Nat
    BY <1>11, <2>1, FS_CardinalityType
  <2> QED BY <1>11, <2>1, <2>2, BlocksAssumption
<1>13. Blocks!Cardinality(broken) = Cardinality(broken)
  BY BlocksCountAlike
<1> QED BY <1>10, <1>12, <1>13 DEF Blocks!Repeated

-----------------------------------------------------------------------------
(* The word of a proved block.  A field that is open was opened within the *)
(* last Field calls, for a move that may sweep again; of another move it   *)
(* may stay open, but then that move has broken something and is done.     *)
BlockMoves == {"punch_ground", "kick_ground", "kick_ground_air", "kick_air", "kick_landing", "other"}
BlockLedgers == [active : BOOLEAN, move : BlockMoves, applied : BOOLEAN, field : Nat,
                 contact : BOOLEAN]
BlockGhosts == [broken : SUBSET Stones, again : {{}}, swept : BOOLEAN, idle : Nat]

FieldIsOwed ==
  b_ledger.field > 0 =>
    IF Blocks!block_sweep_can_repeat(b_ledger.move)
    THEN b_ghost.idle + b_ledger.field <= Field
    ELSE b_ledger.applied

BlockInv ==
  /\ b_at \in {"tick", "blocks", "combat"}
  /\ b_ledger \in BlockLedgers /\ b_ghost \in BlockGhosts
  /\ b_at # "tick" => /\ b_player \in Blocks!Places /\ b_strike \in Blocks!Strikes
                      /\ b_ledger.active => b_ledger.move = b_strike.move
  /\ FieldIsOwed
  /\ Blocks!BlocksProven

LEMMA BlocksStart == Blocks!Init => BlockInv
<1> SUFFICES ASSUME Blocks!Init PROVE BlockInv
  OBVIOUS
<1>1. b_at = "tick" /\ b_ledger = Blocks!NoLedger /\ b_ghost = Blocks!NoGhost
  BY DEF Blocks!Init
<1>2. Field + 1 \in Nat
  BY BlocksAssumption
<1> QED BY <1>1, <1>2 DEF BlockInv, BlockLedgers, BlockMoves, BlockGhosts, FieldIsOwed,
        Blocks!NoLedger, Blocks!NoGhost, Blocks!BlocksProven, Blocks!SweptOnce,
        Blocks!DirectNeedsProof

LEMMA PlacesArePlaced ==
  ASSUME NEW p \in Blocks!Places
  PROVE  Placed(p) /\ p.x \in Nat /\ p.y \in 0 .. 7904
<1>1. p.x \in PlayerX /\ p.y \in PlayerY /\ p.dir \in {-1, 1}
  BY DEF Blocks!Places
<1>2. PICK x, y : x = p.x /\ y = p.y
  OBVIOUS
<1>3. x \in PlayerX /\ y \in PlayerY
  BY <1>1, <1>2
<1>4. /\ x \in Nat /\ y \in 0 .. 7904
      /\ x \in Int /\ y \in Int
  BY <1>3, BlocksAssumption
<1> QED BY <1>1, <1>2, <1>4 DEF Placed

(* A move that sweeps again under a state that does not: its hitbox lies   *)
(* in the level, and there is a tile in it to be broken.                   *)
LEMMA ContinuationBreaks ==
  ASSUME NEW p \in Blocks!Places, NEW s \in Blocks!Strikes, NEW touch, NEW move, NEW support,
         move = Blocks!block_move_state_for_attack(s), ~support,
         Blocks!block_sweep_can_repeat(move), ~Blocks!block_sweep_can_repeat(s.move)
  PROVE  \E t \in Volumes(move, s.box, p) :
           Blocks!InLevel(t) /\ Blocks!is_direct_sweep_tile(move, p.x, p.y, p.dir, t)
<1>1. /\ Placed(p) /\ p.x \in Nat /\ p.y \in 0 .. 7904
  BY PlacesArePlaced
<1>2. PICK box : box = s.box
  OBVIOUS
<1>3. \/ move = "kick_ground_air" /\ box = "kick"
      \/ move = "kick_landing" /\ box \in {"skid", "stomp"}
  BY <1>2 DEF Blocks!Strikes, Blocks!block_move_state_for_attack, Blocks!block_sweep_can_repeat
<1> DEFINE hit == Blocks!attack_world_aabb(box, p.x, p.y, p.dir)
<1>4. Blocks!Tiles(hit) \subseteq Volumes(move, box, p)
  <2>1. CASE move = "kick_ground_air"
    <3>1. Blocks!block_break_volumes(move, box, p.x, p.y, p.dir) = <<hit>>
      BY <2>1 DEF Blocks!block_break_volumes
    <3> HIDE DEF hit
    <3> QED BY <3>1 DEF Volumes
  <2>2. CASE move = "kick_landing"
    <3>1. PICK a, b : Blocks!block_break_volumes(move, box, p.x, p.y, p.dir) = <<hit, a, b>>
      BY <2>2 DEF Blocks!block_break_volumes
    <3> HIDE DEF hit
    <3> QED BY <3>1 DEF Volumes
  <2> QED BY <1>3, <2>1, <2>2
<1>5. PICK l \in Int, u \in Int, r \in Int, w \in Int :
        /\ hit = Facing(p, l, u, r, w)
        /\ l <= 968 /\ 2400 <= r /\ 480 <= u /\ u <= 2080 /\ u < w
  <2>1. CASE box = "kick"
    <3>1. hit = Facing(p, 968, 480, 6008, 5280)
      BY <1>1, <2>1, HitboxesFace
    <3> HIDE DEF hit
    <3> QED BY <3>1
  <2>2. CASE box = "skid"
    <3>1. hit = Facing(p, -800, 960, 2400, 3200)
      BY <1>1, <2>2, HitboxesFace
    <3> HIDE DEF hit
    <3> QED BY <3>1
  <2>3. CASE box = "stomp"
    <3>1. hit = Facing(p, -1200, 2080, 2800, 5280)
      BY <1>1, <2>3, HitboxesFace
    <3> HIDE DEF hit
    <3> QED BY <3>1
  <2> QED BY <1>3, <2>1, <2>2, <2>3
<1> HIDE DEF hit
<1>6. PICK x, y : /\ x = p.x /\ y = p.y
                   /\ x \in Int /\ y \in Int /\ 0 <= x /\ 0 <= y /\ y <= 7904
  <2>1. PICK x, y : x = p.x /\ y = p.y
    OBVIOUS
  <2>2. x \in Nat /\ y \in 0 .. 7904
    BY <1>1, <2>1
  <2>3. x \in Int /\ y \in Int /\ 0 <= x /\ 0 <= y /\ y <= 7904
    BY <2>2
  <2> QED BY <2>1, <2>3
<1>7. PICK left \in Int, right \in Int :
        /\ hit = Blocks!Box(left, 100 * y + u, right, 100 * y + w)
        /\ left < right /\ 0 < right
  <2>1. CASE p.dir = 1
    <3>1. hit = Blocks!Box(100 * x + l, 100 * y + u, 100 * x + r, 100 * y + w)
      BY <1>5, <1>6, <2>1 DEF Facing
    <3>2. /\ 100 * x + l \in Int /\ 100 * x + r \in Int
          /\ 100 * x + l < 100 * x + r /\ 0 < 100 * x + r
      BY <1>5, <1>6
    <3> QED BY <3>1, <3>2
  <2>2. CASE p.dir = -1
    <3>1. hit = Blocks!Box(100 * x + 1600 - r, 100 * y + u, 100 * x + 1600 - l, 100 * y + w)
      BY <1>5, <1>6, <2>2 DEF Facing
    <3>2. /\ 100 * x + 1600 - r \in Int /\ 100 * x + 1600 - l \in Int
          /\ 100 * x + 1600 - r < 100 * x + 1600 - l /\ 0 < 100 * x + 1600 - l
      BY <1>5, <1>6
    <3> QED BY <3>1, <3>2
  <2> QED BY <1>1, <2>1, <2>2 DEF Placed
<1>8. PICK a \in Int : a = (right - 1) \div 1600 /\ a >= 0 /\ left \div 1600 <= a
  <2>1. PICK n \in Int : n = right - 1 /\ 0 <= n /\ left <= n
    BY <1>7
  <2>2. PICK a \in Int : a = n \div 1600 /\ 1600 * a <= n /\ n < 1600 * a + 1600
    BY Quotients
  <2>3. PICK b \in Int : b = left \div 1600 /\ 1600 * b <= left
    BY Quotients
  <2>4. a >= 0 /\ b <= a
    BY <2>1, <2>2, <2>3
  <2> QED BY <2>1, <2>2, <2>3, <2>4
<1>9. PICK top \in Int, bottom \in Int :
        top = 100 * y + u /\ bottom = 100 * y + w /\ 480 <= top /\ top <= 792480 /\ top < bottom
  BY <1>5, <1>6
<1>10. PICK b \in Int : /\ b = top \div 1600 /\ b \in 0 .. 495
                        /\ b <= (bottom - 1) \div 1600
  <2>1. PICK n \in Int : n = bottom - 1 /\ top <= n
    BY <1>9
  <2>2. PICK b \in Int : b = top \div 1600 /\ 1600 * b <= top /\ top < 1600 * b + 1600
    BY Quotients
  <2>3. PICK rest \in Int : rest = n \div 1600 /\ n < 1600 * rest + 1600
    BY Quotients
  <2>4. 0 <= b /\ b <= 495 /\ b <= rest
    BY <1>9, <2>1, <2>2, <2>3
  <2> QED BY <2>1, <2>2, <2>3, <2>4
<1>11. <<a, b>> \in Blocks!Tiles(hit)
  <2>1. hit.left = left /\ hit.right = right /\ hit.top = top /\ hit.bottom = bottom
    BY <1>7, <1>9 DEF Blocks!Box
  <2>2. left \div 1600 \in Int /\ (bottom - 1) \div 1600 \in Int
    BY <1>7, <1>9
  <2> QED BY <1>8, <1>10, <2>1, <2>2 DEF Blocks!Tiles
<1>12. Blocks!InLevel(<<a, b>>)
  BY <1>8, <1>10 DEF Blocks!InLevel
<1>13. Blocks!is_direct_sweep_tile(move, p.x, p.y, p.dir, <<a, b>>)
  BY <1>3 DEF Blocks!is_direct_sweep_tile
<1> QED BY <1>2, <1>4, <1>12, <1>13, <1>11

(* A move that may sweep again is the move that its blocks are broken for. *)
LEMMA SameMove ==
  ASSUME NEW s \in Blocks!Strikes, Blocks!block_sweep_can_repeat(s.move)
  PROVE  Blocks!block_move_state_for_attack(s) = s.move
<1>1. s.move # "other"
  BY DEF Blocks!block_sweep_can_repeat
<1> QED BY <1>1 DEF Blocks!block_move_state_for_attack

LEMMA BlockCallKeeps ==
  ASSUME BlockInv, b_at # "tick", Blocks!MayBreak,
         NEW touch \in Blocks!Touched, NEW cls, Blocks!apply_native_blocks(touch, cls)
  PROVE  /\ b_ledger' \in BlockLedgers /\ b_ghost' \in BlockGhosts
         /\ b_ledger'.move = b_ledger.move
         /\ FieldIsOwed' /\ Blocks!BlocksProven'
<1> DEFINE move == Blocks!block_move_state_for_attack(b_strike)
           repeats == Blocks!block_sweep_can_repeat(move)
           volumes == Volumes(move, b_strike.box, b_player)
           boxes == Blocks!block_break_volumes(move, b_strike.box, b_player.x, b_player.y,
                                                b_player.dir)
           anchor == Blocks!kick_direct_anchor_y(move, touch, b_player.y)
           support == Blocks!is_ground_punch_support_block(move, b_player.y, touch)
           found == Blocks!Scan(move, anchor, touch, support, volumes)
           proved == cls # "unknown"
           scanned == found # {}
           owed == Blocks!block_sweep_can_repeat(b_ledger.move)
<1>1. /\ b_ledger \in BlockLedgers /\ b_ghost \in BlockGhosts
      /\ b_player \in Blocks!Places /\ b_strike \in Blocks!Strikes
      /\ b_ledger.active /\ b_ledger.move = b_strike.move
      /\ b_ledger.applied => owed
      /\ FieldIsOwed
  BY DEF BlockInv, Blocks!MayBreak
<1>2. PICK met, sweep, hollow, again : BlockCall(touch, cls, met, sweep, hollow, again)
  BY CallIsCall
<1>3. b_ghost'.again = {}
  <2>1. Placed(b_player)
    BY <1>1, PlacesArePlaced
  <2> QED BY <1>1, <1>2, <2>1, NothingIsRepeated
<1> DEFINE breaks == met \cup sweep \cup hollow # {}
           direct == proved \/ (repeats /\ (b_ledger.field > 0 \/ scanned))
<1>4. /\ b_ledger' = [Blocks!FieldAfter(b_ledger, repeats, proved, scanned)
                        EXCEPT !.applied = @ \/ breaks]
      /\ b_ghost'.swept = direct
      /\ b_ghost'.idle = IF proved \/ scanned THEN 0
                         ELSE IF b_ghost.idle > Field THEN b_ghost.idle ELSE b_ghost.idle + 1
      /\ b_ghost' = [broken |-> b_ghost'.broken, again |-> b_ghost'.again,
                     swept |-> b_ghost'.swept, idle |-> b_ghost'.idle]
      /\ b_ghost'.broken \subseteq Stones
  BY <1>2 DEF BlockCall
<1>5. /\ met = IF proved /\ ~scanned THEN Blocks!Fallback(touch, support, boxes) ELSE found
      /\ sweep = IF direct THEN Blocks!Sweep(move, touch, support, volumes) ELSE {}
  BY <1>2 DEF BlockCall
<1>6. repeats \in BOOLEAN /\ owed \in BOOLEAN
  BY DEF Blocks!block_sweep_can_repeat
<1>7. owed => repeats
  BY <1>1, SameMove
<1>8. (repeats /\ ~owed /\ (proved \/ scanned)) => breaks
  <2> SUFFICES ASSUME repeats, ~owed, proved \/ scanned PROVE breaks
    OBVIOUS
  <2>1. CASE scanned
    <3>1. met = found
      <4> HIDE DEF found, proved, boxes, support
      <4> QED BY <1>5, <2>1
    <3> HIDE DEF found
    <3> QED BY <2>1, <3>1
  <2>2. CASE ~scanned
    <3>1. ~support
      BY DEF Blocks!is_ground_punch_support_block, Blocks!block_sweep_can_repeat
    <3>2. \E t \in volumes :
            /\ Blocks!InLevel(t)
            /\ Blocks!is_direct_sweep_tile(move, b_player.x, b_player.y, b_player.dir, t)
      <4> HIDE DEF support
      <4> QED BY <1>1, <3>1, ContinuationBreaks
    <3>3. Blocks!Sweep(move, touch, support, volumes) # {}
      <4> HIDE DEF support, move, volumes
      <4> QED BY <3>1, <3>2 DEF Blocks!Sweep
    <3>4. sweep = Blocks!Sweep(move, touch, support, volumes)
      <4> HIDE DEF found, support, volumes, boxes
      <4> QED BY <1>5, <2>2
    <3> QED BY <3>3, <3>4
  <2> QED BY <2>1, <2>2
<1> HIDE DEF move, repeats, volumes, boxes, anchor, support, found, proved, scanned, owed, breaks
<1>9. /\ b_ledger' \in BlockLedgers /\ b_ledger'.move = b_ledger.move
      /\ b_ledger'.applied = (b_ledger.applied \/ breaks)
      /\ b_ledger'.field = IF ~repeats THEN b_ledger.field
                           ELSE IF proved \/ scanned THEN Field
                           ELSE IF b_ledger.field > 0 THEN b_ledger.field - 1 ELSE 0
  <2>1. PICK l : l = b_ledger
    OBVIOUS
  <2>2. PICK after : after = Blocks!FieldAfter(b_ledger, repeats, proved, scanned)
    OBVIOUS
  <2>3. /\ after \in BlockLedgers
        /\ after.move = l.move /\ after.applied = l.applied
        /\ after.field = IF ~repeats THEN l.field
                         ELSE IF proved \/ scanned THEN Field
                         ELSE IF l.field > 0 THEN l.field - 1 ELSE 0
    <3>1. CASE ~repeats
      BY <1>1, <2>1, <2>2, <3>1 DEF Blocks!FieldAfter
    <3>2. CASE repeats /\ (proved \/ scanned)
      BY <1>1, <2>1, <2>2, <3>2, BlocksAssumption DEF Blocks!FieldAfter, BlockLedgers
    <3>3. CASE repeats /\ ~(proved \/ scanned)
      BY <1>1, <2>1, <2>2, <3>3 DEF Blocks!FieldAfter, BlockLedgers
    <3> QED BY <3>1, <3>2, <3>3
  <2>4. b_ledger' = [after EXCEPT !.applied = @ \/ breaks]
    BY <1>4, <2>2
  <2>5. after.applied \in BOOLEAN /\ breaks \in BOOLEAN
    BY <2>3 DEF BlockLedgers, breaks
  <2>6. /\ b_ledger' \in BlockLedgers /\ b_ledger'.move = after.move
        /\ b_ledger'.applied = (after.applied \/ breaks) /\ b_ledger'.field = after.field
    BY <2>3, <2>4, <2>5 DEF BlockLedgers
  <2> QED BY <2>1, <2>3, <2>6
<1>10. PICK field \in Nat, idle \in Nat, frames \in Nat :
         field = b_ledger.field /\ idle = b_ghost.idle /\ frames = Field
  BY <1>1, BlocksAssumption DEF BlockLedgers, BlockGhosts
<1>11. field > 0 => owed /\ idle + field <= frames
  BY <1>1, <1>10 DEF FieldIsOwed, owed
<1>12. PICK field2, idle2 : field2 = b_ledger'.field /\ idle2 = b_ghost'.idle
  OBVIOUS
<1>13. /\ field2 = IF ~repeats THEN field
                   ELSE IF proved \/ scanned THEN frames
                   ELSE IF field > 0 THEN field - 1 ELSE 0
       /\ idle2 = IF proved \/ scanned THEN 0 ELSE IF idle > frames THEN idle ELSE idle + 1
  BY <1>4, <1>9, <1>10, <1>12
<1>14. idle2 \in Nat
  BY <1>13
<1>15. field2 > 0 => IF owed THEN idle2 + field2 <= frames ELSE b_ledger'.applied
  <2>1. CASE owed
    BY <1>7, <1>11, <1>13, <2>1
  <2>2. CASE ~owed
    <3>1. field = 0
      BY <1>11, <2>2
    <3>2. field2 > 0 => repeats /\ (proved \/ scanned)
      BY <1>13, <3>1
    <3> QED BY <1>8, <1>9, <2>2, <3>2
  <2> QED BY <2>1, <2>2
<1>16. direct => idle2 <= frames
  <2>1. CASE proved \/ scanned
    BY <1>13, <2>1
  <2>2. CASE ~(proved \/ scanned)
    <3>1. direct => field > 0
      BY <1>10, <2>2
    <3> QED BY <1>11, <1>13, <2>2, <3>1
  <2> QED BY <2>1, <2>2
<1>17. b_ghost' \in BlockGhosts
  <2>1. direct \in BOOLEAN
    BY <1>6 DEF proved, scanned
  <2> HIDE DEF direct
  <2> QED BY <1>3, <1>4, <1>12, <1>14, <2>1 DEF BlockGhosts
<1>18. FieldIsOwed'
  BY <1>9, <1>10, <1>12, <1>15 DEF FieldIsOwed, owed
<1>19. Blocks!BlocksProven'
  <2>1. b_ghost'.swept => b_ghost'.idle <= Field
    BY <1>4, <1>10, <1>12, <1>16
  <2> QED BY <1>3, <2>1 DEF Blocks!BlocksProven, Blocks!SweptOnce, Blocks!DirectNeedsProof
<1> QED BY <1>9, <1>17, <1>18, <1>19

LEMMA BlockSteps == BlockInv /\ [Blocks!Next]_(Blocks!vars) => BlockInv'
<1> SUFFICES ASSUME BlockInv, [Blocks!Next]_(Blocks!vars) PROVE BlockInv'
  OBVIOUS
<1> DEFINE Kept == UNCHANGED <<b_player, b_strike>>
<1>1. /\ b_at \in {"tick", "blocks", "combat"}
      /\ b_ledger \in BlockLedgers /\ b_ghost \in BlockGhosts
      /\ b_at # "tick" => /\ b_player \in Blocks!Places /\ b_strike \in Blocks!Strikes
                          /\ b_ledger.active => b_ledger.move = b_strike.move
      /\ FieldIsOwed
  BY DEF BlockInv
<1>2. ASSUME b_at # "tick", b_at' \in {"tick", "blocks", "combat"}, Kept,
             \/ /\ Blocks!MayBreak
                /\ \E touch \in Blocks!Touched : \E cls : Blocks!apply_native_blocks(touch, cls)
             \/ Blocks!Skipped
             \/ /\ b_ledger' = [b_ledger EXCEPT !.contact = TRUE]
                /\ b_ghost' = [b_ghost EXCEPT !.broken = {}, !.again = {}, !.swept = FALSE]
      PROVE  BlockInv'
  <2>1. CASE Blocks!MayBreak /\ \E touch \in Blocks!Touched : \E cls : Blocks!apply_native_blocks(touch, cls)
    <3>1. PICK touch \in Blocks!Touched : \E cls : Blocks!apply_native_blocks(touch, cls)
      BY <2>1
    <3>2. PICK cls : Blocks!apply_native_blocks(touch, cls)
      BY <3>1
    <3>3. /\ b_ledger' \in BlockLedgers /\ b_ghost' \in BlockGhosts
          /\ b_ledger'.move = b_ledger.move
          /\ FieldIsOwed' /\ Blocks!BlocksProven'
      BY <1>2, <2>1, <3>2, BlockCallKeeps
    <3>4. b_ledger.active
      BY <2>1 DEF Blocks!MayBreak
    <3>5. b_strike' = b_strike /\ b_player' = b_player
      BY <1>2
    <3>6. b_ledger'.move = b_strike'.move /\ b_strike' \in Blocks!Strikes /\ b_player' \in Blocks!Places
      BY <1>1, <1>2, <3>3, <3>4, <3>5
    <3> QED BY <1>2, <3>3, <3>6 DEF BlockInv
  <2>2. CASE \/ Blocks!Skipped
             \/ /\ b_ledger' = [b_ledger EXCEPT !.contact = TRUE]
                /\ b_ghost' = [b_ghost EXCEPT !.broken = {}, !.again = {}, !.swept = FALSE]
    <3>1. /\ b_ghost' = [b_ghost EXCEPT !.broken = {}, !.again = {}, !.swept = FALSE]
          /\ b_ledger' = b_ledger \/ b_ledger' = [b_ledger EXCEPT !.contact = TRUE]
      BY <2>2 DEF Blocks!Skipped
    <3>2. /\ b_ghost' \in BlockGhosts /\ b_ghost'.idle = b_ghost.idle
          /\ ~b_ghost'.swept /\ b_ghost'.again = {}
      BY <1>1, <3>1 DEF BlockGhosts
    <3>3. /\ b_ledger' \in BlockLedgers /\ b_ledger'.active = b_ledger.active
          /\ b_ledger'.move = b_ledger.move /\ b_ledger'.applied = b_ledger.applied
          /\ b_ledger'.field = b_ledger.field
      BY <1>1, <3>1 DEF BlockLedgers
    <3>4. FieldIsOwed'
      BY <1>1, <3>2, <3>3 DEF FieldIsOwed
    <3>5. Blocks!BlocksProven'
      BY <3>2 DEF Blocks!BlocksProven, Blocks!SweptOnce, Blocks!DirectNeedsProof
    <3>6. b_strike' = b_strike /\ b_player' = b_player
      BY <1>2
    <3> QED BY <1>1, <1>2, <3>2, <3>3, <3>4, <3>5, <3>6 DEF BlockInv
  <2> QED BY <1>2, <2>1, <2>2
<1>3. CASE Blocks!OnPlayerBlockCode
  BY <1>2, <1>3 DEF Blocks!OnPlayerBlockCode
<1>4. CASE Blocks!combat_apply
  BY <1>2, <1>4 DEF Blocks!combat_apply
<1>5. CASE Blocks!BeforePhysics
  <2>1. Field + 1 \in Nat
    BY BlocksAssumption
  <2>2. CASE /\ b_strike' \in Blocks!Strikes /\ b_player' \in Blocks!Places
             /\ b_ledger' = Blocks!combat_ledger_update(b_strike'.move)
             /\ b_ghost' = [broken |-> {}, again |-> {}, swept |-> FALSE,
                            idle |-> IF b_ledger' = b_ledger THEN b_ghost.idle ELSE Field + 1]
             /\ b_at' \in {"blocks", "combat"}
    <3>1. PICK move : move = b_strike'.move
      OBVIOUS
    <3>2. move \in BlockMoves
      BY <2>2, <3>1 DEF Blocks!Strikes, BlockMoves
    <3>3. /\ b_ledger' \in BlockLedgers /\ b_ledger'.move = move
          /\ b_ledger' = b_ledger \/ b_ledger'.field = 0
      <4>1. CASE ~b_ledger.active \/ b_ledger.move # move
        <5>1. b_ledger' = [Blocks!NoLedger EXCEPT !.active = TRUE, !.move = move]
          BY <2>2, <3>1, <4>1 DEF Blocks!combat_ledger_update
        <5> QED BY <3>2, <5>1 DEF Blocks!NoLedger, BlockLedgers
      <4>2. CASE ~(~b_ledger.active \/ b_ledger.move # move)
        BY <1>1, <2>2, <3>1, <4>2 DEF Blocks!combat_ledger_update
      <4> QED BY <4>1, <4>2
    <3>4. /\ b_ghost' \in BlockGhosts /\ ~b_ghost'.swept /\ b_ghost'.again = {}
          /\ b_ledger' = b_ledger => b_ghost'.idle = b_ghost.idle
      BY <1>1, <2>1, <2>2 DEF BlockGhosts
    <3>5. FieldIsOwed'
      <4>1. CASE b_ledger' = b_ledger
        BY <1>1, <3>4, <4>1 DEF FieldIsOwed
      <4>2. CASE b_ledger'.field = 0
        BY <4>2 DEF FieldIsOwed
      <4> QED BY <3>3, <4>1, <4>2
    <3>6. Blocks!BlocksProven'
      BY <3>4 DEF Blocks!BlocksProven, Blocks!SweptOnce, Blocks!DirectNeedsProof
    <3> QED BY <2>2, <3>1, <3>3, <3>4, <3>5, <3>6 DEF BlockInv
  <2>3. CASE /\ b_ledger' = Blocks!NoLedger /\ b_ghost' = Blocks!NoGhost /\ b_at = "tick" /\ b_at' = b_at
    BY <2>1, <2>3 DEF BlockInv, BlockLedgers, BlockMoves, BlockGhosts, FieldIsOwed,
          Blocks!NoLedger, Blocks!NoGhost, Blocks!BlocksProven, Blocks!SweptOnce,
          Blocks!DirectNeedsProof
  <2> QED BY <1>5, <2>2, <2>3 DEF Blocks!BeforePhysics
<1>6. CASE UNCHANGED Blocks!vars
  BY <1>6 DEF BlockInv, FieldIsOwed, Blocks!vars, Blocks!BlocksProven, Blocks!SweptOnce,
        Blocks!DirectNeedsProof, Blocks!Places, Blocks!Strikes
<1> QED BY <1>3, <1>4, <1>5, <1>6 DEF Blocks!Next

(* The tiles of a Falcon special: no sweep breaks a tile twice, and the    *)
(* sweep that looks at no tile runs only within the block field that a     *)
(* proved block opened for the very move (apply_native_blocks,             *)
(* remember_broken_coord and block_field_frames,                           *)
(* smw_falcon_combat_apply.c:525-870).                                     *)
THEOREM BlocksAreProven == Spec => []BlocksProven
<1>1. Init => BlockInv
  BY BlocksStart DEF Init
<1>2. [Next]_vars => [Blocks!Next]_(Blocks!vars)
  BY DEF Next, vars, blocks, Blocks!vars
<1>3. BlockInv /\ [Next]_vars => BlockInv'
  BY <1>2, BlockSteps
<1>4. BlockInv => BlocksProven
  BY DEF BlockInv, BlocksProven
<1> QED BY <1>1, <1>3, <1>4, PTL DEF Spec
=============================================================================
