----------------------------- MODULE FalconWall ------------------------------
(***************************************************************************)
(* Captain Falcon and SMW's walls (overrides/falcon/falcon_smw_adapter.c): *)
(* the latch that holds a grounded run against the face of a step, so that *)
(* SMW's crush check does not take it for a squeeze, and the net that puts *)
(* a Falcon the wall killed or ejected back on the last safe ground.       *)
(*                                                                         *)
(* SMW's player is one column x, its collision flags and its state; what   *)
(* the native collision makes of a motion is any outcome one column away,  *)
(* a death or an ejection out of bounds.  A level is entered at a column   *)
(* of its own, and the frame that prepares it is not one of play.          *)
(***************************************************************************)
EXTENDS Integers

CONSTANTS
  Columns,        \* the columns of a level, from 0
  SafetyNotes,    \* SMW_FALCON_WALL_SAFETY_FRAMES, 12 in the code
  MaxDelta        \* SMW_FALCON_WALL_OOB_MAX_DELTA, 64 pixels in the code

VARIABLES
  at,      \* the next seam of the frame
  p,       \* SMW's player
  own,     \* active, foreign ownership
  cls,     \* the fighter's class: "run" (dash, run, run turn), "kick", "other"
  latch,   \* s_step_wall_*
  safe,    \* s_wall_safety_*: the ground, recent_frames, hazard_armed
  snap,    \* s_x_before, s_in_air_before, s_pending, s_last_input_direction
  ghost    \* history: the calm ticks before now and what a seam has just done

vars == <<at, p, own, cls, latch, safe, snap, ghost>>

Dirs == {-1, 0, 1}
OOB == Columns                       \* player_xpos >= $F000
Places == 0 .. Columns

\* side: the one wall bit of $77 (1 right, -1 left); crush: $77 & $1C = $1C.
NoLatch == [on |-> FALSE, dir |-> 0, x |-> 0, air |-> FALSE, side |-> 0]
NoSafety == [valid |-> FALSE, x |-> 0, side |-> 0, recent |-> 0, armed |-> FALSE]

playable == p.state = "play"
Foreign == own = "foreign"
Active == own # "none"
ground_run_wall_state(c) == c = "run"

Abs(n) == IF n < 0 THEN -n ELSE n
Seam(name) == at = name

----------------------------------------------------------------------------
(* The step latch.                                                          *)

\* The latched place, at rest on the floor with this side's wall.
restore_step_wall_latch(q, l) ==
  [q EXCEPT !.x = l.x, !.air = l.air, !.side = l.side, !.floor = TRUE, !.crush = FALSE]

\* Mutant: the latch is taken where the collision left the player.
LatchAfter(q) == [on |-> TRUE, dir |-> snap.dir, x |-> q.x, air |-> q.air, side |-> q.side]

install_step_wall_latch(q) ==
  [on |-> TRUE, dir |-> snap.dir, x |-> snap.x, air |-> snap.air, side |-> q.side]

install_current_step_wall_latch(q, dir) ==
  [on |-> TRUE, dir |-> dir, x |-> q.x, air |-> q.air, side |-> q.side]

----------------------------------------------------------------------------
(* The safety net.                                                          *)

note_wall_safety_context(s, l, c) ==
  IF ~p.air /\ (p.side # 0 \/ l.on)
  THEN [s EXCEPT !.armed = TRUE, !.recent = SafetyNotes]
  ELSE IF s.recent # 0 THEN [s EXCEPT !.recent = @ - 1]
  ELSE [s EXCEPT !.armed = @ /\ (p.air \/ ~p.floor \/ ground_run_wall_state(c))]

remember_wall_safe_ground(s, q) ==
  IF q.state = "play" /\ ~q.air /\ q.floor /\ q.x # OOB
  THEN [s EXCEPT !.valid = TRUE, !.x = q.x, !.side = q.side] ELSE s

wall_safety_should_restore(s, q) ==
  LET seen == s.armed \/ s.recent # 0
  IN  /\ s.valid /\ Active /\ q.state # "load"
      /\ \/ q.x = OOB
         \/ q.state = "dead" /\ seen
         \/ /\ q.state # "dead" /\ seen
            /\ \/ Abs(q.x - s.x) > MaxDelta
               \/ q.air /\ (q.deep \/ q.side # 0)

\* The step the wall safety takes at three seams: the player stands again on
\* the remembered ground, held against the wall he was seen at.
Rescue(q) ==
  LET side == IF q.side # 0 THEN q.side ELSE safe.side
      q1 == [q EXCEPT !.state = "play", !.air = FALSE, !.deep = FALSE,
                      !.x = safe.x, !.side = side, !.floor = TRUE, !.crush = FALSE]
  IN  /\ p' = q1
      /\ own' = "foreign"
      /\ cls' \in IF cls = "kick" THEN {"other"} ELSE {cls, "other"}
      /\ \E dir \in IF side # 0 THEN {side} ELSE {-1, 1} :
           latch' = install_current_step_wall_latch(q1, dir)
      /\ safe' = [safe EXCEPT !.armed = TRUE, !.recent = SafetyNotes]
      /\ snap' = [snap EXCEPT !.pending = FALSE]

----------------------------------------------------------------------------
(* History.                                                                 *)

\* jerk: how far a seam moved the player, an ejected one aside.
Jerk(q) == IF p.x = OOB THEN 0 ELSE Abs(q.x - p.x)

\* calm: the ticks in a row on clear ground by a fighter not running.
Calm(s) ==
  IF p.side = 0 /\ ~latch.on /\ ~p.air /\ p.floor /\ ~ground_run_wall_state(cls)
  THEN IF ghost.calm > SafetyNotes THEN ghost.calm ELSE ghost.calm + 1
  ELSE 0

----------------------------------------------------------------------------
(* The guest.                                                               *)

\* Between frames a moving platform or a scroll carries the player, a sprite
\* or the floor kills him, a script takes him or returns him.
LiveFrame ==
  /\ Seam("frame")
  /\ \E x \in {y \in 0 .. Columns - 1 : Abs(y - p.x) <= 1} \cup {p.x} : p' = [p EXCEPT !.x = x]
  /\ at' = IF p.state = "play" THEN "D5F2" ELSE "DC2D"
  /\ UNCHANGED <<own, cls, latch, safe, snap, ghost>>

NativePhase ==
  /\ Seam("frame")
  /\ \E s \in {"play", "script", "dead"} \ {p.state} : p' = [p EXCEPT !.state = s]
  /\ UNCHANGED <<at, own, cls, latch, safe, snap, ghost>>

\* Another level, by a door or a pipe: the frame that prepares it runs the
\* player under another mode than play ($0100 # $14).
EnterLevel ==
  /\ Seam("frame") /\ p.state # "dead"
  /\ \E x \in 0 .. Columns - 1 :
       p' = [x |-> x, air |-> FALSE, deep |-> FALSE, side |-> 0, floor |-> TRUE,
             crush |-> FALSE, state |-> "load"]
  /\ at' = "DC2D"
  /\ UNCHANGED <<own, cls, latch, safe, snap, ghost>>

BeforePlayerPhysics ==
  /\ Seam("D5F2") /\ at' = "DC2D"
  /\ latch' = IF Active THEN latch ELSE NoLatch
  /\ UNCHANGED <<p, own, cls, safe, snap, ghost>>

\* The native collision: at most a column along the speed, which a latch has
\* set to 0, its flags, a death in the crush check, an ejection out of bounds.
Speed == IF latch.on THEN 0 ELSE snap.motion

Collide ==
  /\ Seam("body")
  /\ \E x \in {snap.x, snap.x + Speed} \cup {OOB}, side \in Dirs,
        air \in BOOLEAN, crush \in BOOLEAN :
       /\ x \in Places
       /\ crush => ~air
       /\ p' = [p EXCEPT !.x = x, !.side = side, !.air = air, !.deep = air /\ p.air,
                         !.floor = ~air, !.crush = crush]
  /\ at' = "crush"
  /\ UNCHANGED <<own, cls, latch, safe, snap, ghost>>

----------------------------------------------------------------------------
(* The seams.                                                               *)

\* The entry of $00:DC2D, the end of $00:CD36 and of each $01:80D2.
RestoreWallSafeGround ==
  /\ at \in {"DC2D", "80D2"}
  /\ wall_safety_should_restore(safe, p)
  /\ Rescue(p)
  /\ ghost' = [ghost EXCEPT !.saved = TRUE, !.calm = 0,
                            !.undone = IF p.state = "dead" /\ p.x # OOB
                                       THEN 2 * ghost.calm ELSE 0]
  /\ UNCHANGED at

Unsaved == ~wall_safety_should_restore(safe, p)

BeforePhysicsNotOurs ==
  /\ Seam("DC2D") /\ Unsaved
  /\ ~Active \/ ~playable
  /\ own' = IF Foreign THEN "scripted" ELSE own
  /\ latch' = NoLatch
  /\ safe' = IF Active THEN safe ELSE NoSafety
  /\ snap' = [snap EXCEPT !.pending = @ /\ ~Active]
  /\ at' = "80D2"
  /\ UNCHANGED <<p, cls, ghost>>

\* The latch releases on a neutral stick, reversal, jump and loss of ground.
StillHeld(l, stick, jump) ==
  l.on /\ stick = l.dir /\ ~jump /\ ~p.air /\ p.air = l.air

\* The fighter's class after a tick: a run needs the stick, or a dash or run
\* that goes on without it.
Ticked(stick) ==
  {"kick", "other"} \cup (IF stick # 0 \/ ground_run_wall_state(cls) THEN {"run"} ELSE {})

\* Playable: the net's bookkeeping, the latch, the tick, the speeds.  A wall
\* the fighter pushes at stops him and neutralises the stick; the test of the
\* latch reads that stick and releases what was taken in the same tick.
SmwFalconBeforePhysics(dir, jump) ==
  /\ Seam("DC2D") /\ Unsaved
  /\ Active /\ playable
  /\ own' = "foreign"
  /\ LET l0 == IF Foreign THEN latch ELSE NoLatch
         s0 == remember_wall_safe_ground(note_wall_safety_context(safe, l0, cls), p)
         stopped == ~l0.on /\ ~p.air /\ dir # 0 /\ p.floor /\ p.side = dir
         l1 == IF stopped THEN install_current_step_wall_latch(p, dir) ELSE l0
         stick == IF stopped THEN 0 ELSE dir
         l2 == IF StillHeld(l1, stick, jump) THEN l1 ELSE NoLatch
         q == IF stopped \/ l2.on THEN restore_step_wall_latch(p, l1) ELSE p
     IN  /\ latch' = l2
         /\ cls' \in Ticked(IF l2.on THEN 0 ELSE stick)
         /\ \E motion \in Dirs :
              snap' = [x |-> q.x, air |-> q.air, pending |-> TRUE, dir |-> dir, motion |-> motion]
         /\ safe' = note_wall_safety_context(s0, l2, cls')
         /\ p' = [q EXCEPT !.deep = FALSE]
         /\ ghost' = [ghost EXCEPT !.calm = Calm(safe), !.jerk = Jerk(q)]
  /\ at' = "body"

\* $00:E9FB.  A kick stops where the tick began; a run is latched there.
SmwFalconBeforeCrushCheck ==
  /\ Seam("crush")
  /\ IF /\ p.crush /\ snap.pending /\ Foreign /\ playable /\ ~snap.air
        /\ snap.motion # 0 /\ p.side = snap.motion
        /\ cls = "kick" \/ ground_run_wall_state(cls)
     THEN IF cls = "kick"
          THEN /\ p' = [p EXCEPT !.x = snap.x, !.air = FALSE, !.crush = FALSE]
               /\ cls' = "other"
               /\ snap' = [snap EXCEPT !.pending = FALSE]
               /\ UNCHANGED latch
          ELSE /\ latch' = install_step_wall_latch(p)
               /\ p' = restore_step_wall_latch(p, latch')
               /\ UNCHANGED <<cls, snap>>
     ELSE UNCHANGED <<p, cls, snap, latch>>
  /\ at' = "squeeze"
  /\ ghost' = [ghost EXCEPT !.jerk = Jerk(p')]
  /\ UNCHANGED <<own, safe>>

\* The native branch the seam precedes: a squeeze kills, and returns past CD36.
Squeeze ==
  /\ Seam("squeeze")
  /\ \/ p.crush /\ p' = [p EXCEPT !.state = "dead"] /\ at' = "80D2"
     \/ ~p.crush /\ at' \in {"CD36", "80D2"} /\ UNCHANGED p
  /\ UNCHANGED <<own, cls, latch, safe, snap, ghost>>

\* $00:CD36.  A run that met the wall it faces is latched before it.
SmwFalconAfterPhysics ==
  /\ Seam("CD36") /\ at' = "80D2"
  /\ IF ~snap.pending \/ ~Foreign THEN UNCHANGED <<p, latch, safe, snap, cls>>
     ELSE LET meets == /\ ~p.air /\ ~snap.air /\ p.side # 0
                       /\ ground_run_wall_state(cls)
                       /\ snap.dir # 0 /\ p.side = snap.dir
              l == IF meets THEN install_step_wall_latch(p) ELSE latch
              q == IF meets THEN restore_step_wall_latch(p, l) ELSE p
          IN  /\ latch' = l /\ p' = q
              /\ cls' \in {cls, "other"}
              /\ safe' = IF wall_safety_should_restore(safe, q) THEN safe
                         ELSE remember_wall_safe_ground(safe, q)
              /\ snap' = [snap EXCEPT !.pending = FALSE]
  /\ ghost' = [ghost EXCEPT !.jerk = Jerk(p')]
  /\ UNCHANGED own

SpritesRun ==
  /\ Seam("80D2") /\ Unsaved
  /\ at' = "frame"
  /\ ghost' = [ghost EXCEPT !.saved = FALSE, !.undone = 0, !.jerk = 0]
  /\ UNCHANGED <<p, own, cls, latch, safe, snap>>

\* A state load restores SMW's player and forgets every latch.
SmwFalconOnStateLoaded ==
  /\ Seam("frame") /\ Active
  /\ \E x \in 0 .. Columns - 1 : p' = [p EXCEPT !.x = x, !.state = "play"]
  /\ own' \in {"foreign", "scripted"}
  /\ latch' = NoLatch /\ safe' = NoSafety
  /\ snap' = [snap EXCEPT !.pending = FALSE, !.dir = 0]
  /\ ghost' = [ghost EXCEPT !.calm = 0]
  /\ UNCHANGED <<at, cls>>

Init ==
  /\ at = "frame"
  /\ p = [x |-> 0, air |-> FALSE, deep |-> FALSE, side |-> 0, floor |-> TRUE,
          crush |-> FALSE, state |-> "script"]
  /\ own = "scripted"
  /\ cls = "other" /\ latch = NoLatch /\ safe = NoSafety
  /\ snap = [x |-> 0, air |-> FALSE, pending |-> FALSE, dir |-> 0, motion |-> 0]
  /\ ghost = [calm |-> 0, saved |-> FALSE, undone |-> 0, jerk |-> 0]

Next ==
  \/ LiveFrame \/ NativePhase \/ EnterLevel \/ SmwFalconOnStateLoaded
  \/ BeforePlayerPhysics
  \/ RestoreWallSafeGround
  \/ BeforePhysicsNotOurs
  \/ \E dir \in Dirs, jump \in BOOLEAN : SmwFalconBeforePhysics(dir, jump)
  \/ Collide \/ SmwFalconBeforeCrushCheck \/ Squeeze
  \/ SmwFalconAfterPhysics \/ SpritesRun

Spec == Init /\ [][Next]_vars

\* A view for TLC: outside the collision only the pending tick is read.
View ==
  <<at, p, own, cls, latch, safe,
    IF at \in {"frame", "D5F2", "DC2D", "80D2"} THEN snap.pending ELSE snap, ghost>>

----------------------------------------------------------------------------

\* "never turn the boundary safety net into global enemy invulnerability": no
\* death in bounds is undone once the fighter has stood clear of any wall, not
\* running, for as many notes (two a tick) as the net remembers a hazard.
RescueNeedsHazard == ghost.undone <= SafetyNotes + 2

\* "so the step behaves as a solid wall rather than leaving Falcon embedded":
\* a latched player ends the collision in the column he began the tick in,
\* whichever of the crush check, CD36 or neither ran.
LatchHoldsColumn ==
  at = "80D2" /\ latch.on /\ ~ghost.saved /\ p.x # OOB => p.x = snap.x

\* The latch and the crush correction move the player by no more than the one
\* column the native code had moved him since the tick: no latch outlives a
\* script, a change of level or a state load.
LatchMovesOneColumn == ghost.jerk <= 1

\* WallsHold: a wall the fighter runs into holds him, where he was, and only
\* while it is there.
WallsHold == RescueNeedsHazard /\ LatchHoldsColumn /\ LatchMovesOneColumn
=============================================================================
