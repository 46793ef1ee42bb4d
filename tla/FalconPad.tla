------------------------------ MODULE FalconPad ------------------------------
(***************************************************************************)
(* The controller words between SMW and Captain Falcon                     *)
(* (overrides/falcon/falcon_smw_adapter.c).  $00:D5F2 takes the physical   *)
(* pad away from SMW's player code, $00:DC2D turns it into the fighter's   *)
(* input (double-tap dash, the special's frame of grace), $01:80D2 gives   *)
(* SMW's carried-sprite code a Y and a Down of its own.                    *)
(*                                                                         *)
(* Controllers are read once a frame, in frozen frames too.  A frame may   *)
(* turn scripted between any two seams; a death rescued at DC2D resumes a  *)
(* frame without its D5F2 (FalconHost).                                    *)
(***************************************************************************)
EXTENDS Integers, Sequences

CONSTANT DoubleTap    \* SMW_FALCON_DASH_DOUBLE_TAP_FRAMES, 15 in the code

VARIABLES
  at,       \* the next seam of the frame
  phys,     \* the physical pad: dir, y, special (Y) and carry (A) held
  io,       \* what SMW reads: the same, and the two press edges kept apart
  guest,    \* playable, the pipe-entrance metadata, carrying
  own,      \* active, and foreign ownership
  pad,      \* s_foreign_pad
  dash,     \* s_dash_*
  grace,    \* s_special_grace_pending
  ghost     \* history: directions ticked, a turn in this hold, the press owed,
            \* D5F2 of this frame

vars == <<at, phys, io, guest, own, pad, dash, grace, ghost>>

Buttons == [dir : -1 .. 1, down : BOOLEAN, special : BOOLEAN, carry : BOOLEAN]
Released == [dir |-> 0, down |-> FALSE, special |-> FALSE, carry |-> FALSE]

NoDash == [first |-> 0, prev |-> 0, full |-> FALSE, ignore |-> FALSE, age |-> 0]
NoPad  == [valid |-> FALSE, hold |-> Released, press |-> FALSE,
           carry_a |-> FALSE, carry_down |-> FALSE, carry_valid |-> FALSE]

\* The captured words are read while valid only.
Invalid(p) == [p EXCEPT !.valid = FALSE, !.hold = Released, !.press = FALSE]

----------------------------------------------------------------------------

\* A frame begins: io.y is what SMW takes for Y, io.press its press edge.
Frame ==
  /\ at = "frame"
  /\ phys' \in Buttons
  /\ io' = [dir |-> phys'.dir, y |-> phys'.special, down |-> phys'.down,
            a |-> phys'.carry, press |-> phys'.special /\ ~phys.special]
  /\ \E live \in {"D5F2", "DC2D", "80D2"} : at' = live
  /\ guest' \in [playable : BOOLEAN, pipe : BOOLEAN, carrying : BOOLEAN]
  /\ at' = "DC2D" => guest'.playable          \* the rescued death
  /\ ghost' = [ghost EXCEPT !.masked = FALSE]
  /\ UNCHANGED <<own, pad, dash, grace>>

\* A script takes the player between two seams.
Script ==
  /\ at \in {"DC2D", "80D2"} /\ guest.playable
  /\ guest' = [guest EXCEPT !.playable = FALSE]
  /\ UNCHANGED <<at, phys, io, own, pad, dash, grace, ghost>>

\* The selection changes hands: the plugin is toggled, or a save is loaded.
Select ==
  /\ at = "frame"
  /\ own' \in [active : BOOLEAN, foreign : {FALSE}]
  /\ UNCHANGED <<at, phys, io, guest, pad, dash, grace, ghost>>

Masked(words, pipe) ==
  [dir |-> 0, y |-> FALSE, down |-> pipe /\ words.down, a |-> FALSE, press |-> FALSE]

\* History of the double tap and of the special starts over.
Forgotten == [ghost EXCEPT !.dirs = <<>>, !.turning = FALSE, !.second = FALSE,
                           !.owed = 0]

capture_and_mask_input ==
  /\ pad' = [valid |-> TRUE,
             hold |-> [dir |-> io.dir, down |-> io.down, special |-> io.y,
                       carry |-> io.a],
             press |-> io.press, carry_a |-> io.a, carry_down |-> io.down,
             carry_valid |-> TRUE]
  /\ io' = Masked(io, guest.pipe)

SmwFalconBeforePlayerPhysics ==
  /\ at = "D5F2"
  /\ IF own.active /\ guest.playable
     THEN /\ capture_and_mask_input
          /\ ghost' = [ghost EXCEPT !.masked = TRUE]
          /\ UNCHANGED <<dash, grace>>
     ELSE /\ pad' = [Invalid(pad) EXCEPT !.carry_valid = FALSE]
          /\ dash' = NoDash /\ grace' = FALSE
          /\ ghost' = Forgotten
          /\ UNCHANGED io
  /\ at' = "DC2D"
  /\ UNCHANGED <<phys, guest, own>>

----------------------------------------------------------------------------
(* The double tap.                                                          *)

\* The first tap expires once the window has passed.
AgeTap(d) ==
  IF d.first = 0 THEN d
  ELSE IF d.age < DoubleTap THEN [d EXCEPT !.age = @ + 1]
  ELSE [d EXCEPT !.first = 0]

Tap(d, dir) ==
  [(CASE d.ignore -> [d EXCEPT !.full = FALSE, !.ignore = dir # 0]
      [] ~d.ignore /\ dir = 0 -> [d EXCEPT !.full = FALSE]
      [] ~d.ignore /\ dir # 0 /\ dir = d.prev -> d
      [] OTHER -> LET second == dir = d.first /\ d.age <= DoubleTap
                  IN  [d EXCEPT !.full = second, !.age = 0,
                                !.first = IF second THEN 0 ELSE dir])
     EXCEPT !.prev = dir]

\* Mutant: the grace is not consumed by the press it delivered.
GraceKept(press, directed) == (press /\ ~directed) \/ grace

\* A special without a direction waits one tick for one.
GraceAfter(press, directed) == press /\ ~directed

smw_falcon_input ==
  LET words == IF pad.valid THEN [pad.hold EXCEPT !.special = pad.press]
               ELSE [dir |-> io.dir, down |-> io.down, special |-> io.press,
                     carry |-> io.a]
      directed == words.dir # 0 \/ words.down
      d == Tap(AgeTap(dash), words.dir)
  IN  [dash |-> d, grace |-> GraceAfter(words.special, directed),
       press |-> words.special,
       out |-> [dir |-> words.dir,
                special |-> IF words.special THEN directed ELSE grace]]

\* History: the last ticks, their direction and whether a turn had begun in
\* their hold.  A tap is the onset of a direction, and counts for as long as
\* the window lasts and nothing but the neutral pad, the direction itself and
\* what a turn swallows has come after it.
Taps(dirs) ==
  {j \in 1 .. Len(dirs) :
    /\ Len(dirs) - j < DoubleTap
    /\ dirs[j].dir # 0 /\ ~dirs[j].turning
    /\ j = 1 \/ dirs[j - 1].dir # dirs[j].dir
    /\ \A i \in j .. Len(dirs) : dirs[i].dir \in {dirs[j].dir, 0} \/ dirs[i].turning}

Second(dirs, dir) == \E j \in Taps(dirs) : dirs[j].dir = dir
Last(dirs) == IF dirs = <<>> THEN 0 ELSE dirs[Len(dirs)].dir

Ticked(i, turns) ==
  LET dirs == ghost.dirs
      last == Last(dirs)
      keep == IF Len(dirs) <= DoubleTap THEN dirs ELSE Tail(dirs)
      onset == i.out.dir # 0 /\ i.out.dir # last
  IN  [ghost EXCEPT !.dirs = Append(keep, [dir |-> i.out.dir, turning |-> ghost.turning]),
                    !.turning = turns \/ (@ /\ i.out.dir # 0),
                    !.second = IF onset THEN Second(dirs, i.out.dir)
                               ELSE @ /\ i.out.dir = last,
                    !.owed = IF ~i.out.special THEN IF i.press THEN 1 ELSE @
                             ELSE IF i.press THEN 0 ELSE @ - 1]

clear_carry_bridge ==
  /\ pad' = [pad EXCEPT !.carry_a = FALSE, !.carry_down = FALSE,
                        !.carry_valid = FALSE]
  /\ io' = IF own.active THEN [io EXCEPT !.y = FALSE, !.down = FALSE, !.press = FALSE]
           ELSE io

\* $00:DC2D.  The tick may leave the fighter in a turn: from then to the next
\* neutral pad a press is not a tap, and the first tap is kept.
SmwFalconBeforePhysics ==
  /\ at = "DC2D"
  /\ at' = "80D2"
  /\ \/ ~own.active /\ UNCHANGED <<io, own, pad, dash, grace, ghost>>
     \/ /\ own.active /\ ~guest.playable
        /\ own' = [own EXCEPT !.foreign = FALSE]
        /\ dash' = NoDash /\ grace' = FALSE
        /\ clear_carry_bridge
        /\ ghost' = Forgotten
     \/ /\ own.active /\ guest.playable
        /\ own' = [own EXCEPT !.foreign = TRUE]
        /\ LET i == smw_falcon_input
           IN  /\ \E turns \in BOOLEAN :
                    /\ dash' = [i.dash EXCEPT !.ignore = @ \/ turns]
                    /\ ghost' = Ticked(i, turns)
               /\ grace' = i.grace
        /\ pad' = Invalid(pad)
        /\ UNCHANGED io
  /\ UNCHANGED <<phys, guest>>

\* A held is Y held; A released throws, and Down sets the sprite down.
emit_carry_input(words) ==
  [words EXCEPT !.y = pad.carry_a, !.press = FALSE,
                !.down = ~pad.carry_a /\ guest.carrying /\ pad.carry_down]

SmwFalconBeforeNormalSprites ==
  /\ at = "80D2"
  /\ at' = "sprite"
  /\ IF own.active /\ own.foreign /\ guest.playable
     THEN /\ io' = IF pad.carry_valid THEN emit_carry_input(io) ELSE io
          /\ UNCHANGED pad
     ELSE clear_carry_bridge
  /\ UNCHANGED <<phys, guest, own, dash, grace, ghost>>

SpriteRuns ==
  /\ at = "sprite" /\ at' = "frame"
  /\ UNCHANGED <<phys, io, guest, own, pad, dash, grace, ghost>>

SmwFalconOnStateLoaded ==
  /\ at = "frame"
  /\ dash' = NoDash /\ grace' = FALSE
  /\ pad' = [Invalid(pad) EXCEPT !.carry_a = FALSE, !.carry_down = FALSE,
                        !.carry_valid = FALSE]
  /\ io' = IF own.active THEN [io EXCEPT !.y = FALSE, !.down = FALSE, !.press = FALSE]
           ELSE io
  /\ ghost' = Forgotten
  /\ UNCHANGED <<at, phys, guest, own>>

Init ==
  /\ at = "frame"
  /\ phys = Released
  /\ io = [dir |-> 0, y |-> FALSE, down |-> FALSE, a |-> FALSE, press |-> FALSE]
  /\ guest = [playable |-> FALSE, pipe |-> FALSE, carrying |-> FALSE]
  /\ own = [active |-> TRUE, foreign |-> FALSE]
  /\ pad = NoPad /\ dash = NoDash /\ grace = FALSE
  /\ ghost = [dirs |-> <<>>, turning |-> FALSE, second |-> FALSE, owed |-> 0,
              masked |-> FALSE]

Next ==
  \/ Frame \/ Script \/ Select \/ SmwFalconOnStateLoaded
  \/ SmwFalconBeforePlayerPhysics \/ SmwFalconBeforePhysics
  \/ SmwFalconBeforeNormalSprites \/ SpriteRuns

Spec == Init /\ [][Next]_vars

----------------------------------------------------------------------------

\* "a full source stick only for the second same-direction tap within 15
\* frames": the stick is full only in a hold whose onset follows another onset
\* of that direction inside the window, with no other direction between but
\* one that a turn swallowed, and never across a handoff or a load
\* (smw_falcon_input, reset_dash_taps).
DashIsSecondTap == dash.full => ghost.second

\* A special reaches the fighter exactly once, on its own tick or the next
\* one, whatever directions, scripts and frozen frames come between; two
\* presses in two ticks may become one.
SpecialOnce == ghost.owed = IF grace THEN 1 ELSE 0

\* "A held means Y held; A released means native throw": in a frame the bridge
\* masked, SMW's sprite code sees a Y exactly while A is held and a Down only
\* to set a carried sprite down, never the physical Y or Down.
CarryFollowsA ==
  at = "sprite" /\ ghost.masked /\ own.foreign /\ guest.playable =>
    /\ io.y = phys.carry
    /\ io.down => guest.carrying /\ phys.down /\ ~phys.carry

\* PressesKept: what was pressed is what the fighter and the guest are given.
PressesKept == DashIsSecondTap /\ SpecialOnce /\ CarryFollowsA

\* A view for TLC: what is read again, and of the pad's history its taps.
View ==
  LET dirs == ghost.dirs
      heard == <<Last(dirs), {<<dirs[j].dir, Len(dirs) - j>> : j \in Taps(dirs)},
                 ghost.turning, ghost.second, ghost.owed>>
      core == <<at, phys.special, own, pad, dash, grace, heard>>
  IN  CASE at = "frame" -> core
        [] at = "sprite" -> <<core, CarryFollowsA>>
        [] at = "80D2" -> <<core, ghost.masked, phys.down, phys.carry, io.y, io.down,
                            guest.playable, guest.carrying>>
        [] OTHER -> <<core, ghost.masked, phys.down, phys.carry, io, guest>>
=============================================================================
