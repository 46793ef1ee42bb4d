---------------------------- MODULE FalconBlocks ----------------------------
(***************************************************************************)
(* The tiles a Falcon special breaks (smw_falcon_combat_apply.c and        *)
(* smw_falcon_combat_policy.c), one strike at a time.                      *)
(*                                                                         *)
(* A frame has two seams that may sweep: RunPlayerBlockCode, where the     *)
(* guest has just proved the class of the tile Falcon touches, and the     *)
(* combat seam after it, where the same guest bytes hold whatever the last *)
(* collision left in them.  Lengths are in hundredths of a pixel, so that  *)
(* the source's 0.08 world scale and its half widths are exact; tiles are  *)
(* counted in tiles.                                                       *)
(***************************************************************************)
EXTENDS Integers, FiniteSets

CONSTANTS
  Field,      \* SMW_FALCON_KICK_BLOCK_FIELD_FRAMES, 12 in the code
  Memory,     \* the size of broken_coords, 64 in the code
  PlayerX, PlayerY,   \* pixels at which the player may stand
  Rows,       \* the level's turn blocks, when it has any
  Stones      \* its tiles that no special may break

VARIABLES
  at,         \* the next seam of the frame
  player,     \* position in pixels and facing
  strike,     \* the fighter's move and its active hitbox
  level,      \* the turn blocks still standing
  ledger,     \* move_state, block_applied, block_field_frames, contact
  ghost       \* history: since when no block was proved to this move, and of
              \* the last call the stones it broke, what it broke again, and
              \* whether it swept without looking

vars == <<at, player, strike, level, ledger, ghost>>

----------------------------------------------------------------------------
(* The hitboxes with FOREIGN_ATTACK_BREAK_BLOCKS: centre and half size.     *)

Hitboxes ==
  [punch |-> [x |-> 2800, y |-> 800,  w |-> 2800, h |-> 2600],
   kick  |-> [x |-> 2688, y |-> 320,  w |-> 2520, h |-> 2400],
   skid  |-> [x |-> 0,    y |-> 1120, w |-> 1600, h |-> 1120],
   stomp |-> [x |-> 0,    y |-> -480, w |-> 2000, h |-> 1600]]

\* A move and its hitbox; "other" is the downward aerial (stomp), or a landing
\* or fall whose attack is still open.
Strikes ==
  [move : {"punch_ground"}, box : {"punch"}]
    \cup [move : {"kick_ground", "kick_ground_air", "kick_air"}, box : {"kick"}]
    \cup [move : {"kick_landing"}, box : {"skid"}]
    \cup [move : {"other"}, box : {"punch", "kick", "skid", "stomp"}]

block_sweep_can_repeat(move) ==
  move \in {"kick_ground", "kick_ground_air", "kick_air", "kick_landing"}
block_sweep_is_diagonal_kick(move) == move \in {"kick_air", "kick_landing"}

block_move_state_for_attack(s) ==
  IF s.move # "other" THEN s.move
  ELSE CASE s.box = "kick"  -> "kick_ground_air"
         [] s.box = "punch" -> "other"
         [] OTHER           -> "kick_landing"

Box(l, t, r, b) == [left |-> l, top |-> t, right |-> r, bottom |-> b]

attack_world_aabb(box, x, y, dir) ==
  LET a == Hitboxes[box]
      cx == 100 * x + 800 + dir * a.x
      cy == 100 * y + 3200 - a.y
  IN  Box(cx - a.w, cy - a.h, cx + a.w, cy + a.h)

\* From the player's corner, to the right: from, top, to, bottom in pixels;
\* to the left the slab is mirrored about the 16 pixels of the player.
Slab(x, y, dir, from, top, to, bottom) ==
  IF dir > 0 THEN Box(100 * (x + from), 100 * (y + top), 100 * (x + to), 100 * (y + bottom))
  ELSE Box(100 * (x + 16 - to), 100 * (y + top), 100 * (x + 16 - from), 100 * (y + bottom))

Grown(box, up, down) ==
  Box(box.left, box.top - 100 * up, box.right, box.bottom + 100 * down)

block_break_volumes(move, box, x, y, dir) ==
  LET hit == attack_world_aabb(box, x, y, dir)
  IN  CASE move \in {"kick_air", "kick_landing"} ->
             <<hit, Slab(x, y, dir, 4, 16, 80, 56), Slab(x, y, dir, 32, 48, 112, 104)>>
        [] move = "punch_ground" ->
             <<Grown(hit, 16, 8),
               IF dir > 0 THEN Slab(x, y, dir, 4, -32, 64, 64)
                          ELSE Slab(x, y, dir, 4, -32, 80, 64)>>
        [] move = "kick_ground" ->
             <<Grown(hit, 4, 4), Slab(x, y, dir, 4, 8, 128, 56)>>
        [] OTHER -> <<hit>>

\* The tiles a volume overlaps.
Tiles(v) == (v.left \div 1600 .. (v.right - 1) \div 1600)
              \X (v.top \div 1600 .. (v.bottom - 1) \div 1600)

\* The forward column of a punch.
is_direct_sweep_tile(move, x, y, dir, tile) ==
  \/ move # "punch_ground"
  \/ /\ tile[2] \in (y - 32) \div 16 .. (y + 64) \div 16
     /\ (tile[1] - (x \div 16)) * dir \in 1 .. 3

is_aerial_kick_direct_tile(touch, anchor, dir, tile) ==
  /\ tile[2] - anchor \in 0 .. 5
  /\ (tile[1] - touch[1]) * dir \in 0 .. 2 + (tile[2] - anchor)

\* Below the row of the feet a diagonal kick starts at the touched row.
kick_direct_anchor_y(move, touch, y) ==
  IF block_sweep_is_diagonal_kick(move) /\ touch[2] < (y + 32) \div 16
  THEN (y + 32) \div 16 ELSE touch[2]

Crater(touch, anchor, dir) ==
  {tile \in (touch[1] - 7 .. touch[1] + 7) \X (anchor .. anchor + 5) :
     is_aerial_kick_direct_tile(touch, anchor, dir, tile)}

is_ground_punch_support_block(move, y, touch) ==
  move = "punch_ground" /\ 16 * touch[2] >= y + 24

----------------------------------------------------------------------------
(* One call.                                                                *)

\* SMW_FALCON_BLOCK_MAX_Y.
InLevel(tile) == tile[1] >= 0 /\ tile[2] \in 0 .. 495

\* The scan looks every tile up and breaks turn blocks only.
Scan(move, anchor, touch, support, volumes) ==
  {tile \in volumes :
     /\ tile \in level /\ InLevel(tile)
     /\ block_sweep_can_repeat(move) => tile[2] >= anchor
     /\ is_direct_sweep_tile(move, player.x, player.y, player.dir, tile)
     /\ ~(support /\ tile = touch)}

\* The direct sweep breaks whatever stands there, and a diagonal kick its
\* crater too.
Sweep(move, touch, support, volumes) ==
  {tile \in volumes :
     /\ InLevel(tile)
     /\ is_direct_sweep_tile(move, player.x, player.y, player.dir, tile)
     /\ ~(support /\ tile = touch)}

Hollow(move, anchor, touch) ==
  IF block_sweep_is_diagonal_kick(move)
  THEN {tile \in Crater(touch, anchor, player.dir) : InLevel(tile)} ELSE {}

Inside(tile, v) ==
  /\ 1600 * tile[1] < v.right /\ 1600 * (tile[1] + 1) > v.left
  /\ 1600 * tile[2] < v.bottom /\ 1600 * (tile[2] + 1) > v.top

\* The touched tile, when the scan broke nothing but the guest proved it.
Fallback(touch, support, boxes) ==
  IF ~support /\ \E k \in DOMAIN boxes : Inside(touch, boxes[k]) THEN {touch} ELSE {}

\* The tiles of a sweep that it meets again: met by the scan, in the crater
\* or in two volumes.
MetAgain(met, sweep, hollow, boxes) ==
  (met \cap (sweep \cup hollow)) \cup (sweep \cap hollow)
    \cup {tile \in sweep : \E i, k \in DOMAIN boxes :
                              i # k /\ tile \in Tiles(boxes[i]) \cap Tiles(boxes[k])}

\* Mutant: the direct sweep does not look at broken_coords.
RepeatedFreely(broken, again) == again

\* broken_coords remembers the first Memory tiles.  Of more it forgets some,
\* any of which is broken again when it is met again.
Repeated(broken, again) == IF Cardinality(broken) <= Memory THEN {} ELSE again

\* block_field_frames over one call.
FieldAfter(l, repeats, proved, scanned) ==
  IF ~repeats THEN l
  ELSE IF proved \/ scanned THEN [l EXCEPT !.field = Field]
  ELSE [l EXCEPT !.field = IF @ > 0 THEN @ - 1 ELSE 0]

apply_native_blocks(touch, cls) ==
  LET move == block_move_state_for_attack(strike)
      repeats == block_sweep_can_repeat(move)
      boxes == block_break_volumes(move, strike.box, player.x, player.y, player.dir)
      volumes == UNION {Tiles(boxes[k]) : k \in DOMAIN boxes}
      anchor == kick_direct_anchor_y(move, touch, player.y)
      support == is_ground_punch_support_block(move, player.y, touch)
      proved == cls # "unknown"
      found == Scan(move, anchor, touch, support, volumes)
      scanned == found # {}
      direct == proved \/ (repeats /\ (ledger.field > 0 \/ scanned))
      met == IF proved /\ ~scanned THEN Fallback(touch, support, boxes) ELSE found
      sweep == IF direct THEN Sweep(move, touch, support, volumes) ELSE {}
      hollow == IF direct THEN Hollow(move, anchor, touch) ELSE {}
      broken == met \cup sweep \cup hollow
  IN  /\ level' = level \ broken
      /\ ledger' = [FieldAfter(ledger, repeats, proved, scanned)
                      EXCEPT !.applied = @ \/ broken # {}]
      /\ ghost' = [broken |-> broken \cap Stones,
                   again |-> Repeated(broken, MetAgain(met, sweep, hollow, boxes)),
                   swept |-> direct,
                   idle |-> IF proved \/ scanned THEN 0
                            ELSE IF ghost.idle > Field THEN ghost.idle ELSE ghost.idle + 1]

----------------------------------------------------------------------------

NoLedger == [active |-> FALSE, move |-> "other", applied |-> FALSE, field |-> 0, contact |-> FALSE]
NoGhost  == [broken |-> {}, again |-> {}, swept |-> FALSE, idle |-> Field + 1]

\* No sprite was hit by this move, and a punch has not broken its blocks yet.
MayBreak ==
  /\ ledger.active /\ ~ledger.contact
  /\ ledger.applied => block_sweep_can_repeat(ledger.move)

\* The tiles Falcon's body or feet may be touching.
Touched ==
  (player.x \div 16 .. (player.x + 15) \div 16)
    \X (player.y \div 16 .. (player.y + 32) \div 16)

Skipped == UNCHANGED <<level, ledger>> /\ ghost' = [ghost EXCEPT !.broken = {}, !.again = {}, !.swept = FALSE]

\* RunPlayerBlockCode: the guest has classified the tile it names.
OnPlayerBlockCode ==
  /\ at = "blocks"
  /\ at' = "combat"
  /\ \/ /\ MayBreak
        /\ \E touch \in Touched : \E cls \in {"turn", "brick", "unknown"} :
             /\ (cls = "turn") = (touch \in level)
             /\ cls = "brick" => touch \notin Stones
             /\ apply_native_blocks(touch, cls)
     \/ Skipped
  /\ UNCHANGED <<player, strike>>

\* The combat seam: a sprite is hit, or the blocks get their turn with the
\* guest's collision bytes as they happen to be.
combat_apply ==
  /\ at = "combat"
  /\ at' = "tick"
  /\ \/ MayBreak /\ \E touch \in Touched, cls \in {"turn", "unknown"} : apply_native_blocks(touch, cls)
     \/ /\ ledger.active
        /\ ledger' = [ledger EXCEPT !.contact = TRUE]
        /\ level' = level /\ ghost' = [ghost EXCEPT !.broken = {}, !.again = {}, !.swept = FALSE]
     \/ Skipped
  /\ UNCHANGED <<player, strike>>

\* A new move starts with an empty ledger.
combat_ledger_update(move) ==
  IF ~ledger.active \/ ledger.move # move
  THEN [NoLedger EXCEPT !.active = TRUE, !.move = move] ELSE ledger

Places == [x : PlayerX, y : PlayerY, dir : {-1, 1}]

\* DC2D: the fighter's hitbox for the frame, at the player's new place; the
\* part of the level in reach of it is whole or cleared.
BeforePhysics ==
  /\ at = "tick"
  /\ \/ /\ strike' \in Strikes /\ player' \in Places
        /\ ledger' = combat_ledger_update(strike'.move)
        /\ ghost' = [broken |-> {}, again |-> {}, swept |-> FALSE,
                     idle |-> IF ledger' = ledger THEN ghost.idle ELSE Field + 1]
        /\ at' \in {"blocks", "combat"}
     \/ /\ ledger.active /\ ledger' = NoLedger /\ ghost' = NoGhost
        /\ UNCHANGED <<at, player, strike>>
  /\ level' \in {{}, Rows}

Init ==
  /\ at = "tick" /\ level = {}
  /\ player = CHOOSE place \in Places : TRUE
  /\ strike = CHOOSE s \in Strikes : TRUE
  /\ ledger = NoLedger /\ ghost = NoGhost

Next == OnPlayerBlockCode \/ combat_apply \/ BeforePhysics

Spec == Init /\ [][Next]_vars

\* A view for TLC: the next tick chooses place and strike anew, and of the
\* tiles a sweep broke only what the properties below say of them matters.
View ==
  <<IF at = "tick" THEN at ELSE <<at, player, strike, level>>, ledger,
    [ghost EXCEPT !.broken = @ \cap Stones # {}, !.again = @ # {}]>>

----------------------------------------------------------------------------
(* Properties.                                                              *)

\* A sweep breaks no tile twice, although its volumes overlap and it
\* remembers only Memory coordinates (remember_broken_coord).
SweptOnce == ghost.again = {}

\* The sweep that looks at no tile runs only while this very move has had a
\* block proved to it, by the guest or by its own scan, within the last
\* Field calls (block_field_frames).
DirectNeedsProof == ghost.swept => ghost.idle <= Field

\* docs/falcon_combat_bridge.md:7: only a brick or a turn block is broken.
OnlyProvenTiles == ghost.broken \cap Stones = {}

\* BlocksProven: a block is broken once and on the word of a proven one.
BlocksProven == SweptOnce /\ DirectNeedsProof
=============================================================================
