----------------------------- MODULE CoopReturn -----------------------------
(* Where a player in a bubble returns (coop_terrain.c) and how the place is *)
(* put into the guest's memory and read back (coop_guest.c).  A room is its *)
(* two layers of blocks, of which only what a body does with them is kept, *)
(* its sprites and the players in play; lengths are pixels.  The players   *)
(* and the room move between two attempts.                                 *)
EXTENDS Integers, FiniteSets

CONSTANTS
  Rooms,     \* the layers of a room: sets of [dx, dy, block], block a function
             \* of the columns and rows that a layer has
  Anchors,   \* players in play to return to: [x, shape, swims]
  Others,    \* sets of other players in play: [x, feet, mounted]
  Sprites    \* sets of sprites: [x, y, kind]

VARIABLES
  room, anchor, others, sprites,
  p,         \* the one in the bubble: life, power, checkpoint_upgrade, mount
  place,     \* what coop_terrain_safe answered
  word       \* the guest's position of p, once it was placed

vars == <<room, anchor, others, sprites, p, place, word>>

NoPlace == [found |-> FALSE, x |-> 0, y |-> 0]
NoWord == [placed |-> FALSE, x |-> 0, y |-> 0]

(* clip_y and clip_height, by the guest's shape.                           *)
ClipY == [big |-> 6, small |-> 20, bigRider |-> 16, smallRider |-> 24]
ClipHeight == [big |-> 26, small |-> 12, bigRider |-> 32, smallRider |-> 24]

(* clip_shape                                                              *)
Shape(power, mounted) ==
  IF power = "small" THEN IF mounted THEN "smallRider" ELSE "small"
                     ELSE IF mounted THEN "bigRider" ELSE "big"

Init ==
  /\ room \in Rooms /\ anchor \in Anchors /\ others \in Others /\ sprites \in Sprites
  /\ p \in [life : {"death", "catchup"}, power : {"small", "big"}, upgrade : {FALSE},
            mounted : BOOLEAN]
  /\ p.life = "death" => p.power = "small" /\ ~p.mounted
  /\ place = NoPlace /\ word = NoWord

----------------------------------------------------------------------------
(* coop_terrain_block: the block at a pixel of a layer.                    *)
Block(layer, x, y) ==
  LET at == <<x \div 16, y \div 16>> IN
  IF x >= 0 /\ y >= 0 /\ at \in DOMAIN layer.block THEN layer.block[at] ELSE "none"

(* Blocks a body may be in.  A ledge is stood upon but can be passed.      *)
Passes(block, water) == block \in {"air", "ledge"} \/ (block = "water" /\ water)

(* Mutant: the ends of the body only.                                      *)
EndsOnly(lo, hi) == {lo, hi}

(* The pixels at which body_clear looks: the first of the body, the first  *)
(* of each further block, the last.                                        *)
Samples(lo, hi) == {lo, hi} \cup {n \in lo .. hi : n % 16 = 0}

(* body_clear                                                              *)
BodyClear(layer, b, water) ==
  \A x \in Samples(b.left + layer.dx, b.right + layer.dx),
     y \in Samples(b.top + layer.dy, b.feet - 1 + layer.dy) :
    Passes(Block(layer, x, y), water)

(* footing                                                                 *)
Footing(layer, x, feet) ==
  /\ Block(layer, x + layer.dx, feet + layer.dy) \in {"ledge", "floor"}
  /\ (feet + layer.dy) % 16 = 0

(* platform_footing: the whole body fits upon it.                          *)
OnPlatform(s, b) ==
  /\ s.kind = "platform" /\ b.feet = s.y + 1
  /\ b.left >= s.x /\ b.right < s.x + 48

(* clear_of_sprites: what is ridden or stood upon is no obstacle, anything *)
(* else is well into its surroundings.                                     *)
SpriteClear(s, b) ==
  \/ s.kind = "ridden" \/ OnPlatform(s, b)
  \/ b.right < s.x - 16 \/ b.left >= s.x + 48 \/ b.feet <= s.y - 16 \/ b.top >= s.y + 48

(* The body of another player in play, with a mount's where it rides.      *)
BodyOf(q) ==
  LET half == IF q.mounted THEN 16 ELSE 6
      height == IF q.mounted THEN 48 ELSE 26
  IN [left |-> q.x - half, right |-> q.x + half, top |-> q.feet - height, feet |-> q.feet]

PlayerClear(q, b) ==
  LET o == BodyOf(q) IN
  \/ b.right < o.left - 4 \/ b.left > o.right + 4 \/ b.feet <= o.top \/ b.top >= o.feet

AnchorFeet == anchor.feet
AnchorAsOther == [x |-> anchor.x, feet |-> anchor.feet, mounted |-> anchor.mounted]

(* The height p will have: a checkpoint passed meanwhile makes it big.     *)
Height(r) ==
  IF r.upgrade \/ r.power # "small" THEN IF r.mounted THEN 32 ELSE 26
                                    ELSE IF r.mounted THEN 24 ELSE 12

(* safe_at: the body of p around a column, its feet where the anchor's are.*)
BodyAt(r, x) ==
  LET half == IF r.mounted THEN 16 ELSE 6
      clearance == IF r.mounted THEN 48 ELSE Height(r)
  IN [left |-> x - half, right |-> x + half - 1, top |-> AnchorFeet - clearance,
      feet |-> AnchorFeet]

Supported(b) ==
  \/ anchor.swims
  \/ \E layer \in room : Footing(layer, b.left, b.feet) /\ Footing(layer, b.right, b.feet)
  \/ \E s \in sprites : OnPlatform(s, b)

SafeAt(x) ==
  LET b == BodyAt(p, x) IN
  /\ b.left >= 0 /\ b.top >= 0
  /\ \A layer \in room : BodyClear(layer, b, anchor.swims)
  /\ Supported(b)
  /\ \A s \in sprites : SpriteClear(s, b)
  /\ \A q \in others \cup {AnchorAsOther} : PlayerClear(q, b)

Offsets == <<24, -24, 40, -40, 56, -56>>

(* coop_terrain_safe: the first of the places that is safe.                *)
Seek ==
  /\ ~place.found
  /\ LET safe == {i \in DOMAIN Offsets : SafeAt(anchor.x + Offsets[i])}
         i == CHOOSE n \in safe : \A k \in safe : n <= k
     IN IF safe = {} THEN UNCHANGED place
        ELSE place' = [found |-> TRUE, x |-> anchor.x + Offsets[i],
                       y |-> AnchorFeet - Height(p) \div 2]
  /\ UNCHANGED <<room, anchor, others, sprites, p, word>>

(* External: while it waits, the anchor, the others and the sprites move.  *)
Wait ==
  /\ ~place.found
  /\ anchor' \in Anchors /\ others' \in Others /\ sprites' \in Sprites
  /\ UNCHANGED <<room, p, place, word>>

(* A partner passes the checkpoint (coop_session_resolve): who is small    *)
(* becomes big, now or on the return.                                      *)
Checkpoint ==
  /\ ~place.found
  /\ p' = [p EXCEPT !.upgrade = TRUE, !.power = IF p.life = "catchup" THEN "big" ELSE @]
  /\ UNCHANGED <<room, anchor, others, sprites, place, word>>

(* coop_session_recover and coop_guest_place_player, in the same call.     *)
Return ==
  /\ place.found /\ ~word.placed
  /\ LET power == IF p.life = "catchup" THEN p.power
                  ELSE IF p.upgrade THEN "big" ELSE "small"
         shape == Shape(power, p.mounted)
     IN /\ p' = [p EXCEPT !.power = power, !.upgrade = FALSE]
        /\ word' = [placed |-> TRUE, x |-> place.x - 8,
                    y |-> place.y - ClipY[shape] - ClipHeight[shape] \div 2]
  /\ UNCHANGED <<room, anchor, others, sprites, place>>

Next == Seek \/ Wait \/ Checkpoint \/ Return

Spec == Init /\ [][Next]_vars

----------------------------------------------------------------------------
(* coop_guest_read_player, after the return: the middle and the feet.      *)
ReadX == word.x + 8
ReadFeet ==
  LET shape == Shape(p.power, p.mounted) IN word.y + ClipY[shape] + ClipHeight[shape]

(* All of the returned body, of the size it has now, every pixel.          *)
Half == IF p.mounted THEN 16 ELSE 6
Columns == ReadX - Half .. ReadX + Half - 1
Rows ==
  LET high == IF p.mounted THEN 48 ELSE ClipHeight[Shape(p.power, p.mounted)]
  IN ReadFeet - high .. ReadFeet - 1

(* No pixel of a returned player is in a block, a sprite or another player *)
(* (coop_terrain_safe: never fall back to overlapping).                    *)
ReturnIsClear ==
  word.placed =>
    /\ \A layer \in room :
         \A c \in {n \div 16 : n \in {x + layer.dx : x \in Columns}},
            r \in {n \div 16 : n \in {y + layer.dy : y \in Rows}} :
           /\ <<c, r>> \in DOMAIN layer.block
           /\ Passes(layer.block[<<c, r>>], anchor.swims)
    /\ \A s \in sprites : s.kind = "foe" =>
         Columns \cap (s.x .. s.x + 15) = {} \/ Rows \cap (s.y .. s.y + 31) = {}
    /\ \A q \in others \cup {AnchorAsOther} :
         LET o == BodyOf(q) IN
         Columns \cap (o.left .. o.right) = {} \/ Rows \cap (o.top .. o.feet - 1) = {}

(* The returned player's feet, read back, are where the survivor's are,    *)
(* whatever their sizes, a checkpoint or a mount; and both ends of its     *)
(* body stand there, unless they swim (safe_at, coop_guest_place_player).  *)
(* Between the ends of a mounted body, 32 pixels wide, may be a gap.       *)
ReturnStands ==
  word.placed =>
    /\ ReadFeet = AnchorFeet
    /\ \/ anchor.swims
       \/ \E s \in sprites : s.kind = "platform" /\ ReadFeet = s.y + 1
                             /\ Columns \subseteq s.x .. s.x + 47
       \/ \A x \in {ReadX - Half, ReadX + Half - 1} : \E layer \in room :
            Block(layer, x + layer.dx, ReadFeet + layer.dy) \in {"ledge", "floor"}

(* Whoever returns does so into free space and onto footing.               *)
ReturnIsSafe == ReturnIsClear /\ ReturnStands
=============================================================================
