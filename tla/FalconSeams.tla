----------------------------- MODULE FalconSeams ------------------------------
(* The parts of Captain Falcon's boundary that FalconHost leaves out, side *)
(* by side: each behaviour runs one of them and leaves the others as they  *)
(* began.                                                                  *)
EXTENDS Integers, FiniteSets, Sequences

CONSTANTS DoubleTap, Columns, SafetyNotes, MaxDelta,
          Field, Memory, PlayerX, PlayerY, Rows, Stones, FallFrames

(* A double tap has a window, a level has columns, the net remembers some  *)
(* notes and reaches some distance, and a falling body leaves the screen.  *)
ASSUME SeamAssumption ==
  /\ DoubleTap \in Nat /\ Columns \in Nat \ {0}
  /\ SafetyNotes \in Nat /\ MaxDelta \in Nat /\ FallFrames \in Nat

(* As many tiles are remembered as the code remembers, or more, and a       *)
(* player is nowhere but in the level, his feet above its last row.        *)
ASSUME BlocksAssumption ==
  /\ Field \in Nat /\ Memory \in Nat /\ 64 <= Memory
  /\ PlayerX \subseteq Nat /\ PlayerY \subseteq 0 .. 7904

VARIABLES part,
  p_at, p_phys, p_io, p_guest, p_own, p_pad, p_dash, p_grace, p_ghost,
  w_at, w_p, w_own, w_cls, w_latch, w_safe, w_snap, w_ghost,
  b_at, b_player, b_strike, b_level, b_ledger, b_ghost,
  s_at, s_cache, s_audio, s_game, s_own, s_bound, s_removed, s_mesh, s_last, s_death,
  s_ghost

pad    == <<p_at, p_phys, p_io, p_guest, p_own, p_pad, p_dash, p_grace, p_ghost>>
wall   == <<w_at, w_p, w_own, w_cls, w_latch, w_safe, w_snap, w_ghost>>
blocks == <<b_at, b_player, b_strike, b_level, b_ledger, b_ghost>>
show   == <<s_at, s_cache, s_audio, s_game, s_own, s_bound, s_removed, s_mesh, s_last,
            s_death, s_ghost>>

Pad == INSTANCE FalconPad WITH
  at <- p_at, phys <- p_phys, io <- p_io, guest <- p_guest, own <- p_own,
  pad <- p_pad, dash <- p_dash, grace <- p_grace, ghost <- p_ghost

Wall == INSTANCE FalconWall WITH
  at <- w_at, p <- w_p, own <- w_own, cls <- w_cls, latch <- w_latch,
  safe <- w_safe, snap <- w_snap, ghost <- w_ghost

Blocks == INSTANCE FalconBlocks WITH
  at <- b_at, player <- b_player, strike <- b_strike, level <- b_level,
  ledger <- b_ledger, ghost <- b_ghost

Show == INSTANCE FalconShow WITH
  at <- s_at, cache <- s_cache, audio <- s_audio, game <- s_game,
  own <- s_own, bound <- s_bound, removed <- s_removed, mesh <- s_mesh,
  last <- s_last, death <- s_death, ghost <- s_ghost

Init ==
  /\ part \in {"pad", "wall", "blocks", "show"}
  /\ Pad!Init /\ Wall!Init /\ Blocks!Init /\ Show!Init

Next ==
  /\ part' = part
  /\ \/ part = "pad"    /\ Pad!Next    /\ UNCHANGED <<wall, blocks, show>>
     \/ part = "wall"   /\ Wall!Next   /\ UNCHANGED <<pad, blocks, show>>
     \/ part = "blocks" /\ Blocks!Next /\ UNCHANGED <<pad, wall, show>>
     \/ part = "show"   /\ Show!Next   /\ UNCHANGED <<pad, wall, blocks>>

vars == <<part, pad, wall, blocks, show>>

Spec == Init /\ [][Next]_vars

-----------------------------------------------------------------------------
(* FalconPad: what was pressed is what the fighter and the guest get.      *)
PressesKept == Pad!PressesKept

(* FalconWall: a wall holds the fighter where he was.                      *)
WallsHold == Wall!WallsHold

(* FalconBlocks: a block is broken once, on the word of a proven one.      *)
BlocksProven == Blocks!BlocksProven

(* FalconBlocks: only bricks and turn blocks are broken.                   *)
OnlyProvenTiles == Blocks!OnlyProvenTiles

(* FalconShow: a body falls once, and every picture is accounted for.      *)
PicturesAccounted == Show!PicturesAccounted
=============================================================================
