--------------------------- MODULE MCFalconSeams ----------------------------
(* FalconSeams in a level of three columns.                                *)
EXTENDS FalconSeams

(* Five rows of turn blocks with one other tile among them; two columns    *)
(* and two rows of a tile are the offsets whose volumes reach most tiles.  *)
MCRows    == {<<x, y>> : x \in 0 .. 18, y \in 5 .. 9}
MCStones  == {<<9, 6>>}
MCPlayerX == {128, 140}
MCPlayerY == {96, 107}

(* Between frames the pad and the wall need less than their variables, and *)
(* a sweep is forgotten but for what the properties say of it.             *)
View ==
  <<part, Pad!View, Wall!View, Blocks!View, show>>
=============================================================================
