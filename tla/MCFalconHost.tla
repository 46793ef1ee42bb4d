---------------------------- MODULE MCFalconHost -----------------------------
EXTENDS FalconHost, TLC

\* Two slots, so that a guard can reach the wrong one; the first may change
\* from one catchable kind to the other behind the fighter's back.
MCSpawns == (0 :> {"koopa", "goomba", "inert"}) @@ (1 :> {"shell", "inert"})

\* A punch guards its slot as a kick does, and a run differs from idle by the
\* dive's grace alone: it is still entered when a kick ends.
MCStarts == {"idle", "jab", "kick", "kickair", "dive"}

\* A view for TLC: what no later step or property of the frame reads is dropped.
View ==
  LET airRead == h.pending /\ ~At("D5F2") /\ ~At("DC2D")
  IN  <<seam, [g EXCEPT !.air = airRead /\ @, !.by = IF g.timer = 0 THEN "none" ELSE @],
        spr, own, f,
        [h EXCEPT !.move = IF h.att = "none" THEN "idle" ELSE @,
                  !.stamped = ~At("frame") /\ @],
        [ledger EXCEPT !.new = {}],
        [ghost EXCEPT !.served = IF At("frame") THEN 0 ELSE @], stands>>
=============================================================================
