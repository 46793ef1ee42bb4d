--------------------------- MODULE MCCoopSession ---------------------------
(* CoopFrame on small instances: rosters and event sets of the session,    *)
(* reports and records of the loops.                                       *)
EXTENDS CoopFrame, TLC

Ev(k, p, e, v, f, d) ==
  [kind |-> k, player |-> p, entity |-> e, value |-> v, flags |-> f, distance |-> d]

(* Both players pick up one entity; what hits and kills the second one, the *)
(* end of that death, a timeout and an exit.                               *)
MixedEvent ==
  {Ev("PICKUP", p, 5, 1, 2, 1) : p \in Player}
  \cup {Ev("DAMAGE", 1, NoEntity, 0, f, 0) : f \in {0, 4}}
  \cup {Ev("DEATH_FINISHED", 1, NoEntity, 0, 0, 0),
        Ev("TIMEOUT", NoPlayer, NoEntity, 0, 0, 0), Ev("EXIT", 0, NoEntity, 0, 0, 0)}

Supplied == {[power |-> "SMALL", reserve |-> 1, star |-> 0]}
OneMount  == {7}
OneObject == {8}
Second == {1}

-----------------------------------------------------------------------------
(* A frame's reports: every kind, contacts of both players at two          *)
(* distances, exits that are secret, worth more stars, or of nobody.       *)
FrameEvent ==
  {Ev("PICKUP", p, 5, p, 0, d) : p \in Player, d \in {1, 2}}
  \cup {Ev("ENEMY_CONTACT", p, 5, 0, f, 1) : p \in Player, f \in {0, 2}}
  \cup {Ev("ON_OFF", p, 6, 0, 0, 0) : p \in Player}
  \cup {Ev("CHECKPOINT", p, NoEntity, p + 1, 0, 0) : p \in Player}
  \cup {Ev("DAMAGE", 1, NoEntity, 0, f, 0) : f \in {0, 4}}
  \cup {Ev(k, 1, NoEntity, 0, 0, 0) : k \in {"DEATH", "DEATH_FINISHED"}}
  \cup {Ev("TIMEOUT", NoPlayer, NoEntity, 0, 0, 0)}
  \cup {Ev("EXIT", 0, NoEntity, 3, 0, 0), Ev("EXIT", 1, NoEntity, 0, 0, 0),
        Ev("EXIT", NoPlayer, NoEntity, 1, 1, 0)}

Rec(life, power, reserve, star, mount, held) ==
  [life |-> life, power |-> power, reserve |-> reserve, star |-> star, protection |-> 0,
   recovery |-> 0, separation |-> 0, mount |-> mount, held |-> held,
   connected |-> TRUE, upgrade |-> FALSE]

(* Somebody plays; the second player may be laden, starred or out of play. *)
Starts ==
  {(0 :> Rec("PLAYING", "SMALL", 0, 0, NoEntity, NoEntity)) @@ (1 :> r) :
     r \in {Rec("PLAYING", "FIRE", 1, 0, 7, 8), Rec("PLAYING", "BIG", 1, 1, NoEntity, NoEntity),
            Rec("DYING", "SMALL", 0, 0, NoEntity, NoEntity),
            Rec("DEATH_BUBBLE", "SMALL", 0, 0, NoEntity, NoEntity)}}
=============================================================================
