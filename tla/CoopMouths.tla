----------------------------- MODULE CoopMouths -----------------------------
(* Mouths and berries of the co-op mounts (coop_simulation.c:690-924,      *)
(* coop_machine.c:542-624).  The guest was written for one mount; here     *)
(* several update in turn, touch the same food and the same berries, and   *)
(* what they touch is collected and claimed once all of them have moved.   *)
(* Sprite slots, berries and distances are small sets; what the guest does *)
(* on its own (tongues, gulps, hatching, riding) is chosen freely.         *)
EXTENDS Integers, Sequences, FiniteSets

CONSTANTS Players,     \* numbered in order of precedence
          Slots,       \* normal sprite slots, numbered from 1
          Tiles,       \* berries of the level
          Gulp,        \* frames a bite takes
          Touches      \* contacts recorded per frame, at most

VARIABLES at,          \* WorldStage, the slot that draws next, or Settling
          sprite,      \* slot -> kind, how far eaten, owner and its bond
          mouth,       \* slot -> slot of the food it holds, or NoFood
          meal,        \* slot -> a baby is still eating
          bite,        \* slot -> the body bite a mount has begun
          berry,       \* tile -> still there
          gone,        \* tile -> times it was eaten
          bites,       \* body bites recorded in this frame
          licks        \* tongue contacts recorded in this frame

vars == <<at, sprite, mouth, meal, bite, berry, gone, bites, licks>>

WorldStage == 0
Settling == Cardinality(Slots) + 1
NoFood == 0
NoPlayer == 0
Vacant == [kind |-> "none", eaten |-> "no", owner |-> NoPlayer, bond |-> "free"]
NoBite == [left |-> 0, tile |-> 0]

Init ==
  /\ at = WorldStage
  /\ \E third \in {"egg", "food"} :
       sprite = [s \in Slots |-> [Vacant EXCEPT !.kind = IF s <= 2 THEN "yoshi"
                                  ELSE IF s = 3 THEN third ELSE "food"]]
  /\ mouth = [s \in Slots |-> NoFood] /\ meal = [s \in Slots |-> FALSE]
  /\ bite = [s \in Slots |-> NoBite]
  /\ berry = [t \in Tiles |-> TRUE] /\ gone = [t \in Tiles |-> 0]
  /\ bites = <<>> /\ licks = {}

Live(s) == sprite[s].kind # "none" /\ sprite[s].eaten # "swallowed"
Mount(s) == sprite[s].kind = "yoshi" /\ Live(s)

coop_mount_mouth_active(s) ==
  Mount(s) \/ (sprite[s].kind = "baby" /\ Live(s) /\ meal[s])

Holds(s, o) == coop_mount_mouth_active(s) /\ mouth[s] = o

mouth_candidate_available(m, o) ==
  /\ sprite[o].kind \notin {"egg", "baby", "yoshi"}
  /\ sprite[o].bond # "held" \/ sprite[o].owner = sprite[m].owner
  /\ \A other \in Slots \ {m} : ~Holds(other, o)

coop_mount_pending_berry(s, t) == Mount(s) /\ bite[s].left > 0 /\ bite[s].tile = t

berry_reserved(m, t) == \E s \in Slots \ {m} : coop_mount_pending_berry(s, t)

----------------------------------------------------------------------------
(* draw_mounts: the mounts update in the order of their slots.             *)

DrawStarts ==
  /\ at = WorldStage /\ at' = 1 /\ bites' = <<>> /\ licks' = {}
  /\ UNCHANGED <<sprite, mouth, meal, bite, berry, gone>>

(* What is no mount is passed over, and a mount whose rider is not playing *)
(* (who that is, is left open).                                            *)
DrawSkips(s) ==
  /\ at = s /\ (~Mount(s) \/ sprite[s].owner # NoPlayer) /\ at' = s + 1
  /\ UNCHANGED <<sprite, mouth, meal, bite, berry, gone, bites, licks>>

(* What a mount does with what it has: a bite goes on and takes its berry  *)
(* at the end, the tongue brings its catch in, swallows or spits it.       *)
Gulps(s) ==
  /\ bite[s].left > 0
  /\ bite' = [bite EXCEPT ![s] = IF @.left = 1 THEN NoBite
                                 ELSE [left |-> @.left - 1, tile |-> @.tile]]
  /\ LET t == bite[s].tile
     IN  IF bite[s].left = 1
         THEN berry' = [berry EXCEPT ![t] = FALSE] /\ gone' = [gone EXCEPT ![t] = @ + 1]
         ELSE UNCHANGED <<berry, gone>>
  /\ UNCHANGED <<sprite, mouth, licks>>

Swallows(s) ==
  /\ mouth[s] # NoFood
  /\ LET o == mouth[s]
     IN  \/ /\ Live(o)
            /\ sprite' = [sprite EXCEPT ![o].eaten = "swallowed"]
            /\ UNCHANGED mouth
         \/ /\ sprite[o].eaten = "swallowed" /\ mouth' = [mouth EXCEPT ![s] = NoFood]
            /\ sprite' = [sprite EXCEPT ![o] = Vacant]
         \/ /\ sprite[o].eaten = "swallowed" /\ mouth' = [mouth EXCEPT ![s] = NoFood]
            /\ sprite' = [sprite EXCEPT ![o].eaten = "no"]
  /\ UNCHANGED <<bite, berry, gone, licks>>

(* An empty mouth's tongue reaches food, which is recorded, or a berry,    *)
(* which it takes at once unless another mount is biting it.               *)
Distances == {1, 2}
NearestPlayer(s) == IF sprite[s].owner # NoPlayer THEN {sprite[s].owner} ELSE Players

Licks(s) ==
  /\ mouth[s] = NoFood /\ bite[s].left = 0
  /\ LET near == {o \in Slots \ {s} : Live(o) /\ mouth_candidate_available(s, o)}
     IN  \E os \in SUBSET near \ {{}}, a \in NearestPlayer(s), d \in Distances :
           /\ Cardinality(licks) + Cardinality(os) <= Touches
           /\ licks' = licks \union {[mount |-> s, object |-> o, actor |-> a,
                                       distance |-> d] : o \in os}
  /\ UNCHANGED <<sprite, mouth, bite, berry, gone>>

LicksBerry(s) ==
  \E t \in Tiles :
    /\ berry[t] /\ ~berry_reserved(s, t)
    /\ berry' = [berry EXCEPT ![t] = FALSE] /\ gone' = [gone EXCEPT ![t] = @ + 1]

Idles == UNCHANGED <<sprite, mouth, bite, berry, gone, licks>>

(* record_body_berry: the body of a mount may touch a berry besides; a     *)
(* berry another mount is biting is not recorded.                          *)
Touching(s) ==
  \/ UNCHANGED bites
  \/ \E t \in Tiles, a \in NearestPlayer(s), d \in Distances :
       /\ berry'[t] /\ ~berry_reserved(s, t) /\ Len(bites) < Touches
       /\ bites' = Append(bites, [mount |-> s, tile |-> t, actor |-> a, distance |-> d])

Draw(s) ==
  /\ at = s /\ Mount(s) /\ at' = s + 1
  /\ \/ Gulps(s) \/ Swallows(s) \/ Licks(s) \/ Idles
     \/ /\ mouth[s] = NoFood /\ bite[s].left = 0 /\ LicksBerry(s)
        /\ UNCHANGED <<sprite, mouth, bite, licks>>
  /\ Touching(s)
  /\ UNCHANGED meal

----------------------------------------------------------------------------
(* resolve_body_berries and resolve_mouth_contacts.                        *)

Beats(c, d) ==
  \/ c.distance < d.distance
  \/ c.distance = d.distance /\ c.actor < d.actor
  \/ c.distance = d.distance /\ c.actor = d.actor /\ c.mount < d.mount

Foremost(c, rivals) == \A d \in rivals : ~Beats(d, c)

(* Begun in the order they were recorded: at most one bite a tile, and no  *)
(* bite for a mount that is busy or for a berry that is no longer there.   *)
MayBite(b, c) ==
  /\ Foremost(c, {d \in {bites[j] : j \in DOMAIN bites} : d.tile = c.tile})
  /\ Mount(c.mount) /\ mouth[c.mount] = NoFood /\ b[c.mount].left = 0
  /\ \A s \in Slots \ {c.mount} : ~(b[s].left > 0 /\ b[s].tile = c.tile)
  /\ berry[c.tile]

Bitten(b, c) ==
  IF MayBite(b, c) THEN [b EXCEPT ![c.mount] = [left |-> Gulp, tile |-> c.tile]] ELSE b

Begun ==
  LET b[i \in 0 .. Len(bites)] == IF i = 0 THEN bite ELSE Bitten(b[i - 1], bites[i])
  IN  b[Len(bites)]

(* Objects from the last slot to the first; a mouth that won one is full.  *)
(* Mutant: it may win another one.                                         *)
MayTakeMore(m, c, o) ==
  /\ Mount(c.mount) /\ Live(o)
  /\ sprite[o].bond # "held" \/ sprite[o].owner = sprite[c.mount].owner
  /\ \A s \in Slots \ {c.mount} : m[s] # o

MayTake(m, c, o) ==
  /\ Mount(c.mount) /\ m[c.mount] = NoFood /\ Live(o)
  /\ sprite[o].kind \notin {"egg", "baby", "yoshi"}
  /\ sprite[o].bond # "held" \/ sprite[o].owner = sprite[c.mount].owner
  /\ \A s \in Slots \ {c.mount} : ~(coop_mount_mouth_active(s) /\ m[s] = o)

Given(m, o) ==
  LET fit == {c \in licks : c.object = o /\ MayTake(m.mouth, c, o)}
      won == CHOOSE c \in fit : Foremost(c, fit)
  IN  IF fit = {} THEN m
      ELSE [mouth |-> [m.mouth EXCEPT ![won.mount] = o], taken |-> m.taken \union {o}]

Claimed ==
  LET last == Cardinality(Slots)
      m[n \in 0 .. last] == IF n = 0 THEN [mouth |-> mouth, taken |-> {}]
                            ELSE Given(m[n - 1], last + 1 - n)
  IN  m[last]

Claims ==
  /\ at = Settling /\ at' = WorldStage
  /\ bite' = Begun /\ mouth' = Claimed.mouth
  /\ sprite' = [s \in Slots |->
       IF s \in Claimed.taken
       THEN [sprite[s] EXCEPT !.eaten = "caught", !.bond = "free", !.owner = NoPlayer]
       ELSE sprite[s]]
  /\ bites' = <<>> /\ licks' = {}
  /\ UNCHANGED <<meal, berry, gone>>

----------------------------------------------------------------------------
(* The rest of the guest's frame.  A baby's meal ends by eating the food,  *)
(* which may make it grow up; what it reaches then, in the same scan, is   *)
(* not for the adult.                                                      *)

World == at = WorldStage /\ UNCHANGED <<at, berry, gone, bites, licks>>
NotInMouth(o) == \A s \in Slots : ~Holds(s, o)

BabyEats(s) ==
  /\ World /\ sprite[s].kind = "baby" /\ meal[s]
  /\ meal' = [meal EXCEPT ![s] = FALSE]
  /\ \E grows \in BOOLEAN :
       /\ sprite' = [sprite EXCEPT ![mouth[s]] = Vacant,
                                   ![s].kind = IF grows THEN "yoshi" ELSE "baby"]
       /\ mouth' = IF grows THEN [mouth EXCEPT ![s] = NoFood] ELSE mouth
       /\ bite' = [bite EXCEPT ![s] = NoBite]

BabyReaches(s, o) ==
  /\ World /\ sprite[s].kind = "baby" /\ ~meal[s] /\ o # s /\ Live(o)
  /\ mouth_candidate_available(s, o)
  /\ meal' = [meal EXCEPT ![s] = TRUE] /\ mouth' = [mouth EXCEPT ![s] = o]
  /\ UNCHANGED <<sprite, bite>>

Hatches(s) ==
  /\ World /\ sprite[s].kind = "egg"
  /\ sprite' = [sprite EXCEPT ![s].kind = "baby"]
  /\ UNCHANGED <<mouth, meal, bite>>

Appears(s, kind) ==
  /\ World /\ sprite[s].kind = "none"
  /\ sprite' = [sprite EXCEPT ![s] = [Vacant EXCEPT !.kind = kind]]
  /\ mouth' = [mouth EXCEPT ![s] = NoFood] /\ bite' = [bite EXCEPT ![s] = NoBite]
  /\ meal' = [meal EXCEPT ![s] = FALSE]

Rides(p, s) ==
  /\ World /\ Mount(s) /\ sprite[s].owner = NoPlayer
  /\ \A o \in Slots : sprite[o].owner # p
  /\ sprite' = [sprite EXCEPT ![s].owner = p, ![s].bond = "ridden"]
  /\ UNCHANGED <<mouth, meal, bite>>

PicksUp(p, o) ==
  /\ World /\ Live(o) /\ sprite[o].kind = "food" /\ sprite[o].bond = "free"
  /\ NotInMouth(o) /\ \A s \in Slots : sprite[s].owner # p
  /\ sprite' = [sprite EXCEPT ![o].owner = p, ![o].bond = "held"]
  /\ UNCHANGED <<mouth, meal, bite>>

LetsGo(s) ==
  /\ World /\ sprite[s].owner # NoPlayer
  /\ sprite' = [sprite EXCEPT ![s].owner = NoPlayer, ![s].bond = "free"]
  /\ UNCHANGED <<mouth, meal, bite>>

Next ==
  \/ DrawStarts \/ Claims
  \/ \E s \in Slots : DrawSkips(s) \/ Draw(s) \/ BabyEats(s) \/ Hatches(s) \/ LetsGo(s)
  \/ \E s, o \in Slots : BabyReaches(s, o)
  \/ \E s \in Slots, kind \in {"egg", "food"} : Appears(s, kind)
  \/ \E p \in Players, s \in Slots : Rides(p, s) \/ PicksUp(p, s)

Spec == Init /\ [][Next]_vars

----------------------------------------------------------------------------
(* A snapshot taken between two frames is one coop_machine_mouths_valid    *)
(* accepts (coop_machine.c:584-624): no berry is bitten by two mounts, and *)
(* no food is in two mouths, somebody else's, or a mount.                  *)
MouthsValid ==
  at = WorldStage =>
    /\ \A s, r \in Slots, t \in Tiles :
         coop_mount_pending_berry(s, t) /\ coop_mount_pending_berry(r, t) => s = r
    /\ \A s \in Slots : coop_mount_mouth_active(s) =>
         IF mouth[s] = NoFood THEN sprite[s].kind # "baby"
         ELSE /\ mouth[s] # s
              /\ \A r \in Slots \ {s} : ~Holds(r, mouth[s])
              /\ sprite[mouth[s]].kind \notin {"egg", "baby", "yoshi"}
              /\ sprite[mouth[s]].bond = "held" =>
                   sprite[mouth[s]].owner = sprite[s].owner

(* What a tongue caught is in the mouth it was caught for until it is      *)
(* swallowed or spat: none is forgotten for a second catch, in limbo.      *)
CatchIsKept ==
  \A o \in Slots : sprite[o].eaten # "no" => \E s \in Slots : Holds(s, o)

(* A berry is eaten, and rewarded, once (coop_machine.c:586-588).          *)
BerryEatenOnce == \A t \in Tiles : gone[t] <= 1

(* All of it: who has what in the mouth, and that it ends there once.      *)
MouthsKept == MouthsValid /\ CatchIsKept /\ BerryEatenOnce
=============================================================================
