---------------------------- MODULE CoopEntities ----------------------------
(***************************************************************************)
(* The identities of sprites, src/mods/coop/coop_machine.c, and the        *)
(* adapter of coop_simulation.c that spawns, claims, releases, transports  *)
(* and forgets them: who rides which Yoshi, who carries what, which egg    *)
(* belongs to which source, and what survives a room change, a death, a    *)
(* cleared course and a failed attempt.                                    *)
(*                                                                         *)
(* `machine` is the part of CoopMachine this is about; `sprite` and        *)
(* `riding` are the guest memory the code looks at: status ($14C8), type   *)
(* ($9E), whether a Yoshi is ridden ($C2) and what an egg holds ($151C,    *)
(* waiting while $187B), and an actor's $187A.  The guest is external: in  *)
(* a frame it may do to a sprite whatever its own rules let it do.  What   *)
(* kills, returns or clears is CoopSession's; here it is an input of the   *)
(* frame's end, and a game over ends like a retry.  One room of the course *)
(* has a placed egg, another one a Yoshi block.                            *)
(***************************************************************************)
EXTENDS Naturals, FiniteSets

CONSTANTS
  PlayerCount, Primary,   \* Primary \in Player
  SlotCount,   \* normal sprite slots, 12 in the game
  Things,      \* carriable sprites other than Yoshis: "thing", "balloon"
  Castle,      \* whether a course without mounts ($1B9B) may be entered
  MaxId        \* bound: identities given out in a behaviour

Player == 1..PlayerCount
Slot   == 1..SlotCount

(* Every player's mount has a slot; what can be carried is a plain thing    *)
(* or a balloon, of which a player may hold others beside it.              *)
RoomAssumption ==
  /\ PlayerCount \in Nat /\ Primary \in Player
  /\ SlotCount \in Nat /\ PlayerCount <= SlotCount
  /\ Things \subseteq {"thing", "balloon"} /\ Castle \in BOOLEAN /\ MaxId \in Nat

VARIABLES
  machine,   \* entities, mount, held, stored, next_entity, placed egg, block uses
  sprite,    \* guest: the normal sprite slots
  riding,    \* guest: $187A in each actor's image
  life,      \* "PLAYING", "DYING", or "OUT" (in a catch-up bubble)
  outcome,   \* "CONTINUE", "CLEAR" or "RETRY"
  allowed,   \* mounts may enter the course
  room,      \* "egg" or "block"
  phase,     \* "frame", "idle" (between frames), "load" or "enter" (a room)
  granted,   \* history: mounts the placed egg's source has given
  aborted    \* Die()

vars == <<machine, sprite, riding, life, outcome, allowed, room, phase, granted, aborted>>
setting == <<life, outcome, allowed, room, phase, granted>>

NoOne == 0
NoId  == 0
Empty == [status |-> "none", type |-> "none", sat |-> FALSE, egg |-> "none"]
Sprite(status, type, egg) == [status |-> status, type |-> type, sat |-> FALSE, egg |-> egg]

Nobody == [p \in Player |-> NoId]
NoSource == [known |-> FALSE, uses |-> 0, egg |-> NoId]

Init ==
  /\ machine = [entities |-> {}, mount |-> Nobody, held |-> Nobody, stored |-> Nobody,
                next |-> 1, placed |-> NoSource, uses |-> 0]
  /\ sprite = [s \in Slot |-> Empty]
  /\ riding = [p \in Player |-> FALSE] /\ life = [p \in Player |-> "PLAYING"]
  /\ outcome = "CONTINUE" /\ allowed = TRUE /\ room = "egg" /\ phase = "load"
  /\ granted = 0 /\ aborted = FALSE

-----------------------------------------------------------------------------
(* coop_machine.c                                                          *)

At(m, s) == {e \in m.entities : e.slot = s}
Ids(E)   == {e.id : e \in E}

(* Faulty: the sprite is gone, the reference to it is not.                 *)
ForgetEntityOnly(m, E) ==
  [m EXCEPT !.entities = @ \ E, !.placed.egg = IF @ \in Ids(E) THEN NoId ELSE @]

(* coop_machine_forget_entity, for each entity of E.                       *)
Forget(m, E) ==
  [m EXCEPT !.entities = @ \ E,
            !.placed.egg = IF @ \in Ids(E) THEN NoId ELSE @,
            !.held = [p \in Player |-> IF @[p] \in Ids(E) THEN NoId ELSE @[p]],
            !.mount = [p \in Player |-> IF @[p] \in Ids(E) THEN NoId ELSE @[p]]]

Entity(m, s, t) == [id |-> m.next, slot |-> s, type |-> t, owner |-> NoOne, flag |-> "none"]

(* coop_machine_spawn_entity, normal_entity with reset.                    *)
Spawn(m, s, t) ==
  [Forget(m, At(m, s)) EXCEPT !.entities = @ \cup {Entity(m, s, t)}, !.next = @ + 1]

(* normal_entity without reset: the identity the slot has, or a new one.   *)
Normal(m, s, t) ==
  IF At(m, s) = {} THEN Spawn(m, s, t)
  ELSE [m EXCEPT !.entities = {IF e.slot = s THEN [e EXCEPT !.type = t] ELSE e : e \in @}]

In(m, s) == CHOOSE e \in m.entities : e.slot = s

Change(m, e, f) == [m EXCEPT !.entities = (@ \ {e}) \cup {f}]

Free(e) == [e EXCEPT !.owner = NoOne, !.flag = "none"]

(* release_owner                                                           *)
Release(m, e) ==
  [Change(m, e, Free(e)) EXCEPT
     !.held = [p \in Player |-> IF p = e.owner /\ @[p] = e.id THEN NoId ELSE @[p]]]

(* claim_carried; it dies on an owned sprite or a second object.           *)
ClaimFails(m, e, p) ==
  \/ e.owner \notin {NoOne, p}
  \/ e.type # "balloon" /\ m.held[p] \notin {NoId, e.id}

Claim(m, e, p) ==
  IF e.type = "balloon" THEN Change(m, e, [e EXCEPT !.owner = p, !.flag = "ATTACHED"])
  ELSE [Change(m, e, [e EXCEPT !.owner = p, !.flag = "HELD"]) EXCEPT !.held[p] = e.id]

(* retire_released_objects                                                 *)
Retire(m, spr) ==
  LET gone  == {e \in m.entities : spr[e.slot].status = "none"}
      freed == {e \in m.entities \ gone :
                  spr[e.slot].status # "carried" /\ e.flag \in {"HELD", "ATTACHED"}}
      k     == Forget(m, gone)
  IN  [k EXCEPT !.entities = (@ \ freed) \cup {Free(e) : e \in freed},
                !.held = [p \in Player |->
                            IF \E e \in freed : e.owner = p /\ e.id = @[p] THEN NoId ELSE @[p]]]

(* mount_count                                                             *)
Mounts(spr) ==
  {s \in Slot : /\ spr[s].status # "none"
                /\ spr[s].type \in {"yoshi", "baby"} \/ spr[s].egg = "mount"}

(* Faulty: the cap is not looked at.                                       *)
RoomForAlways(spr, s) == TRUE

RoomFor(spr, s) == Cardinality(Mounts(spr) \ {s}) < PlayerCount

-----------------------------------------------------------------------------
(* The guest's level frame.                                                *)

Can(n) == machine.next + n <= MaxId + 1

(* The identity that Normal gives slot s, and one more if the sprite is    *)
(* initialized again.                                                      *)
CanRun(s, again) ==
  Can((IF At(machine, s) = {} THEN 1 ELSE 0) + (IF again THEN 1 ELSE 0))

BeginFrame ==
  /\ phase = "idle"
  /\ phase' = "frame"
  /\ UNCHANGED <<machine, sprite, riding, life, outcome, allowed, room, granted, aborted>>

(* A sprite disappears outside its own update: killed, eaten, left behind. *)
(* (A ridden Yoshi is lost in its own.)                                    *)
Vanish(s) ==
  /\ phase = "frame" /\ sprite[s].status # "none" /\ ~sprite[s].sat
  /\ sprite' = [sprite EXCEPT ![s] = Empty]
  /\ UNCHANGED <<machine, riding, setting, aborted>>

(* The hook at 07:F722, InitSpriteTables: a new sprite in a free slot,     *)
(* perhaps straight into the hands of the actor whose routine made it.     *)
Create(s, t, p) ==
  /\ phase = "frame" /\ sprite[s].status = "none" /\ Can(1)
  /\ p # NoOne => machine.held[p] = NoId /\ ~riding[p] /\ life[p] = "PLAYING"
                /\ outcome = "CONTINUE"
  /\ sprite' = [sprite EXCEPT ![s] = Sprite(IF p = NoOne THEN "alive" ELSE "carried", t, "none")]
  /\ LET m == Spawn(machine, s, t)
     IN  IF p = NoOne THEN machine' = m /\ UNCHANGED aborted
         ELSE /\ machine' = Claim(m, In(m, s), p)
              /\ aborted' = (aborted \/ ClaimFails(m, In(m, s), p))
  /\ UNCHANGED <<riding, setting>>

(* run_normal_sprite for an empty slot.                                    *)
RunEmpty(s) ==
  /\ phase = "frame" /\ sprite[s].status = "none"
  /\ machine' = Forget(machine, At(machine, s))
  /\ UNCHANGED <<sprite, riding, setting, aborted>>

(* mount_target: the rider, or somebody in play without a mount, or the    *)
(* primary actor if there is none.                                         *)
Targets(m, e) ==
  LET afoot == {p \in Player : life[p] = "PLAYING" /\ m.mount[p] = NoId}
  IN  IF e.owner # NoOne THEN {e.owner} ELSE IF afoot = {} THEN {Primary} ELSE afoot

(* A loose Yoshi updated with the image of somebody else's rider.          *)
Unrelated(m, e, p) == e.owner = NoOne /\ m.mount[p] # NoId

(* mount_owner, after the update of a Yoshi that is `sat` or not.          *)
MountOwner(m, e, p, sat, rides) ==
  IF sat /\ rides
    THEN [Change(m, e, [e EXCEPT !.owner = p, !.flag = "RIDDEN"]) EXCEPT !.mount[p] = e.id]
  ELSE IF e.flag = "RIDDEN"
    THEN [Change(m, e, Free(e)) EXCEPT
            !.mount = [q \in Player |-> IF q = e.owner /\ @[q] = e.id THEN NoId ELSE @[q]]]
  ELSE m

(* run_normal_sprite (and draw_mounts) for a Yoshi: it is mounted, its     *)
(* rider gets off, it is lost, or it goes on.  The guest lets an actor     *)
(* mount who moves freely, is not riding and carries nothing.              *)
RunYoshi(s, p, fate) ==
  /\ phase = "frame" /\ sprite[s].status = "alive" /\ sprite[s].type = "yoshi" /\ CanRun(s, FALSE)
  /\ LET m == Normal(machine, s, "yoshi")
         e == In(m, s)
     IN  /\ e.owner # NoOne => life[e.owner] = "PLAYING"
         /\ p \in Targets(m, e)
         /\ fate = "mount" => /\ ~sprite[s].sat /\ machine.held[p] = NoId
                              /\ life[p] = "PLAYING" /\ outcome = "CONTINUE"
                              /\ ~riding[p] /\ ~Unrelated(m, e, p)
         /\ fate = "dismount" => sprite[s].sat /\ e.owner = p
         /\ LET sat   == fate = "mount" \/ (sprite[s].sat /\ fate = "stay")
                rides == fate = "mount" \/ (riding[p] /\ fate = "stay")
                clash == sat /\ rides /\ (e.owner \notin {NoOne, p}
                                          \/ m.mount[p] \notin {NoId, e.id})
            IN  IF fate = "lost"
                  THEN /\ sprite' = [sprite EXCEPT ![s] = Empty]
                       /\ riding' = [riding EXCEPT ![p] = @ /\ e.owner # p]
                       /\ machine' = Forget(m, {e}) /\ UNCHANGED aborted
                  ELSE /\ sprite' = [sprite EXCEPT ![s].sat = sat]
                       /\ riding' = [riding EXCEPT ![p] = IF Unrelated(m, e, p) THEN @ ELSE rides]
                       /\ machine' = IF Unrelated(m, e, p) THEN m ELSE MountOwner(m, e, p, sat, rides)
                       /\ aborted' = (aborted \/ (clash /\ ~Unrelated(m, e, p)))
  /\ UNCHANGED setting

(* run_normal_sprite returns at once for the mount of a player who is not  *)
(* in play: nothing happens to it.                                         *)

(* adopt_placed_egg refuses an egg beyond the source's grants.             *)
AdoptRefuses(m, e) ==
  /\ m.placed.egg # e.id
  /\ m.placed.egg # NoId \/ m.placed.uses >= PlayerCount

(* run_normal_sprite for an egg: a placed one is adopted; it waits, starts *)
(* to hatch (the hook at 01:F78A), or its content comes out as a new       *)
(* sprite through InitSpriteTables.                                        *)
RunEgg(s, fate) ==
  /\ phase = "frame" /\ sprite[s].status # "none" /\ sprite[s].type = "egg"
  /\ CanRun(s, fate = "open")
  /\ LET m       == Normal(machine, s, "egg")
         e       == In(m, s)
         waiting == sprite[s].egg = "waiting"
         k       == IF waiting THEN [m EXCEPT !.placed.known = TRUE, !.placed.egg = e.id] ELSE m
         content == IF RoomFor(sprite, s) THEN "mount" ELSE "other"
         born    == IF sprite[s].egg = "other" THEN "thing"
                    ELSE IF m.placed.egg = e.id THEN "baby" ELSE "yoshi"
     IN  IF waiting /\ AdoptRefuses(m, e)
           THEN /\ fate = "wait"
                /\ sprite' = [sprite EXCEPT ![s] = Empty]
                /\ machine' = Forget(m, {e})
                /\ UNCHANGED <<granted, aborted>>
         ELSE IF fate = "wait"
           THEN /\ sprite' = [sprite EXCEPT ![s].status = "alive"]
                /\ machine' = k /\ UNCHANGED <<granted, aborted>>
         ELSE IF waiting
           THEN /\ fate = "hatch" /\ sprite[s].status = "alive"
                /\ sprite' = [sprite EXCEPT ![s].egg = content]
                /\ machine' = [k EXCEPT !.placed.uses = @ + 1]
                /\ granted' = IF content = "mount" THEN granted + 1 ELSE granted
                /\ aborted' = (aborted \/ k.placed.uses >= PlayerCount)
         ELSE /\ fate = "open"
              /\ sprite' = [sprite EXCEPT ![s] = Sprite("alive", born, "none")]
              /\ machine' = Spawn(m, s, born)
              /\ UNCHANGED <<granted, aborted>>
  /\ UNCHANGED <<riding, life, outcome, allowed, room, phase>>

(* run_normal_sprite for anything that can be carried, a baby included:    *)
(* dropped or thrown, gone, or, for a baby, grown up as a new sprite.      *)
RunThing(s, fate) ==
  /\ phase = "frame" /\ sprite[s].status # "none" /\ sprite[s].type \in Things \cup {"thing", "baby"}
  /\ CanRun(s, fate = "grow")
  /\ LET m == Normal(machine, s, sprite[s].type)
         e == In(m, s)
     IN  /\ aborted' = (aborted \/ (sprite[s].status = "carried" /\ e.owner = NoOne))
         /\ \/ /\ fate = "stay" /\ machine' = m /\ UNCHANGED sprite
            \/ /\ fate = "lost" /\ machine' = Forget(m, {e})
               /\ sprite' = [sprite EXCEPT ![s] = Empty]
            \/ /\ fate = "release" /\ sprite[s].status = "carried"
               /\ machine' = Release(m, e)
               /\ sprite' = [sprite EXCEPT ![s].status = "alive"]
            \/ /\ fate = "grow" /\ sprite[s].type = "baby"
               /\ machine' = Spawn(m, s, "yoshi")
               /\ sprite' = [sprite EXCEPT ![s] = Sprite("alive", "yoshi", "none")]
  /\ UNCHANGED <<riding, setting>>

(* commit_contact, or run_normal_sprite itself: p picks the sprite up.     *)
Pick(s, p) ==
  /\ phase = "frame" /\ sprite[s].status = "alive" /\ CanRun(s, FALSE)
  /\ sprite[s].type \in Things \cup {"thing", "baby"}
  /\ life[p] = "PLAYING" /\ ~riding[p] /\ outcome = "CONTINUE"
  /\ sprite[s].type # "balloon" => machine.held[p] = NoId
  /\ LET m == Normal(machine, s, sprite[s].type)
         e == In(m, s)
     IN  /\ machine' = Claim(m, e, p)
         /\ aborted' = (aborted \/ ClaimFails(m, e, p))
  /\ sprite' = [sprite EXCEPT ![s].status = "carried"]
  /\ UNCHANGED <<riding, setting>>

(* A source's next use.                                                    *)
Use(n) == IF n < PlayerCount THEN n + 1 ELSE n

(* The hook at 02:89E1: a Yoshi block is hit and makes an egg in slot s,   *)
(* while it has grants and the cap permits with a Yoshi in it.             *)
HitBlock(s) ==
  /\ phase = "frame" /\ allowed /\ room = "block" /\ sprite[s].status = "none" /\ Can(1)
  /\ LET grant == machine.uses < PlayerCount /\ RoomFor(sprite, s)
         m     == Spawn(machine, s, "egg")
     IN  /\ sprite' = [sprite EXCEPT ![s] = Sprite("alive", "egg",
                                                   IF grant THEN "mount" ELSE "other")]
         /\ machine' = [m EXCEPT !.uses = Use(@)]
  /\ UNCHANGED <<riding, setting, aborted>>

(* replenish_placed_eggs: the source's next egg in the highest free slot.  *)
Replenish ==
  /\ phase = "frame" /\ outcome = "CONTINUE" /\ Can(1)
  /\ room = "egg" /\ machine.placed.known /\ machine.placed.egg = NoId
  /\ machine.placed.uses < PlayerCount
  /\ \E s \in Slot : /\ sprite[s].status = "none"
                     /\ \A r \in Slot : r > s => sprite[r].status # "none"
                     /\ sprite' = [sprite EXCEPT ![s] = Sprite("init", "egg", "waiting")]
                     /\ LET m == Spawn(machine, s, "egg")
                        IN  machine' = [m EXCEPT !.placed.egg = In(m, s).id]
  /\ UNCHANGED <<riding, setting, aborted>>

-----------------------------------------------------------------------------
(* SmwCoopSimulationEnd.  What CoopSession decides is an input: who dies   *)
(* (D), who leaves the view (C), who returns (R), and the frame's verdict. *)

Whose(k) == {p \in Player : life[p] = k}

(* apply_object_drops for the players of D: everything they hold is left   *)
(* behind, and what they ride is too when they die.                        *)
Drop(m, D) ==
  [m EXCEPT !.held = [p \in Player |-> IF p \in D THEN NoId ELSE @[p]],
            !.entities = {IF e.owner \in D /\ e.flag = "HELD" THEN Free(e) ELSE e : e \in @}]

Detach(m, D) ==
  [m EXCEPT !.mount = [p \in Player |-> IF p \in D THEN NoId ELSE @[p]],
            !.entities = {IF e.owner \in D /\ e.flag = "RIDDEN" THEN Free(e) ELSE e : e \in @}]

(* The guest's side of the same: the object is set down, the Yoshi stands. *)
SetDown(spr, m, D) ==
  [s \in Slot |->
     IF \E e \in At(m, s) : e.owner \in D /\ e.flag = "HELD" /\ spr[s].status = "carried"
       THEN [spr[s] EXCEPT !.status = "alive"] ELSE spr[s]]

Stand(spr, m, D) ==
  [s \in Slot |-> [spr[s] EXCEPT !.sat = @ /\ ~(\E e \in At(m, s) :
                                                  e.owner \in D /\ e.flag = "RIDDEN")]]

(* The deaths of a frame, whatever its verdict.                            *)
Fallen(D) == Detach(Drop(machine, D), D)
FallenSprites(D) == Stand(SetDown(sprite, machine, D), machine, D)
FallenRiding(D) == [p \in Player |-> riding[p] /\ p \notin D]
FallenLife(D) == [p \in Player |-> IF p \in D THEN "DYING"
                                   ELSE IF life[p] = "DYING" THEN "OUT" ELSE life[p]]

(* The attempt goes on: recover_and_frame puts the players of C, who left  *)
(* the view, into bubbles without what they hold, and brings those of R    *)
(* back, on the mounts they kept.                                          *)
EndContinue(D, C, R) ==
  /\ phase = "frame" /\ outcome = "CONTINUE"
  /\ D \subseteq Whose("PLAYING") /\ C \subseteq Whose("PLAYING") \ D /\ R \subseteq Whose("OUT")
  /\ Whose("PLAYING") \ (D \cup C) # {}
  /\ LET spr == SetDown(FallenSprites(D), machine, C)
     IN  sprite' = spr /\ machine' = Retire(Drop(Fallen(D), C), spr)
  /\ life' = [p \in Player |-> IF p \in C THEN "OUT" ELSE IF p \in R THEN "PLAYING"
                                ELSE FallenLife(D)[p]]
  /\ riding' = [p \in Player |-> IF p \in R THEN machine.mount[p] # NoId
                                  ELSE FallenRiding(D)[p]]
  /\ phase' = "idle"
  /\ UNCHANGED <<outcome, allowed, room, granted, aborted>>

(* Somebody entered a door or a pipe and somebody is left to arrive.       *)
EndRoom(D) ==
  /\ phase = "frame" /\ outcome = "CONTINUE"
  /\ D \subseteq Whose("PLAYING") /\ Whose("PLAYING") \ D # {}
  /\ sprite' = FallenSprites(D) /\ machine' = Retire(Fallen(D), sprite')
  /\ riding' = FallenRiding(D) /\ life' = FallenLife(D)
  /\ phase' = "load" /\ room' = IF room = "egg" THEN "block" ELSE "egg"
  /\ UNCHANGED <<outcome, allowed, granted, aborted>>

(* apply_clear: everybody is in play for the exit; a player who was not    *)
(* loses mount and object.  The goal turns what is carried into rewards    *)
(* when it is a tape, and only then.                                       *)
EndClear(D, tape) ==
  /\ phase = "frame" /\ outcome = "CONTINUE"
  /\ D \subseteq Whose("PLAYING")
  /\ LET back == {p \in Player : FallenLife(D)[p] # "PLAYING"}
         m    == Fallen(D)
         won  == {s \in Slot : tape /\ FallenSprites(D)[s].status = "carried"}
         spr  == [s \in Slot |-> IF s \in won THEN Empty ELSE FallenSprites(D)[s]]
         k    == Forget(m, UNION {At(m, s) : s \in won})
     IN  /\ sprite' = spr
         /\ machine' = Retire([k EXCEPT !.mount = [p \in Player |-> IF p \in back THEN NoId ELSE @[p]],
                                        !.held = [p \in Player |-> IF p \in back THEN NoId ELSE @[p]]],
                              spr)
         /\ riding' = [p \in Player |-> riding[p] /\ p \notin back]
  /\ life' = [p \in Player |-> "PLAYING"] /\ outcome' = "CLEAR" /\ phase' = "idle"
  /\ UNCHANGED <<allowed, room, granted, aborted>>

(* The attempt fails, because nobody is left or because the time is up:    *)
(* those in play die with what they have.                                  *)
EndRetry(D) ==
  /\ phase = "frame" /\ outcome = "CONTINUE" /\ D \subseteq Whose("PLAYING")
  /\ sprite' = FallenSprites(D) /\ machine' = Retire(Fallen(D), sprite')
  /\ riding' = FallenRiding(D)
  /\ life' = [p \in Player |-> IF life[p] = "PLAYING" THEN "DYING" ELSE FallenLife(D)[p]]
  /\ outcome' = "RETRY" /\ phase' = "idle"
  /\ UNCHANGED <<allowed, room, granted, aborted>>

(* The failed attempt's owned sprites and stored mounts.                   *)
Cleanup(m) == [Forget(m, {e \in m.entities : e.owner # NoOne}) EXCEPT !.stored = Nobody]

(* A frame's end once the attempt is over.  A failed one stays until the   *)
(* last death animation has run, then goes to the course's entrance; a     *)
(* cleared one leaves for the map when the guest says so.                  *)
EndOver(leave) ==
  /\ phase = "frame" /\ outcome # "CONTINUE"
  /\ life' = [p \in Player |-> IF life[p] = "DYING" THEN "OUT" ELSE life[p]]
  /\ LET clean == outcome = "RETRY" /\ Whose("DYING") = {}
         spr   == [s \in Slot |-> IF clean /\ \E e \in At(machine, s) : e.owner # NoOne
                                    THEN Empty ELSE sprite[s]]
     IN  /\ leave <=> clean \/ (outcome = "CLEAR" /\ leave)
         /\ sprite' = spr
         /\ machine' = Retire(IF clean THEN Cleanup(machine) ELSE machine, spr)
         /\ riding' = [p \in Player |-> riding[p] /\ ~clean]
  /\ phase' = IF leave THEN "load" ELSE "idle"
  /\ room' = IF leave THEN "egg" ELSE room
  /\ UNCHANGED <<outcome, allowed, granted, aborted>>

-----------------------------------------------------------------------------
(* load_room_sprites and initialize_room.                                  *)

Ridden(m, p) == {e \in m.entities : e.id = m.mount[p]}

(* Each ridden Yoshi becomes its rider's stored mount.                     *)
Park(m) ==
  LET parked == {p \in Player : Ridden(m, p) # {}}
  IN  [Forget(m, UNION {Ridden(m, p) : p \in parked}) EXCEPT
         !.stored = [p \in Player |-> IF p \in parked THEN m.mount[p] ELSE @[p]]]

(* carry_through_room: the carried sprites move to the first slots, with   *)
(* their identities and owners; everything else is forgotten.              *)
Carried(spr) == {s \in Slot : spr[s].status = "carried"}
Place(spr, s) == Cardinality({r \in Carried(spr) : r <= s})
Came(spr, s) == CHOOSE r \in Carried(spr) : Place(spr, r) = s

CarryThrough(m, spr) ==
  LET kept == {e \in m.entities : e.slot \in Carried(spr)}
  IN  [m EXCEPT !.entities = {[e EXCEPT !.slot = Place(spr, e.slot)] : e \in kept},
                !.placed.egg = NoId, !.mount = Nobody,
                !.held = [p \in Player |->
                            IF \E e \in kept : e.owner = p /\ e.flag = "HELD"
                              THEN (CHOOSE e \in kept : e.owner = p /\ e.flag = "HELD").id
                              ELSE NoId]]

(* The guest's loader after it: the carried sprites in their new slots,    *)
(* and the room's own egg in the last one, if mounts may be there and n    *)
(* stored ones leave it a slot (of 12 in the game).                        *)
Loaded(spr, ok, n) ==
  [s \in Slot |->
     IF s <= Cardinality(Carried(spr)) THEN spr[Came(spr, s)]
     ELSE IF s = SlotCount /\ room = "egg" /\ ok /\ Cardinality(Carried(spr)) + n < SlotCount
       THEN Sprite("init", "egg", "waiting")
     ELSE Empty]

(* Faulty: a respawned mount is a new sprite.                              *)
RespawnNew(m, s, p) ==
  LET k == Spawn(m, s, "yoshi")
  IN  [Change(k, In(k, s), [In(k, s) EXCEPT !.owner = p, !.flag = "RIDDEN"]) EXCEPT
         !.mount[p] = In(k, s).id, !.stored[p] = NoId]

(* A stored mount in slot s again: the spawn uses up an identity, and the  *)
(* old one takes its place.                                                *)
Respawn(m, s, p) ==
  LET k == Spawn(m, s, "yoshi")
  IN  [Change(k, In(k, s), [In(k, s) EXCEPT !.id = m.stored[p], !.owner = p, !.flag = "RIDDEN"])
         EXCEPT !.mount[p] = m.stored[p], !.stored[p] = NoId]

FreeSlots(spr) == {s \in Slot : spr[s].status = "none"}
LastFree(spr) == CHOOSE s \in FreeSlots(spr) : \A r \in FreeSlots(spr) : r <= s

(* The mount of player p comes back; v is the whole state.                 *)
Returned(v, p, ok) ==
  IF v.m.stored[p] = NoId \/ ~ok THEN v
  ELSE IF FreeSlots(v.spr) = {} THEN [v EXCEPT !.ok = FALSE]
  ELSE [v EXCEPT !.m = Respawn(v.m, LastFree(v.spr), p),
                 !.spr[LastFree(v.spr)] = [Sprite("alive", "yoshi", "none") EXCEPT !.sat = TRUE]]

(* One player after another.                                               *)
RespawnAll(w, ok) ==
  LET back[p \in 0..PlayerCount] == IF p = 0 THEN w ELSE Returned(back[p - 1], p, ok)
  IN  back[PlayerCount]

(* load_room_sprites, on the way to a room of the course or to a new one   *)
(* (`over` is the map or a retry), where mounts are allowed or not.  It    *)
(* dies on a mount both ridden and stored, on a carried sprite without an  *)
(* owner and when a Yoshi finds no slot.  What was still carried when the  *)
(* course was cleared does not outlive the map.                            *)
LoadRoom(ok) ==
  /\ phase = "load" /\ Can(PlayerCount)
  /\ LET cleared == [s \in Slot |-> IF outcome = "CLEAR" THEN Empty ELSE sprite[s]]
         m       == Park(machine)
         n       == Cardinality({p \in Player : m.stored[p] # NoId})
         w       == RespawnAll([m |-> CarryThrough(m, cleared), spr |-> Loaded(cleared, ok, n),
                                ok |-> TRUE], ok)
     IN  /\ machine' = w.m /\ sprite' = w.spr
         /\ riding' = [p \in Player |-> w.m.mount[p] # NoId]
         /\ aborted' = (\/ aborted \/ ~w.ok
                        \/ \E p \in Player : Ridden(machine, p) # {} /\ machine.stored[p] # NoId
                        \/ \E s \in Carried(cleared) :
                             At(m, s) = {} \/ \E e \in At(m, s) : e.owner = NoOne)
  /\ allowed' = ok
  /\ outcome = "CLEAR" \/ ok = allowed
  /\ ok \/ Castle
  /\ phase' = "enter"
  /\ UNCHANGED <<life, outcome, room, granted>>

(* initialize_room: coop_session_restart after a failed attempt, everybody *)
(* in play after a cleared one, and fresh sources at a course's entrance.  *)
(* (adopt_mounts, which follows, finds an owner on every ridden Yoshi; it  *)
(* and the $0DC1 of a legacy save file are not modelled.)                  *)
InitializeRoom ==
  /\ phase = "enter"
  /\ LET m     == Retire(machine, sprite)
         fresh == outcome # "CONTINUE"
     IN  machine' = [m EXCEPT !.mount = IF outcome = "RETRY" THEN Nobody ELSE @,
                              !.held = IF outcome = "RETRY" THEN Nobody ELSE @,
                              !.placed = IF fresh THEN NoSource ELSE @,
                              !.uses = IF fresh THEN 0 ELSE @]
  /\ life' = [p \in Player |-> IF outcome = "CONTINUE" THEN life[p] ELSE "PLAYING"]
  /\ granted' = IF outcome = "CONTINUE" THEN granted ELSE 0
  /\ outcome' = "CONTINUE" /\ phase' = "idle"
  /\ UNCHANGED <<sprite, riding, allowed, room, aborted>>

-----------------------------------------------------------------------------

Next ==
  \/ BeginFrame \/ Replenish \/ InitializeRoom
  \/ \E s \in Slot : Vanish(s) \/ RunEmpty(s) \/ HitBlock(s)
  \/ \E s \in Slot, t \in Things, p \in Player \cup {NoOne} : Create(s, t, p)
  \/ \E s \in Slot, p \in Player : Pick(s, p)
  \/ \E s \in Slot, p \in Player, fate \in {"stay", "mount", "dismount", "lost"} :
       RunYoshi(s, p, fate)
  \/ \E s \in Slot, fate \in {"wait", "hatch", "open"} : RunEgg(s, fate)
  \/ \E s \in Slot, fate \in {"stay", "lost", "release", "grow"} : RunThing(s, fate)
  \/ \E D, C, R \in SUBSET Player : EndContinue(D, C, R)
  \/ \E D \in SUBSET Player : EndRoom(D) \/ EndRetry(D)
  \/ \E D \in SUBSET Player, tape \in BOOLEAN : EndClear(D, tape)
  \/ \E leave \in BOOLEAN : EndOver(leave)
  \/ \E ok \in BOOLEAN : LoadRoom(ok)

Spec == Init /\ [][Next]_vars

-----------------------------------------------------------------------------

Id == 0..MaxId
Types == {"yoshi", "baby", "egg", "thing", "balloon"}

(* TypeOK: identities, slots, owners and flags stay in their ranges.       *)
TypeOK ==
  /\ machine.mount \in [Player -> Id] /\ machine.held \in [Player -> Id]
  /\ machine.stored \in [Player -> Id] /\ machine.next \in 1..(MaxId + 1)
  /\ machine.placed \in [known : BOOLEAN, uses : Nat, egg : Id]
  /\ machine.uses \in 0..PlayerCount
  /\ machine.entities \subseteq [id : Id, slot : Slot, type : Types, owner : Player \cup {NoOne},
                                 flag : {"none", "HELD", "RIDDEN", "ATTACHED"}]
  /\ sprite \in [Slot -> [status : {"none", "init", "alive", "carried"}, type : Types \cup {"none"},
                          sat : BOOLEAN, egg : {"none", "waiting", "mount", "other"}]]
  /\ riding \in [Player -> BOOLEAN] /\ life \in [Player -> {"PLAYING", "DYING", "OUT"}]
  /\ outcome \in {"CONTINUE", "CLEAR", "RETRY"} /\ allowed \in BOOLEAN
  /\ room \in {"egg", "block"} /\ phase \in {"frame", "idle", "load", "enter"}
  /\ granted \in Nat /\ aborted \in BOOLEAN

(* entities_valid, which coop_machine_save and coop_machine_load demand of *)
(* a machine: identities and slots are unique, an owner and its sprite     *)
(* agree, the placed source's egg is an egg nobody owns, and a stored      *)
(* mount is no sprite and no second mount of its owner.                    *)
Valid(m) ==
  /\ \A e \in m.entities :
       /\ e.id \in 1..(m.next - 1)
       /\ e.owner = NoOne <=> e.flag = "none"
       /\ e.flag = "HELD" => m.held[e.owner] = e.id
       /\ e.flag = "RIDDEN" => m.mount[e.owner] = e.id
       /\ \A f \in m.entities : e # f => e.id # f.id /\ e.slot # f.slot
  /\ m.placed.egg # NoId =>
       \E e \in m.entities : e.id = m.placed.egg /\ e.type = "egg" /\ e.owner = NoOne
  /\ \A p \in Player :
       /\ m.held[p] # NoId =>
            \E e \in m.entities : e.id = m.held[p] /\ e.owner = p /\ e.flag = "HELD"
       /\ m.mount[p] # NoId =>
            \E e \in m.entities : e.id = m.mount[p] /\ e.owner = p /\ e.flag = "RIDDEN"
       /\ m.stored[p] # NoId =>
            /\ m.mount[p] = NoId /\ m.stored[p] < m.next /\ m.stored[p] \notin Ids(m.entities)
            /\ \A q \in Player : p # q => m.stored[q] # m.stored[p]

Between == phase # "frame"

(* EntitiesValid: between two frames, and on the way from room to room, a  *)
(* machine whose course is not cleared can be saved: whatever was spawned, *)
(* claimed, dropped, killed or carried along, entities_valid accepts it.   *)
EntitiesValid == Between /\ outcome # "CLEAR" => Valid(machine)

(* SaveStatesSupported: the same without the exception: a save state can   *)
(* be made between any two frames (NATIVE_COOP.md, "Save states support    *)
(* the full session, including all actors, mounts, bubbles").              *)
SaveStatesSupported == Between => Valid(machine)

(* MountCap: there are never more Yoshis, babies, eggs with a Yoshi and    *)
(* stored mounts than players, whatever blocks and eggs are opened at the  *)
(* same time and whatever rooms are visited.                               *)
MountCap ==
  Cardinality(Mounts(sprite)) + Cardinality({p \in Player : machine.stored[p] # NoId})
    <= PlayerCount

(* GrantsBounded: a placed egg's source gives at most one mount per player *)
(* in an attempt, however often its room is left and entered again.        *)
GrantsBounded == granted <= PlayerCount

(* NeverAborts: no Die() of the adapter on a mount or object with a wrong  *)
(* owner, on a second grant or for want of a slot is reached.              *)
NeverAborts == ~aborted

(* EntitiesKept: the identities of a machine are in order: its types, what *)
(* entities_valid demands, and no Die() of the adapter.                    *)
EntitiesKept == TypeOK /\ EntitiesValid /\ NeverAborts

(* YoshisBounded: there are no more mounts, and no more grants of a placed *)
(* egg's source, than players.                                             *)
YoshisBounded == MountCap /\ GrantsBounded

MountOf(m, p) == IF m.mount[p] # NoId THEN m.mount[p] ELSE m.stored[p]

(* IdentitiesSurviveRooms: a room change leaves every player the mount,    *)
(* ridden or stored, with the identity it had, and within the course the   *)
(* object it holds.                                                        *)
IdentitiesSurviveRooms ==
  [][phase = "load" => \A p \in Player :
       /\ MountOf(machine', p) = MountOf(machine, p)
       /\ outcome = "CONTINUE" => machine'.held[p] = machine.held[p]]_vars
=============================================================================
