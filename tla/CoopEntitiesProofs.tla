------------------------- MODULE CoopEntitiesProofs -------------------------
(***************************************************************************)
(* Proofs about CoopEntities: for any number of players, of slots and of   *)
(* identities, a machine can be saved wherever the code saves it, the      *)
(* adapter does not die, there are never more mounts than players, and a   *)
(* room change loses nobody's mount or object.                             *)
(*                                                                         *)
(* One inductive invariant, EntityInv, gives all of it.  Its heart,        *)
(* Sound(m, spr), relates a machine to the sprites it speaks of, and is    *)
(* stated for any machine and any sprites, so that the lemmas about        *)
(* coop_machine.c (Forget, Spawn, Normal, Claim, Release, Retire, Drop,    *)
(* Detach, Park, CarryThrough, Respawn) can be composed the way the        *)
(* actions compose those operations.                                       *)
(***************************************************************************)
EXTENDS CoopEntities, FiniteSetTheorems, WellFoundedInduction, TLAPS

-----------------------------------------------------------------------------
(* The inductive invariant.                                                *)

Flags    == {"none", "HELD", "RIDDEN", "ATTACHED"}
Carry    == {"HELD", "ATTACHED"}
Record   == [id : Id, slot : Slot, type : Types, owner : Player \cup {NoOne}, flag : Flags]
Source   == [known : BOOLEAN, uses : Nat, egg : Id]
Machines == [entities : SUBSET Record, mount : [Player -> Id], held : [Player -> Id],
             stored : [Player -> Id], next : 1 .. MaxId + 1, placed : Source,
             uses : 0 .. PlayerCount]
Sprites  == [status : {"none", "init", "alive", "carried"}, type : Types \cup {"none"},
             sat : BOOLEAN, egg : {"none", "waiting", "mount", "other"}]

(* What entities_valid asks of the identities and of what refers to them;  *)
(* a cleared course keeps this much.                                       *)
Ranged(m) ==
  \A e \in m.entities : e.id \in 1 .. m.next - 1 /\ (e.owner = NoOne <=> e.flag = "none")

Distinct(m) == \A e, f \in m.entities : e # f => e.id # f.id /\ e.slot # f.slot

EggKnown(m) ==
  m.placed.egg # NoId =>
    \E e \in m.entities : e.id = m.placed.egg /\ e.type = "egg" /\ e.owner = NoOne

HeldKnown(m) ==
  \A p \in Player : m.held[p] # NoId =>
    \E e \in m.entities : e.id = m.held[p] /\ e.owner = p /\ e.flag = "HELD"

MountKnown(m) ==
  \A p \in Player : m.mount[p] # NoId =>
    \E e \in m.entities : e.id = m.mount[p] /\ e.owner = p /\ e.flag = "RIDDEN"

StoredApart(m) ==
  \A p \in Player : m.stored[p] # NoId =>
    /\ m.mount[p] = NoId /\ m.stored[p] < m.next /\ m.stored[p] \notin Ids(m.entities)
    /\ \A q \in Player : p # q => m.stored[q] # m.stored[p]

(* A player rides one Yoshi at most, in a cleared course too.              *)
OneMount(m) ==
  \A e, f \in m.entities : e.flag = "RIDDEN" /\ f.flag = "RIDDEN" /\ e.owner = f.owner => e = f

(* A slot's entity and its sprite: the sprite may have vanished, but not   *)
(* under a rider; what is carried has an owner, and only that.             *)
Matched(m, spr) ==
  \A e \in m.entities :
    /\ spr[e.slot].status # "none" => spr[e.slot].type = e.type
    /\ e.flag \in Carry => spr[e.slot].status \in {"none", "carried"}
    /\ e.flag = "RIDDEN" => spr[e.slot].status = "alive" /\ spr[e.slot].sat /\ e.type = "yoshi"

CarriedOwned(m, spr) ==
  \A s \in Slot : spr[s].status = "carried" => \E e \in m.entities : e.slot = s /\ e.flag \in Carry

(* What a sprite of the guest may be.                                      *)
Made(x) == /\ IF x.status = "none" THEN x = Empty ELSE x.type # "none"
           /\ x.status = "carried" => x.type \in {"thing", "baby", "balloon"}
           /\ x.egg # "none" <=> x.type = "egg"

(* The source's egg waits for a grant that the source still has.           *)
Granting(m, spr) ==
  /\ m.placed.uses <= PlayerCount
  /\ \A e \in m.entities : e.id = m.placed.egg /\ spr[e.slot].egg = "waiting" =>
       m.placed.uses < PlayerCount

Sound(m, spr) ==
  /\ m \in Machines /\ spr \in [Slot -> Sprites] /\ \A s \in Slot : Made(spr[s])
  /\ Ranged(m) /\ Distinct(m) /\ EggKnown(m) /\ HeldKnown(m) /\ MountKnown(m)
  /\ StoredApart(m) /\ OneMount(m) /\ Matched(m, spr) /\ CarriedOwned(m, spr) /\ Granting(m, spr)

(* An owner refers to what it holds and rides, unless the course is        *)
(* cleared.                                                                *)
Linked(m) ==
  \A e \in m.entities : /\ e.flag = "HELD" => m.held[e.owner] = e.id
                        /\ e.flag = "RIDDEN" => m.mount[e.owner] = e.id

StoredBy(m) == {p \in Player : m.stored[p] # NoId}
Capped(m, spr) == Cardinality(Mounts(spr)) + Cardinality(StoredBy(m)) <= PlayerCount

Riders == \A p \in Player : riding[p] => machine.mount[p] # NoId

(* Mounts are stored where they may not enter; there is none, and no egg.  *)
Barred ==
  /\ allowed => StoredBy(machine) = {}
  /\ ~allowed => /\ \A s \in Slot : sprite[s].type \notin {"egg", "baby", "yoshi"}
                 /\ machine.placed.known => phase = "enter" /\ outcome # "CONTINUE"

(* A failed attempt goes back to the entrance with nothing owned.          *)
Cleaned ==
  phase \in {"load", "enter"} /\ outcome = "RETRY" =>
    StoredBy(machine) = {} /\ \A e \in machine.entities : e.owner = NoOne

(* On the way to a room there are no identities of sprites that are gone. *)
Swept == phase = "load" => \A e \in machine.entities : sprite[e.slot].status # "none"

Settings ==
  /\ riding \in [Player -> BOOLEAN] /\ life \in [Player -> {"PLAYING", "DYING", "OUT"}]
  /\ outcome \in {"CONTINUE", "CLEAR", "RETRY"} /\ allowed \in BOOLEAN
  /\ room \in {"egg", "block"} /\ phase \in {"frame", "idle", "load", "enter"}
  /\ granted \in Nat

EntityInv ==
  /\ RoomAssumption /\ Settings /\ Sound(machine, sprite)
  /\ outcome # "CLEAR" \/ phase = "enter" => Linked(machine)
  /\ Capped(machine, sprite) /\ granted <= machine.placed.uses
  /\ Riders /\ Barred /\ Cleaned /\ Swept /\ aborted = FALSE
-----------------------------------------------------------------------------
(* What the operations of coop_machine.c change.                           *)

(* coop_machine_forget: what a machine without the identities E is.        *)
LEMMA ForgetFields ==
  ASSUME RoomAssumption, NEW m \in Machines, NEW E
  PROVE  /\ Forget(m, E) \in Machines
         /\ Forget(m, E).entities = m.entities \ E /\ Forget(m, E).next = m.next
         /\ Forget(m, E).stored = m.stored /\ Forget(m, E).uses = m.uses
         /\ Forget(m, E).placed.known = m.placed.known /\ Forget(m, E).placed.uses = m.placed.uses
         /\ Forget(m, E).placed.egg = IF m.placed.egg \in Ids(E) THEN NoId ELSE m.placed.egg
         /\ \A p \in Player :
              /\ Forget(m, E).held[p] = IF m.held[p] \in Ids(E) THEN NoId ELSE m.held[p]
              /\ Forget(m, E).mount[p] = IF m.mount[p] \in Ids(E) THEN NoId ELSE m.mount[p]
<1> DEFINE S == Ids(E)
           h == [p \in Player |-> IF m.held[p] \in S THEN NoId ELSE m.held[p]]
           r == [p \in Player |-> IF m.mount[p] \in S THEN NoId ELSE m.mount[p]]
           g == IF m.placed.egg \in S THEN NoId ELSE m.placed.egg
           f == m.entities \ E
           k == [m EXCEPT !.entities = f, !.placed.egg = g, !.held = h, !.mount = r]
<1>1. m.placed \in Source /\ m.held \in [Player -> Id] /\ m.mount \in [Player -> Id]
      /\ m.entities \in SUBSET Record
  BY DEF Machines
<1>2. h \in [Player -> Id] /\ r \in [Player -> Id] /\ g \in Id /\ f \in SUBSET Record
  BY <1>1 DEF Source, Id, NoId, RoomAssumption
<1>3. k = Forget(m, E)
  BY DEF Forget
<1>5. \A p \in Player : h[p] = (IF m.held[p] \in S THEN NoId ELSE m.held[p])
                     /\ r[p] = (IF m.mount[p] \in S THEN NoId ELSE m.mount[p])
  OBVIOUS
<1> HIDE DEF S, h, r, g, f
<1>4. /\ k \in Machines
      /\ k.entities = f /\ k.next = m.next /\ k.stored = m.stored /\ k.uses = m.uses
      /\ k.placed.known = m.placed.known /\ k.placed.uses = m.placed.uses /\ k.placed.egg = g
      /\ k.held = h /\ k.mount = r
  BY <1>1, <1>2 DEF Machines, Source
<1> HIDE DEF k
<1> QED BY <1>3, <1>4, <1>5 DEF S, f, g
-----------------------------------------------------------------------------
(* Each operation keeps a sound machine sound.                             *)


(* The entities of E are forgotten; their sprites and those of nobody may  *)
(* be gone, but what is carried still has its entity.                      *)
LEMMA ForgetSound ==
  ASSUME RoomAssumption, NEW m, NEW spr, Sound(m, spr), NEW E \in SUBSET m.entities,
         NEW spr2 \in [Slot -> Sprites], \A s \in Slot : spr2[s] = spr[s] \/ spr2[s] = Empty,
         \A e \in m.entities \ E : spr2[e.slot] = spr[e.slot],
         \A e \in E : spr2[e.slot].status # "carried"
  PROVE  /\ Sound(Forget(m, E), spr2)
         /\ Linked(m) => Linked(Forget(m, E))
<1> DEFINE k == Forget(m, E)
<1>m. m \in Machines
  BY DEF Sound
<1>0. /\ k \in Machines
      /\ k.entities = m.entities \ E /\ k.next = m.next /\ k.stored = m.stored
      /\ k.placed.uses = m.placed.uses
      /\ k.placed.egg = IF m.placed.egg \in Ids(E) THEN NoId ELSE m.placed.egg
      /\ \A p \in Player : /\ k.held[p] = IF m.held[p] \in Ids(E) THEN NoId ELSE m.held[p]
                           /\ k.mount[p] = IF m.mount[p] \in Ids(E) THEN NoId ELSE m.mount[p]
  BY <1>m, ForgetFields
<1>1. \A e \in m.entities : e \in E <=> e.id \in Ids(E)
  BY DEF Sound, Distinct, Ids
<1>2. \A e \in m.entities : e \in Record
  BY <1>m DEF Machines
<1> HIDE DEF k
<1>3. Ranged(k) /\ Distinct(k) /\ OneMount(k)
  BY <1>0 DEF Sound, Ranged, Distinct, OneMount
<1>4. EggKnown(k)
  BY <1>0, <1>1 DEF Sound, EggKnown
<1>5. HeldKnown(k) /\ MountKnown(k)
  BY <1>0, <1>1 DEF Sound, HeldKnown, MountKnown
<1>6. StoredApart(k)
  BY <1>0, <1>1 DEF Sound, StoredApart, Ids
<1>7. Matched(k, spr2)
  BY <1>0 DEF Sound, Matched
<1>8. CarriedOwned(k, spr2)
  <2> SUFFICES ASSUME NEW s \in Slot, spr2[s].status = "carried"
               PROVE  \E e \in k.entities : e.slot = s /\ e.flag \in Carry
    BY DEF CarriedOwned
  <2>1. spr2[s] = spr[s]
    BY DEF Empty
  <2>2. PICK e \in m.entities : e.slot = s /\ e.flag \in Carry
    BY <2>1 DEF Sound, CarriedOwned
  <2> QED BY <1>0, <2>2
<1>9. Granting(k, spr2)
  BY <1>0, <1>1, <1>2 DEF Sound, Granting, Ranged, NoId
<1>10. \A s \in Slot : Made(spr2[s])
  <2>1. Made(Empty)
    BY DEF Made, Empty
  <2> QED BY <2>1 DEF Sound
<1>11. Linked(m) => Linked(k)
  <2> SUFFICES ASSUME Linked(m), NEW e \in k.entities
               PROVE  /\ e.flag = "HELD" => k.held[e.owner] = e.id
                      /\ e.flag = "RIDDEN" => k.mount[e.owner] = e.id
    BY DEF Linked
  <2>1. e \in m.entities /\ e \notin E /\ e.id \notin Ids(E)
    BY <1>0, <1>1
  <2>2. e.flag # "none" => e.owner \in Player
    BY <1>2, <2>1 DEF Record, Sound, Ranged
  <2> QED BY <1>0, <2>1, <2>2 DEF Linked
<1>12. Sound(k, spr2)
  BY <1>0, <1>3, <1>4, <1>5, <1>6, <1>7, <1>8, <1>9, <1>10 DEF Sound
<1> QED BY <1>11, <1>12 DEF k

(* A new sprite x in slot s, whatever entity the slot had.                 *)
LEMMA SpawnSound ==
  ASSUME RoomAssumption, NEW m, NEW spr, Sound(m, spr), m.next <= MaxId,
         NEW s \in Slot, NEW t \in Types, NEW spr2 \in [Slot -> Sprites],
         \A r \in Slot : r # s => spr2[r] = spr[r],
         Made(spr2[s]), spr2[s].type = t, spr2[s].status \notin {"none", "carried"}
  PROVE  LET k == Spawn(m, s, t)
         IN  /\ Sound(k, spr2)
             /\ Linked(m) => Linked(k)
             /\ k.entities = (m.entities \ At(m, s)) \cup {Entity(m, s, t)}
             /\ Entity(m, s, t) \in k.entities /\ In(k, s) = Entity(m, s, t)
             /\ k.next = m.next + 1 /\ k.stored = m.stored /\ k.uses = m.uses
             /\ k.placed.known = m.placed.known /\ k.placed.uses = m.placed.uses
             /\ k.placed.egg \in {m.placed.egg, NoId}
             /\ \A p \in Player : k.held[p] \in {m.held[p], NoId} /\ k.mount[p] \in {m.mount[p], NoId}
             /\ At(m, s) = {} => k.placed.egg = m.placed.egg /\ k.held = m.held /\ k.mount = m.mount
<1> DEFINE f == Forget(m, At(m, s))
           x == Entity(m, s, t)
           k == [f EXCEPT !.entities = @ \cup {x}, !.next = @ + 1]
<1>a. At(m, s) \in SUBSET m.entities /\ \A e \in m.entities : e.slot = s <=> e \in At(m, s)
  BY DEF At
<1>m. m \in Machines
  BY DEF Sound
<1>b. \A e \in m.entities : e \in Record
  BY <1>m DEF Machines
<1>x. /\ x \in Record /\ x.id = m.next /\ x.slot = s /\ x.type = t /\ x.owner = NoOne
      /\ x.flag = "none" /\ m.next \in Nat /\ m.next # NoId
  BY <1>m DEF Record, Machines, Entity, NoOne, Flags, Id, RoomAssumption, NoId
<1>f. /\ f \in Machines
      /\ f.entities = m.entities \ At(m, s) /\ f.next = m.next /\ f.stored = m.stored
      /\ f.uses = m.uses
      /\ f.placed.known = m.placed.known /\ f.placed.uses = m.placed.uses
      /\ f.placed.egg = IF m.placed.egg \in Ids(At(m, s)) THEN NoId ELSE m.placed.egg
      /\ \A p \in Player : /\ f.held[p] = IF m.held[p] \in Ids(At(m, s)) THEN NoId ELSE m.held[p]
                           /\ f.mount[p] = IF m.mount[p] \in Ids(At(m, s)) THEN NoId ELSE m.mount[p]
  BY <1>m, ForgetFields
<1>s. /\ Sound(f, [spr EXCEPT ![s] = Empty])
      /\ Linked(m) => Linked(f)
  <2> DEFINE spr3 == [spr EXCEPT ![s] = Empty]
  <2>1. spr \in [Slot -> Sprites] /\ Empty \in Sprites /\ Empty.status # "carried"
    BY DEF Sound, Empty, Sprites
  <2>2. spr3 \in [Slot -> Sprites] /\ spr3[s] = Empty /\ \A r \in Slot : r # s => spr3[r] = spr[r]
    BY <2>1
  <2> HIDE DEF spr3
  <2>3. /\ \A r \in Slot : spr3[r] = spr[r] \/ spr3[r] = Empty
        /\ \A e \in m.entities \ At(m, s) : spr3[e.slot] = spr[e.slot]
        /\ \A e \in At(m, s) : spr3[e.slot].status # "carried"
    BY <2>1, <2>2, <1>a, <1>b DEF Record
  <2>4. /\ Sound(f, spr3)
        /\ Linked(m) => Linked(f)
    BY <1>a, <2>2, <2>3, ForgetSound
  <2> QED BY <2>4 DEF spr3
<1>k. k = Spawn(m, s, t)
  BY DEF Spawn
<1> HIDE DEF f, x
<1>1. /\ k \in Machines /\ k.entities = f.entities \cup {x} /\ k.next = f.next + 1
      /\ k.stored = f.stored /\ k.uses = f.uses /\ k.placed = f.placed /\ k.held = f.held
      /\ k.mount = f.mount
  <2> DEFINE E == f.entities \cup {x}
             n == f.next + 1
  <2>1. E \in SUBSET Record
    BY <1>f, <1>x DEF Machines
  <2>2. n \in 1 .. MaxId + 1
    BY <1>f, <1>x DEF RoomAssumption
  <2>3. k = [f EXCEPT !.entities = E, !.next = n]
    OBVIOUS
  <2> HIDE DEF E, n, k
  <2>4. /\ k \in Machines /\ k.entities = E /\ k.next = n
        /\ k.stored = f.stored /\ k.uses = f.uses /\ k.placed = f.placed /\ k.held = f.held
        /\ k.mount = f.mount
    BY <1>f, <2>1, <2>2, <2>3 DEF Machines
  <2> QED BY <2>4 DEF E, n
<1> HIDE DEF k
<1>2. \A e \in f.entities : e \in Record /\ e.slot # s /\ e.id \in 1 .. m.next - 1
  BY <1>a, <1>b, <1>f DEF Sound, Ranged
<1>3. Ranged(k) /\ Distinct(k) /\ OneMount(k)
  <2>1. Ranged(f) /\ Distinct(f) /\ OneMount(f)
    BY <1>s DEF Sound
  <2>2. Ranged(k)
    <3>1. ASSUME NEW e \in k.entities
          PROVE  e.id \in 1 .. k.next - 1 /\ (e.owner = NoOne <=> e.flag = "none")
      <4>1. k.next - 1 = m.next
        BY <1>1, <1>f, <1>x
      <4>2. CASE e = x
        BY <4>1, <4>2, <1>x, <1>m DEF Machines
      <4>3. CASE e \in f.entities
        BY <4>1, <4>3, <2>1, <1>2, <1>x DEF Ranged
      <4> QED BY <4>2, <4>3, <1>1
    <3> QED BY <3>1 DEF Ranged
  <2>3. Distinct(k)
    BY <2>1, <1>1, <1>2, <1>x DEF Distinct
  <2>4. OneMount(k)
    BY <2>1, <1>1, <1>x DEF OneMount
  <2> QED BY <2>2, <2>3, <2>4
<1>4. EggKnown(k) /\ HeldKnown(k) /\ MountKnown(k)
  BY <1>s, <1>1 DEF Sound, EggKnown, HeldKnown, MountKnown
<1>5. StoredApart(k)
  <2> SUFFICES ASSUME NEW p \in Player, k.stored[p] # NoId
               PROVE  /\ k.mount[p] = NoId /\ k.stored[p] < k.next
                      /\ k.stored[p] \notin Ids(k.entities)
                      /\ \A q \in Player : p # q => k.stored[q] # k.stored[p]
    BY DEF StoredApart
  <2>1. /\ f.mount[p] = NoId /\ f.stored[p] < f.next /\ f.stored[p] \notin Ids(f.entities)
        /\ \A q \in Player : p # q => f.stored[q] # f.stored[p]
    BY <1>s, <1>1 DEF Sound, StoredApart
  <2>2. f.stored[p] \in Nat
    BY <1>f DEF Machines, Id
  <2>3. k.stored[p] < k.next
    BY <2>1, <2>2, <1>1, <1>f, <1>x
  <2>4. k.stored[p] \notin Ids(k.entities)
    BY <2>1, <2>2, <1>1, <1>f, <1>x DEF Ids
  <2> QED BY <2>1, <2>3, <2>4, <1>1
<1>6. Matched(k, spr2)
  <2>1. ASSUME NEW e \in f.entities PROVE spr2[e.slot] = [spr EXCEPT ![s] = Empty][e.slot]
    BY <1>2, <2>1 DEF Sound, Record
  <2> QED BY <2>1, <1>s, <1>1, <1>x DEF Sound, Matched, Carry
<1>7. CarriedOwned(k, spr2)
  <2> SUFFICES ASSUME NEW r \in Slot, spr2[r].status = "carried"
               PROVE  \E e \in k.entities : e.slot = r /\ e.flag \in Carry
    BY DEF CarriedOwned
  <2>1. r # s /\ spr2[r] = spr[r]
    OBVIOUS
  <2>2. PICK e \in m.entities : e.slot = r /\ e.flag \in Carry
    BY <2>1 DEF Sound, CarriedOwned
  <2> QED BY <1>1, <1>f, <1>a, <2>1, <2>2
<1>8. Granting(k, spr2)
  <2>1. \A e \in k.entities : e.id = k.placed.egg => e \in f.entities
    <3>1. k.placed.egg # m.next
      BY <1>s, <1>1, <1>2, <1>x DEF Sound, EggKnown
    <3> QED BY <3>1, <1>1, <1>x
  <2>2. ASSUME NEW e \in f.entities PROVE spr2[e.slot] = [spr EXCEPT ![s] = Empty][e.slot]
    BY <1>2, <2>2 DEF Sound, Record
  <2> QED BY <2>1, <2>2, <1>s, <1>1 DEF Sound, Granting
<1>9. \A r \in Slot : Made(spr2[r])
  BY DEF Sound
<1>10. Sound(k, spr2)
  BY <1>1, <1>3, <1>4, <1>5, <1>6, <1>7, <1>8, <1>9 DEF Sound
<1>11. Linked(m) => Linked(k)
  BY <1>s, <1>1, <1>x DEF Linked
<1>12. x \in k.entities /\ In(k, s) = x
  BY <1>1, <1>2, <1>x DEF In
<1>13. ASSUME At(m, s) = {}
       PROVE  k.placed.egg = m.placed.egg /\ k.held = m.held /\ k.mount = m.mount
  <2>1. Ids(At(m, s)) = {}
    BY <1>13 DEF Ids
  <2>2. m.held \in [Player -> Id] /\ m.mount \in [Player -> Id] /\ f.held \in [Player -> Id]
        /\ f.mount \in [Player -> Id]
    BY <1>m, <1>f DEF Machines
  <2>3. \A p \in Player : f.held[p] = m.held[p] /\ f.mount[p] = m.mount[p]
    BY <2>1, <1>f
  <2>4. f.held = m.held /\ f.mount = m.mount
    BY <2>2, <2>3
  <2> QED BY <2>1, <2>4, <1>f, <1>1
<1> QED BY <1>k, <1>1, <1>f, <1>10, <1>11, <1>12, <1>13 DEF x

(* A slot has at most one identity.                                        *)
LEMMA SlotEntity ==
  ASSUME NEW m, Distinct(m), NEW e \in m.entities
  PROVE  In(m, e.slot) = e /\ At(m, e.slot) = {e}
<1>1. \A f \in m.entities : f.slot = e.slot => f = e
  BY DEF Distinct
<1>2. At(m, e.slot) = {e}
  BY <1>1 DEF At
<1>3. In(m, e.slot) \in m.entities /\ In(m, e.slot).slot = e.slot
  BY DEF In
<1> QED BY <1>1, <1>2, <1>3

(* A slot's sprite keeps the entity it has, or gets one.                   *)
LEMMA NormalSound ==
  ASSUME RoomAssumption, NEW m, NEW spr, Sound(m, spr), NEW s \in Slot,
         NEW t, spr[s].type = t, spr[s].status # "none",
         At(m, s) = {} => m.next <= MaxId
  PROVE  LET k == Normal(m, s, t)
             e == In(k, s)
         IN  /\ Sound(k, spr)
             /\ Linked(m) => Linked(k)
             /\ e \in k.entities /\ e.slot = s /\ e.type = t
             /\ k.placed.known = m.placed.known /\ k.placed.uses = m.placed.uses
             /\ k.placed.egg = m.placed.egg /\ k.held = m.held /\ k.mount = m.mount
             /\ k.stored = m.stored /\ k.uses = m.uses
             /\ k.next = m.next + IF At(m, s) = {} THEN 1 ELSE 0
<1>m. m \in Machines /\ spr \in [Slot -> Sprites] /\ Made(spr[s])
  BY DEF Sound
<1>1. CASE At(m, s) = {}
  <2> DEFINE k == Spawn(m, s, t)
  <2>1. t \in Types
    BY <1>m DEF Made, Empty, Sprites, Types
  <2>2. spr[s].status # "carried"
    BY <1>1 DEF Sound, CarriedOwned, At
  <2>3. /\ Sound(k, spr)
        /\ Linked(m) => Linked(k)
        /\ Entity(m, s, t) \in k.entities /\ In(k, s) = Entity(m, s, t)
        /\ k.next = m.next + 1 /\ k.stored = m.stored /\ k.uses = m.uses
        /\ k.placed.known = m.placed.known /\ k.placed.uses = m.placed.uses
        /\ k.placed.egg = m.placed.egg /\ k.held = m.held /\ k.mount = m.mount
    <3> HIDE DEF k
    <3>1. \A r \in Slot : r # s => spr[r] = spr[r]
      OBVIOUS
    <3> USE DEF k
    <3> QED BY <1>1, <1>m, <2>1, <2>2, SpawnSound
  <2>4. k = Normal(m, s, t)
    BY <1>1 DEF Normal
  <2>5. Entity(m, s, t).slot = s /\ Entity(m, s, t).type = t
    BY DEF Entity
  <2> HIDE DEF k
  <2> QED BY <1>1, <2>3, <2>4, <2>5
<1>2. CASE At(m, s) # {}
  <2>1. PICK e \in m.entities : e.slot = s
    BY <1>2 DEF At
  <2>2. In(m, s) = e /\ \A f \in m.entities : f.slot = s => f = e
    BY <2>1, SlotEntity DEF Sound, Distinct
  <2>3. e.type = t /\ e \in Record
    BY <2>1, <1>m DEF Sound, Matched, Machines
  <2>4. [e EXCEPT !.type = t] = e
    BY <2>3 DEF Record
  <2>5. {IF f.slot = s THEN [f EXCEPT !.type = t] ELSE f : f \in m.entities} = m.entities
    BY <2>1, <2>2, <2>4
  <2>6. Normal(m, s, t) = [m EXCEPT !.entities = m.entities]
    BY <1>2, <2>5 DEF Normal
  <2>7. [m EXCEPT !.entities = m.entities] = m
    BY <1>m DEF Machines
  <2>8. m.next + 0 = m.next
    BY <1>m DEF Machines
  <2> QED BY <1>2, <2>1, <2>2, <2>3, <2>6, <2>7, <2>8
<1> QED BY <1>1, <1>2

(* One entity e gets another owner and is f from now on; k is the machine  *)
(* it is in and spr2 has its sprite.                                       *)
LEMMA OwnerSound ==
  ASSUME RoomAssumption, NEW m, NEW spr, Sound(m, spr), NEW e \in m.entities, NEW f \in Record,
         f.id = e.id, f.slot = e.slot, f.type = e.type, f.owner = NoOne <=> f.flag = "none",
         e.type = "egg" => f.owner = NoOne,
         NEW k \in Machines, k.entities = (m.entities \ {e}) \cup {f},
         k.next = m.next, k.placed = m.placed, k.stored = m.stored,
         NEW spr2 \in [Slot -> Sprites], \A r \in Slot : r # e.slot => spr2[r] = spr[r],
         spr2[e.slot].status # "none", Made(spr2[e.slot]), spr2[e.slot].type = e.type,
         spr2[e.slot].egg = spr[e.slot].egg,
         f.flag \in Carry <=> spr2[e.slot].status = "carried",
         f.flag = "RIDDEN" => spr2[e.slot].status = "alive" /\ spr2[e.slot].sat /\ e.type = "yoshi",
         f.flag = "RIDDEN" => \A g \in m.entities : g.flag = "RIDDEN" /\ g.owner = f.owner => g = e,
         \A p \in Player : \/ k.held[p] = NoId
                           \/ k.held[p] = e.id /\ f.owner = p /\ f.flag = "HELD"
                           \/ k.held[p] = m.held[p] /\ m.held[p] # e.id,
         \A p \in Player : \/ k.mount[p] = NoId
                           \/ k.mount[p] = e.id /\ f.owner = p /\ f.flag = "RIDDEN" /\ m.stored[p] = NoId
                           \/ k.mount[p] = m.mount[p] /\ m.mount[p] # e.id
  PROVE  /\ Sound(k, spr2)
         /\ (/\ Linked(m)
             /\ f.flag = "HELD" => k.held[f.owner] = e.id
             /\ f.flag = "RIDDEN" => k.mount[f.owner] = e.id
             /\ \A p \in Player : k.held[p] = m.held[p] \/ m.held[p] \in {NoId, e.id}
             /\ \A p \in Player : k.mount[p] = m.mount[p] \/ m.mount[p] \in {NoId, e.id})
            => Linked(k)
<1>m. m \in Machines
  BY DEF Sound
<1>b. \A g \in m.entities : g \in Record
  BY <1>m DEF Machines
<1>1. f \in k.entities /\ (\A g \in m.entities : g # e => g \in k.entities)
      /\ \A g \in k.entities : g = f \/ (g \in m.entities /\ g # e)
  OBVIOUS
<1>2. \A g \in m.entities : g # e => g.id # e.id /\ g.slot # e.slot
  BY DEF Sound, Distinct
<1>3. Ranged(k)
  BY <1>1 DEF Sound, Ranged
<1>4. Distinct(k)
  BY <1>1, <1>2 DEF Sound, Distinct
<1>5. EggKnown(k)
  BY <1>1, <1>2 DEF Sound, EggKnown
<1>6. HeldKnown(k)
  <2> SUFFICES ASSUME NEW p \in Player, k.held[p] # NoId
               PROVE  \E g \in k.entities : g.id = k.held[p] /\ g.owner = p /\ g.flag = "HELD"
    BY DEF HeldKnown
  <2>1. CASE k.held[p] = e.id /\ f.owner = p /\ f.flag = "HELD"
    BY <2>1, <1>1
  <2>2. CASE k.held[p] = m.held[p] /\ m.held[p] # e.id
    <3>1. PICK g \in m.entities : g.id = m.held[p] /\ g.owner = p /\ g.flag = "HELD"
      BY <2>2 DEF Sound, HeldKnown
    <3> QED BY <3>1, <2>2, <1>1
  <2> QED BY <2>1, <2>2
<1>7. MountKnown(k)
  <2> SUFFICES ASSUME NEW p \in Player, k.mount[p] # NoId
               PROVE  \E g \in k.entities : g.id = k.mount[p] /\ g.owner = p /\ g.flag = "RIDDEN"
    BY DEF MountKnown
  <2>1. CASE k.mount[p] = e.id /\ f.owner = p /\ f.flag = "RIDDEN"
    BY <2>1, <1>1
  <2>2. CASE k.mount[p] = m.mount[p] /\ m.mount[p] # e.id
    <3>1. PICK g \in m.entities : g.id = m.mount[p] /\ g.owner = p /\ g.flag = "RIDDEN"
      BY <2>2 DEF Sound, MountKnown
    <3> QED BY <3>1, <2>2, <1>1
  <2> QED BY <2>1, <2>2
<1>8. StoredApart(k)
  <2>1. Ids(k.entities) = Ids(m.entities)
    BY <1>1 DEF Ids
  <2>2. ASSUME NEW p \in Player, m.stored[p] # NoId PROVE k.mount[p] = NoId
    BY <2>2 DEF Sound, StoredApart
  <2> QED BY <2>1, <2>2 DEF Sound, StoredApart
<1>9. OneMount(k)
  BY <1>1, <1>2 DEF Sound, OneMount
<1>10. \A g \in m.entities : g # e => spr2[g.slot] = spr[g.slot]
  BY <1>2, <1>b DEF Record
<1>11. Matched(k, spr2)
  <2>1. ASSUME NEW g \in k.entities
        PROVE  /\ spr2[g.slot].status # "none" => spr2[g.slot].type = g.type
               /\ g.flag \in Carry => spr2[g.slot].status \in {"none", "carried"}
               /\ g.flag = "RIDDEN" => /\ spr2[g.slot].status = "alive" /\ spr2[g.slot].sat
                                       /\ g.type = "yoshi"
    <3>1. CASE g = f
      BY <3>1
    <3>2. CASE g \in m.entities /\ g # e
      BY <3>2, <1>10 DEF Sound, Matched
    <3> QED BY <3>1, <3>2, <1>1
  <2> QED BY <2>1 DEF Matched
<1>12. CarriedOwned(k, spr2)
  <2> SUFFICES ASSUME NEW r \in Slot, spr2[r].status = "carried"
               PROVE  \E g \in k.entities : g.slot = r /\ g.flag \in Carry
    BY DEF CarriedOwned
  <2>1. CASE r = e.slot
    BY <2>1, <1>1
  <2>2. CASE r # e.slot
    <3>1. PICK g \in m.entities : g.slot = r /\ g.flag \in Carry
      BY <2>2 DEF Sound, CarriedOwned
    <3> QED BY <2>2, <3>1, <1>1
  <2> QED BY <2>1, <2>2
<1>13. Granting(k, spr2)
  <2>1. ASSUME NEW g \in k.entities, g.id = k.placed.egg, spr2[g.slot].egg = "waiting"
        PROVE  m.placed.uses < PlayerCount
    <3>1. CASE g = f
      BY <3>1, <2>1 DEF Sound, Granting
    <3>2. CASE g \in m.entities /\ g # e
      BY <3>2, <2>1, <1>10 DEF Sound, Granting
    <3> QED BY <3>1, <3>2, <1>1
  <2> QED BY <2>1 DEF Sound, Granting
<1>14. \A r \in Slot : Made(spr2[r])
  BY <1>b DEF Sound, Record
<1>15. Sound(k, spr2)
  BY <1>3, <1>4, <1>5, <1>6, <1>7, <1>8, <1>9, <1>11, <1>12, <1>13, <1>14 DEF Sound
<1>16. ASSUME Linked(m),
              f.flag = "HELD" => k.held[f.owner] = e.id,
              f.flag = "RIDDEN" => k.mount[f.owner] = e.id,
              \A p \in Player : k.held[p] = m.held[p] \/ m.held[p] \in {NoId, e.id},
              \A p \in Player : k.mount[p] = m.mount[p] \/ m.mount[p] \in {NoId, e.id}
       PROVE  Linked(k)
  <2> SUFFICES ASSUME NEW g \in k.entities
               PROVE  /\ g.flag = "HELD" => k.held[g.owner] = g.id
                      /\ g.flag = "RIDDEN" => k.mount[g.owner] = g.id
    BY DEF Linked
  <2>1. CASE g = f
    BY <2>1, <1>16
  <2>2. CASE g \in m.entities /\ g # e
    <3>1. g.id # NoId /\ (g.flag # "none" => g.owner \in Player)
      BY <2>2, <1>b DEF Sound, Ranged, NoId, Record
    <3>2. (g.flag = "HELD" => m.held[g.owner] = g.id) /\ (g.flag = "RIDDEN" => m.mount[g.owner] = g.id)
      BY <2>2, <1>16 DEF Linked
    <3> QED BY <3>1, <3>2, <2>2, <1>2, <1>16
  <2> QED BY <2>1, <2>2, <1>1
<1> QED BY <1>15, <1>16

(* e becomes f, and what the players hold and ride h and r.                *)
Handed(m, e, f, h, r) == [Change(m, e, f) EXCEPT !.held = h, !.mount = r]

(* What a hand-over (Handed) leaves as it was.                             *)
LEMMA HandedFields ==
  ASSUME RoomAssumption, NEW m \in Machines, NEW e, NEW f \in Record,
         NEW h \in [Player -> Id], NEW r \in [Player -> Id]
  PROVE  /\ Handed(m, e, f, h, r) \in Machines
         /\ Handed(m, e, f, h, r).entities = (m.entities \ {e}) \cup {f}
         /\ Handed(m, e, f, h, r).held = h /\ Handed(m, e, f, h, r).mount = r
         /\ Handed(m, e, f, h, r).next = m.next /\ Handed(m, e, f, h, r).placed = m.placed
         /\ Handed(m, e, f, h, r).stored = m.stored /\ Handed(m, e, f, h, r).uses = m.uses
<1> DEFINE E == (m.entities \ {e}) \cup {f}
           k == [m EXCEPT !.entities = E, !.held = h, !.mount = r]
<1>1. E \in SUBSET Record
  BY DEF Machines
<1>2. Handed(m, e, f, h, r) = k
  BY DEF Change, Handed
<1> HIDE DEF E
<1>3. /\ k \in Machines /\ k.entities = E
      /\ k.held = h /\ k.mount = r /\ k.next = m.next /\ k.placed = m.placed
      /\ k.stored = m.stored /\ k.uses = m.uses
  BY <1>1 DEF Machines
<1> HIDE DEF k
<1> QED BY <1>2, <1>3 DEF E

(* The guest's sprites, but for one field of slot s.                       *)
WithStatus(spr, s, status) == [spr EXCEPT ![s].status = status]
WithSat(spr, s, sat)       == [spr EXCEPT ![s].sat = sat]

(* Somebody takes a free thing, or a new one is made in his hands.         *)
LEMMA ClaimSound ==
  ASSUME RoomAssumption, NEW m, NEW spr, Sound(m, spr), NEW e \in m.entities, e.flag = "none",
         spr[e.slot].status = "alive", e.type \in {"thing", "baby", "balloon"},
         NEW p \in Player, e.type # "balloon" => m.held[p] = NoId
  PROVE  LET k == Claim(m, e, p)
         IN  /\ Sound(k, WithStatus(spr, e.slot, "carried"))
             /\ Linked(m) => Linked(k)
             /\ ~ClaimFails(m, e, p)
             /\ k.mount = m.mount /\ k.placed = m.placed /\ k.stored = m.stored
<1>m. m \in Machines /\ m.held \in [Player -> Id] /\ m.mount \in [Player -> Id] /\ e \in Record
  BY DEF Sound, Machines
<1>s. e.slot \in Slot /\ spr[e.slot] \in Sprites /\ Made(spr[e.slot]) /\ spr[e.slot].type = e.type
  BY <1>m DEF Record, Sound, Matched
<1> DEFINE g == IF e.type = "balloon" THEN "ATTACHED" ELSE "HELD"
           f == [e EXCEPT !.owner = p, !.flag = g]
           h == IF e.type = "balloon" THEN m.held ELSE [m.held EXCEPT ![p] = e.id]
           k == Handed(m, e, f, h, m.mount)
           spr2 == [spr EXCEPT ![e.slot].status = "carried"]
<1>g. g \in {"HELD", "ATTACHED"} /\ g # "none" /\ g # "RIDDEN" /\ (g = "HELD" <=> e.type # "balloon")
  OBVIOUS
<1>h. /\ h \in [Player -> Id]
      /\ e.type = "balloon" => h = m.held
      /\ e.type # "balloon" => h[p] = e.id
      /\ \A q \in Player : q # p => h[q] = m.held[q]
  BY <1>m DEF Record
<1>n. p # NoOne
  BY DEF Player, NoOne
<1> HIDE DEF g
<1>f. /\ f \in Record /\ f.id = e.id /\ f.slot = e.slot /\ f.type = e.type /\ f.owner = p
      /\ f.flag = g
  BY <1>m, <1>g DEF Record, Flags
<1>p. /\ spr2 \in [Slot -> Sprites] /\ (\A r \in Slot : r # e.slot => spr2[r] = spr[r])
      /\ spr2[e.slot].status = "carried" /\ spr2[e.slot].type = e.type
      /\ spr2[e.slot].egg = spr[e.slot].egg
  BY <1>s DEF Sound, Sprites
<1>d. Made(spr2[e.slot])
  BY <1>p, <1>s DEF Made
<1>k. k = Claim(m, e, p)
  <2>1. CASE e.type = "balloon"
    <3>1. Claim(m, e, p) = Change(m, e, f)
      BY <2>1 DEF Claim, g
    <3>2. k = [[m EXCEPT !.entities = (@ \ {e}) \cup {f}] EXCEPT !.held = m.held, !.mount = m.mount]
      BY <2>1 DEF Change, Handed
    <3> HIDE DEF k, f
    <3>3. [[m EXCEPT !.entities = (@ \ {e}) \cup {f}] EXCEPT !.held = m.held, !.mount = m.mount]
           = [m EXCEPT !.entities = (@ \ {e}) \cup {f}]
      BY <1>m DEF Machines
    <3> QED BY <3>1, <3>2, <3>3 DEF Change
  <2>2. CASE e.type # "balloon"
    <3>1. Claim(m, e, p) = [Change(m, e, f) EXCEPT !.held[p] = e.id]
      BY <2>2 DEF Claim, g
    <3>2. k = [[m EXCEPT !.entities = (@ \ {e}) \cup {f}] EXCEPT
                 !.held = [m.held EXCEPT ![p] = e.id], !.mount = m.mount]
      BY <2>2 DEF Change, Handed
    <3> HIDE DEF k, f
    <3>3. [[m EXCEPT !.entities = (@ \ {e}) \cup {f}] EXCEPT
                 !.held = [m.held EXCEPT ![p] = e.id], !.mount = m.mount]
           = [[m EXCEPT !.entities = (@ \ {e}) \cup {f}] EXCEPT !.held[p] = e.id]
      BY <1>m DEF Machines
    <3> QED BY <3>1, <3>2, <3>3 DEF Change
  <2> QED BY <2>1, <2>2
<1> HIDE DEF f, h, spr2
<1>e. k = Handed(m, e, f, h, m.mount)
  OBVIOUS
<1> HIDE DEF k
<1>c. /\ k \in Machines /\ k.entities = (m.entities \ {e}) \cup {f}
      /\ k.held = h /\ k.mount = m.mount /\ k.next = m.next /\ k.placed = m.placed
      /\ k.stored = m.stored
  <2>1. m \in Machines /\ f \in Record /\ h \in [Player -> Id] /\ m.mount \in [Player -> Id]
    BY <1>m, <1>f, <1>h
  <2> DEFINE r == m.mount
  <2> HIDE DEF r
  <2>2. r \in [Player -> Id] /\ k = Handed(m, e, f, h, r)
    BY <2>1, <1>e DEF r
  <2>3. /\ k \in Machines /\ k.entities = (m.entities \ {e}) \cup {f}
        /\ k.held = h /\ k.mount = r /\ k.next = m.next /\ k.placed = m.placed
        /\ k.stored = m.stored
    BY <2>1, <2>2, HandedFields
  <2> QED BY <2>3 DEF r
<1>1. \A q \in Player : \/ k.held[q] = NoId
                        \/ k.held[q] = e.id /\ f.owner = q /\ f.flag = "HELD"
                        \/ k.held[q] = m.held[q] /\ m.held[q] # e.id
  <2> SUFFICES ASSUME NEW q \in Player, m.held[q] # NoId PROVE m.held[q] # e.id
    BY <1>c, <1>f, <1>g, <1>h
  <2>1. PICK x \in m.entities : x.id = m.held[q] /\ x.flag = "HELD"
    BY DEF Sound, HeldKnown
  <2> QED BY <2>1 DEF Sound, Distinct
<1>2. \A q \in Player : \/ k.mount[q] = NoId
                        \/ k.mount[q] = m.mount[q] /\ m.mount[q] # e.id
  <2> SUFFICES ASSUME NEW q \in Player, m.mount[q] # NoId PROVE m.mount[q] # e.id
    BY <1>c
  <2>1. PICK x \in m.entities : x.id = m.mount[q] /\ x.flag = "RIDDEN"
    BY DEF Sound, MountKnown
  <2> QED BY <2>1 DEF Sound, Distinct
<1>3. /\ Sound(k, spr2)
      /\ (/\ Linked(m)
          /\ f.flag = "HELD" => k.held[f.owner] = e.id
          /\ f.flag = "RIDDEN" => k.mount[f.owner] = e.id
          /\ \A q \in Player : k.held[q] = m.held[q] \/ m.held[q] \in {NoId, e.id}
          /\ \A q \in Player : k.mount[q] = m.mount[q] \/ m.mount[q] \in {NoId, e.id})
         => Linked(k)
  <2>1. f.owner = NoOne <=> f.flag = "none"
    BY <1>f, <1>g, <1>n
  <2>2. (f.flag \in Carry <=> spr2[e.slot].status = "carried") /\ f.flag # "RIDDEN" /\ e.type # "egg"
        /\ spr2[e.slot].status # "none"
    BY <1>f, <1>g, <1>p DEF Carry
  <2> QED BY <2>1, <2>2, <1>1, <1>2, <1>c, <1>d, <1>f, <1>p, OwnerSound
<1>4. Linked(m) => Linked(k)
  BY <1>3, <1>c, <1>f, <1>g, <1>h
<1>5. ~ClaimFails(m, e, p)
  <2>1. e.owner = NoOne
    BY DEF Sound, Ranged
  <2> QED BY <2>1 DEF ClaimFails
<1> QED BY <1>3, <1>4, <1>5, <1>k, <1>c DEF spr2, WithStatus

(* An owned sprite gets free; spr2 has it, neither carried nor sat on by   *)
(* the entity's rider.                                                     *)
LEMMA FreedSound ==
  ASSUME RoomAssumption, NEW m, NEW spr, Sound(m, spr), NEW e \in m.entities, e.flag # "none",
         spr[e.slot].status # "none",
         NEW h \in [Player -> Id], NEW r \in [Player -> Id],
         \A p \in Player : h[p] = IF p = e.owner /\ m.held[p] = e.id THEN NoId ELSE m.held[p],
         \A p \in Player : r[p] = IF p = e.owner /\ m.mount[p] = e.id THEN NoId ELSE m.mount[p],
         NEW spr2 \in [Slot -> Sprites], \A q \in Slot : q # e.slot => spr2[q] = spr[q],
         spr2[e.slot].status \notin {"none", "carried"}, Made(spr2[e.slot]),
         spr2[e.slot].type = e.type, spr2[e.slot].egg = spr[e.slot].egg,
         NEW k, k = Handed(m, e, Free(e), h, r)
  PROVE  /\ Sound(k, spr2)
         /\ Linked(m) => Linked(k)
         /\ k.held = h /\ k.mount = r /\ k.placed = m.placed /\ k.stored = m.stored
<1> DEFINE f == Free(e)
<1>m. m \in Machines /\ e \in Record
  BY DEF Sound, Machines
<1>f. /\ f \in Record /\ f.id = e.id /\ f.slot = e.slot /\ f.type = e.type /\ f.owner = NoOne
      /\ f.flag = "none"
  BY <1>m DEF Record, Flags, Free
<1>n. \A p \in Player : p # NoOne
  BY DEF Player, NoOne
<1> HIDE DEF f
<1>c. /\ k \in Machines /\ k.entities = (m.entities \ {e}) \cup {f}
      /\ k.held = h /\ k.mount = r /\ k.next = m.next /\ k.placed = m.placed
      /\ k.stored = m.stored
  <2>1. k = Handed(m, e, f, h, r)
    BY DEF f
  <2> QED BY <2>1, <1>m, <1>f, HandedFields
<1>1. \A p \in Player : m.held[p] = e.id /\ e.id # NoId => p = e.owner
  BY DEF Sound, HeldKnown, Distinct
<1>2. \A p \in Player : m.mount[p] = e.id /\ e.id # NoId => p = e.owner
  BY DEF Sound, MountKnown, Distinct
<1>3. e.id # NoId
  BY DEF Sound, Ranged, NoId
<1>4. \A p \in Player : k.held[p] = NoId \/ (k.held[p] = m.held[p] /\ m.held[p] # e.id)
  BY <1>1, <1>3, <1>c
<1>5. \A p \in Player : k.mount[p] = NoId \/ (k.mount[p] = m.mount[p] /\ m.mount[p] # e.id)
  BY <1>2, <1>3, <1>c
<1>6. /\ \A p \in Player : k.held[p] = m.held[p] \/ m.held[p] \in {NoId, e.id}
      /\ \A p \in Player : k.mount[p] = m.mount[p] \/ m.mount[p] \in {NoId, e.id}
  BY <1>c
<1>7. f.flag \notin Carry /\ f.flag # "RIDDEN" /\ f.flag # "HELD"
  BY <1>f DEF Carry
<1>8. /\ Sound(k, spr2)
      /\ (/\ Linked(m)
          /\ f.flag = "HELD" => k.held[f.owner] = e.id
          /\ f.flag = "RIDDEN" => k.mount[f.owner] = e.id
          /\ \A q \in Player : k.held[q] = m.held[q] \/ m.held[q] \in {NoId, e.id}
          /\ \A q \in Player : k.mount[q] = m.mount[q] \/ m.mount[q] \in {NoId, e.id})
         => Linked(k)
  BY <1>4, <1>5, <1>7, <1>c, <1>f, OwnerSound
<1> QED BY <1>6, <1>7, <1>8, <1>c

(* A change of one identity leaves what is held and ridden alone.          *)
LEMMA ChangeKeeps ==
  ASSUME NEW m \in Machines, NEW e, NEW f
  PROVE  Change(m, e, f).held = m.held /\ Change(m, e, f).mount = m.mount
<1> DEFINE E == (m.entities \ {e}) \cup {f}
<1> HIDE DEF E
<1>1. [m EXCEPT !.entities = E].held = m.held /\ [m EXCEPT !.entities = E].mount = m.mount
  BY DEF Machines
<1> QED BY <1>1 DEF E, Change

(* The carried thing is dropped or thrown.                                 *)
LEMMA ReleaseSound ==
  ASSUME RoomAssumption, NEW m, NEW spr, Sound(m, spr), NEW e \in m.entities,
         spr[e.slot].status = "carried"
  PROVE  LET k == Release(m, e)
         IN  /\ Sound(k, WithStatus(spr, e.slot, "alive"))
             /\ Linked(m) => Linked(k)
             /\ e.owner # NoOne
             /\ k.mount = m.mount /\ k.placed = m.placed /\ k.stored = m.stored
<1>m. m \in Machines /\ m.held \in [Player -> Id] /\ m.mount \in [Player -> Id] /\ e \in Record
  BY DEF Sound, Machines
<1>s. e.slot \in Slot /\ spr[e.slot] \in Sprites /\ Made(spr[e.slot]) /\ spr[e.slot].type = e.type
  BY <1>m DEF Record, Sound, Matched
<1>g. e.flag \in Carry
  BY <1>s DEF Sound, CarriedOwned, Distinct
<1>o. e.owner # NoOne /\ e.flag # "none" /\ e.flag # "RIDDEN"
  BY <1>g DEF Carry, Sound, Ranged
<1> DEFINE h == [p \in Player |-> IF p = e.owner /\ m.held[p] = e.id THEN NoId ELSE m.held[p]]
           r == m.mount
           spr2 == [spr EXCEPT ![e.slot].status = "alive"]
<1>h. h \in [Player -> Id]
  BY <1>m DEF Id, NoId, RoomAssumption
<1>p. /\ spr2 \in [Slot -> Sprites] /\ (\A q \in Slot : q # e.slot => spr2[q] = spr[q])
      /\ spr2[e.slot].status = "alive" /\ spr2[e.slot].type = e.type
      /\ spr2[e.slot].egg = spr[e.slot].egg
  BY <1>s DEF Sound, Sprites
<1>d. Made(spr2[e.slot])
  BY <1>p, <1>s DEF Made, Empty
<1>k. Release(m, e) = Handed(m, e, Free(e), h, r)
  <2> DEFINE c == Change(m, e, Free(e))
  <2>1. Release(m, e) = [c EXCEPT !.held = [p \in Player |-> IF p = e.owner /\ c.held[p] = e.id
                                                           THEN NoId ELSE c.held[p]]]
    BY DEF Release
  <2>2. c.held = m.held
    BY <1>m, ChangeKeeps
  <2> HIDE DEF c
  <2>3. Release(m, e) = [c EXCEPT !.held = h]
    BY <2>1, <2>2
  <2> HIDE DEF h
  <2>4. [c EXCEPT !.held = h] = Handed(m, e, Free(e), h, r)
    <3> DEFINE f == Free(e)
    <3> HIDE DEF f
    <3>1. [[m EXCEPT !.entities = (@ \ {e}) \cup {f}] EXCEPT !.held = h, !.mount = m.mount]
            = [[m EXCEPT !.entities = (@ \ {e}) \cup {f}] EXCEPT !.held = h]
      BY <1>m DEF Machines
    <3> QED BY <3>1 DEF c, f, Change, Handed
  <2> QED BY <2>3, <2>4
<1>1. r \in [Player -> Id]
      /\ \A p \in Player : r[p] = IF p = e.owner /\ m.mount[p] = e.id THEN NoId ELSE m.mount[p]
  <2>1. ASSUME NEW p \in Player PROVE ~(p = e.owner /\ m.mount[p] = e.id)
    <3>1. e.id # NoId
      BY DEF Sound, Ranged, NoId
    <3> QED BY <3>1, <1>o DEF Sound, MountKnown, Distinct
  <2> QED BY <2>1, <1>m
<1>2. \A p \in Player : h[p] = IF p = e.owner /\ m.held[p] = e.id THEN NoId ELSE m.held[p]
  OBVIOUS
<1>3. spr2[e.slot].status \notin {"none", "carried"}
  BY <1>p
<1> HIDE DEF h, r, spr2
<1>4. /\ Sound(Release(m, e), spr2)
      /\ Linked(m) => Linked(Release(m, e))
      /\ Release(m, e).mount = r /\ Release(m, e).placed = m.placed /\ Release(m, e).stored = m.stored
  BY <1>1, <1>2, <1>3, <1>h, <1>p, <1>d, <1>k, <1>o, FreedSound
<1> QED BY <1>4, <1>o DEF spr2, r, WithStatus

(* A player who rides nothing gets on a free Yoshi.                        *)
Boarded(m, k, e, p) ==
  /\ k.placed = m.placed /\ k.stored = m.stored
  /\ \A q \in Player : k.mount[q] = IF q = p THEN e.id ELSE m.mount[q]

(* Mounting: a free mount that is ridden from now on.                      *)
LEMMA MountSound ==
  ASSUME RoomAssumption, NEW m, NEW spr, Sound(m, spr), Linked(m), NEW e \in m.entities,
         e.flag = "none", e.type = "yoshi", spr[e.slot].status = "alive",
         NEW p \in Player, m.mount[p] = NoId, m.stored[p] = NoId,
         NEW sat \in BOOLEAN, NEW rides \in BOOLEAN, sat /\ rides
  PROVE  LET k == MountOwner(m, e, p, sat, rides)
         IN  /\ Sound(k, WithSat(spr, e.slot, sat))
             /\ Linked(k) /\ Boarded(m, k, e, p)
<1>m. m \in Machines /\ m.held \in [Player -> Id] /\ m.mount \in [Player -> Id] /\ e \in Record
  BY DEF Sound, Machines
<1>s. e.slot \in Slot /\ spr[e.slot] \in Sprites /\ Made(spr[e.slot]) /\ spr[e.slot].type = e.type
  BY <1>m DEF Record, Sound, Matched
<1> DEFINE f == [e EXCEPT !.owner = p, !.flag = "RIDDEN"]
           r == [m.mount EXCEPT ![p] = e.id]
           k == Handed(m, e, f, m.held, r)
           spr2 == [spr EXCEPT ![e.slot].sat = sat]
<1>r. r \in [Player -> Id] /\ \A q \in Player : r[q] = IF q = p THEN e.id ELSE m.mount[q]
  BY <1>m DEF Record
<1>n. p # NoOne
  BY DEF Player, NoOne
<1>f. /\ f \in Record /\ f.id = e.id /\ f.slot = e.slot /\ f.type = e.type /\ f.owner = p
      /\ f.flag = "RIDDEN"
  BY <1>m DEF Record, Flags
<1>p. /\ spr2 \in [Slot -> Sprites] /\ (\A q \in Slot : q # e.slot => spr2[q] = spr[q])
      /\ spr2[e.slot].status = "alive" /\ spr2[e.slot].type = e.type
      /\ spr2[e.slot].egg = spr[e.slot].egg /\ spr2[e.slot].sat
  BY <1>s DEF Sound, Sprites
<1>d. Made(spr2[e.slot])
  BY <1>p, <1>s DEF Made
<1>k. k = MountOwner(m, e, p, sat, rides)
  <2>1. [[m EXCEPT !.entities = (@ \ {e}) \cup {f}] EXCEPT !.held = m.held, !.mount = r]
          = [[m EXCEPT !.entities = (@ \ {e}) \cup {f}] EXCEPT !.mount[p] = e.id]
    <3> HIDE DEF f
    <3> QED BY <1>m DEF Machines
  <2> QED BY <2>1 DEF MountOwner, Change, Handed
<1> HIDE DEF f, r, spr2, k
<1>c. /\ k \in Machines /\ k.entities = (m.entities \ {e}) \cup {f}
      /\ k.held = m.held /\ k.mount = r /\ k.next = m.next /\ k.placed = m.placed
      /\ k.stored = m.stored
  <2> DEFINE h == m.held
             x == Handed(m, e, f, h, r)
  <2>1. h \in [Player -> Id] /\ f \in Record /\ r \in [Player -> Id] /\ m \in Machines
    BY <1>m, <1>f, <1>r
  <2> HIDE DEF h
  <2>2. /\ x \in Machines /\ x.entities = (m.entities \ {e}) \cup {f}
        /\ x.held = h /\ x.mount = r /\ x.next = m.next /\ x.placed = m.placed
        /\ x.stored = m.stored
    BY <2>1, HandedFields
  <2>3. x = k
    BY DEF h, k
  <2> HIDE DEF x
  <2> QED BY <2>2, <2>3 DEF h
<1>i. e.id # NoId
  BY DEF Sound, Ranged, NoId
<1>1. \A q \in Player : \/ k.held[q] = NoId
                        \/ k.held[q] = m.held[q] /\ m.held[q] # e.id
  <2> SUFFICES ASSUME NEW q \in Player, m.held[q] # NoId PROVE m.held[q] # e.id
    BY <1>c
  <2>1. PICK x \in m.entities : x.id = m.held[q] /\ x.flag = "HELD"
    BY DEF Sound, HeldKnown
  <2> QED BY <2>1 DEF Sound, Distinct
<1>2. \A q \in Player : \/ k.mount[q] = NoId
                        \/ k.mount[q] = e.id /\ f.owner = q /\ f.flag = "RIDDEN" /\ m.stored[q] = NoId
                        \/ k.mount[q] = m.mount[q] /\ m.mount[q] # e.id
  <2> SUFFICES ASSUME NEW q \in Player, q # p, m.mount[q] # NoId PROVE m.mount[q] # e.id
    BY <1>c, <1>r, <1>f
  <2>1. PICK x \in m.entities : x.id = m.mount[q] /\ x.flag = "RIDDEN"
    BY DEF Sound, MountKnown
  <2> QED BY <2>1 DEF Sound, Distinct
<1>3. \A g \in m.entities : g.flag = "RIDDEN" /\ g.owner = f.owner => g = e
  BY <1>f DEF Linked, Sound, Ranged, NoId
<1>4. /\ Sound(k, spr2)
      /\ (/\ Linked(m)
          /\ f.flag = "HELD" => k.held[f.owner] = e.id
          /\ f.flag = "RIDDEN" => k.mount[f.owner] = e.id
          /\ \A q \in Player : k.held[q] = m.held[q] \/ m.held[q] \in {NoId, e.id}
          /\ \A q \in Player : k.mount[q] = m.mount[q] \/ m.mount[q] \in {NoId, e.id})
         => Linked(k)
  <2>1. f.owner = NoOne <=> f.flag = "none"
    BY <1>f, <1>n
  <2>2. (f.flag \in Carry <=> spr2[e.slot].status = "carried") /\ e.type # "egg"
        /\ spr2[e.slot].status # "none"
    BY <1>f, <1>p DEF Carry
  <2> QED BY <2>1, <2>2, <1>1, <1>2, <1>3, <1>c, <1>d, <1>f, <1>p, OwnerSound
<1>5. Linked(k)
  BY <1>4, <1>c, <1>f, <1>r
<1>6. Boarded(m, k, e, p)
  BY <1>c, <1>r DEF Boarded
<1> QED BY <1>4, <1>5, <1>6, <1>k DEF spr2, WithSat

(* The rider is off, whether or not his Yoshi still knows.                 *)
LEMMA DismountSound ==
  ASSUME RoomAssumption, NEW m, NEW spr, Sound(m, spr), NEW e \in m.entities, e.flag = "RIDDEN",
         NEW p \in Player, NEW sat \in BOOLEAN, NEW rides \in BOOLEAN, ~(sat /\ rides)
  PROVE  LET k == MountOwner(m, e, p, sat, rides)
         IN  /\ Sound(k, WithSat(spr, e.slot, sat))
             /\ Linked(m) => Linked(k)
             /\ k.placed = m.placed /\ k.stored = m.stored
             /\ \A q \in Player : q # e.owner => k.mount[q] = m.mount[q]
<1>m. m \in Machines /\ m.held \in [Player -> Id] /\ m.mount \in [Player -> Id] /\ e \in Record
  BY DEF Sound, Machines
<1>s. e.slot \in Slot /\ spr[e.slot] \in Sprites /\ Made(spr[e.slot]) /\ spr[e.slot].type = e.type
      /\ spr[e.slot].status = "alive" /\ e.type = "yoshi"
  BY <1>m DEF Record, Sound, Matched
<1> DEFINE r == [q \in Player |-> IF q = e.owner /\ m.mount[q] = e.id THEN NoId ELSE m.mount[q]]
           h == m.held
           spr2 == [spr EXCEPT ![e.slot].sat = sat]
<1>r. r \in [Player -> Id]
  BY <1>m DEF Id, NoId, RoomAssumption
<1>p. /\ spr2 \in [Slot -> Sprites] /\ (\A q \in Slot : q # e.slot => spr2[q] = spr[q])
      /\ spr2[e.slot].status = "alive" /\ spr2[e.slot].type = e.type
      /\ spr2[e.slot].egg = spr[e.slot].egg
  BY <1>s DEF Sound, Sprites
<1>d. Made(spr2[e.slot])
  BY <1>p, <1>s DEF Made
<1>k. MountOwner(m, e, p, sat, rides) = Handed(m, e, Free(e), h, r)
  <2> DEFINE c == Change(m, e, Free(e))
  <2>1. MountOwner(m, e, p, sat, rides)
          = [c EXCEPT !.mount = [q \in Player |-> IF q = e.owner /\ c.mount[q] = e.id
                                                    THEN NoId ELSE c.mount[q]]]
    BY DEF MountOwner
  <2>2. c.mount = m.mount
    BY <1>m, ChangeKeeps
  <2> HIDE DEF c
  <2>3. MountOwner(m, e, p, sat, rides) = [c EXCEPT !.mount = r]
    BY <2>1, <2>2
  <2> HIDE DEF r
  <2>4. [c EXCEPT !.mount = r] = Handed(m, e, Free(e), h, r)
    <3> DEFINE f == Free(e)
    <3> HIDE DEF f
    <3>1. [[m EXCEPT !.entities = (@ \ {e}) \cup {f}] EXCEPT !.held = m.held, !.mount = r]
            = [[m EXCEPT !.entities = (@ \ {e}) \cup {f}] EXCEPT !.mount = r]
      BY <1>m DEF Machines
    <3> QED BY <3>1 DEF c, f, Change, Handed
  <2> QED BY <2>3, <2>4
<1>1. h \in [Player -> Id]
      /\ \A q \in Player : h[q] = IF q = e.owner /\ m.held[q] = e.id THEN NoId ELSE m.held[q]
  <2>1. ASSUME NEW q \in Player PROVE ~(q = e.owner /\ m.held[q] = e.id)
    <3>1. e.id # NoId
      BY DEF Sound, Ranged, NoId
    <3> QED BY <3>1 DEF Sound, HeldKnown, Distinct
  <2> QED BY <2>1, <1>m
<1>2. \A q \in Player : r[q] = IF q = e.owner /\ m.mount[q] = e.id THEN NoId ELSE m.mount[q]
  OBVIOUS
<1>3. spr2[e.slot].status \notin {"none", "carried"} /\ e.flag # "none" /\ spr[e.slot].status # "none"
  BY <1>p, <1>s
<1> HIDE DEF h, r, spr2
<1>4. LET k == MountOwner(m, e, p, sat, rides)
      IN  /\ Sound(k, spr2)
          /\ Linked(m) => Linked(k)
          /\ k.mount = r /\ k.placed = m.placed /\ k.stored = m.stored
  BY <1>1, <1>2, <1>3, <1>r, <1>p, <1>d, <1>k, FreedSound
<1> QED BY <1>2, <1>4 DEF spr2, WithSat

(* Retiring: the identities of vanished sprites are forgotten.             *)
LEMMA RetireSound ==
  ASSUME RoomAssumption, NEW m, NEW spr, Sound(m, spr)
  PROVE  LET k == Retire(m, spr)
         IN  /\ Sound(k, spr)
             /\ Linked(m) => Linked(k)
             /\ k.entities = {e \in m.entities : spr[e.slot].status # "none"}
             /\ k.next = m.next /\ k.stored = m.stored /\ k.uses = m.uses
             /\ k.placed.known = m.placed.known /\ k.placed.uses = m.placed.uses
             /\ \A p \in Player : k.mount[p] = m.mount[p]
<1> DEFINE gone  == {e \in m.entities : spr[e.slot].status = "none"}
           freed == {e \in m.entities \ gone :
                       spr[e.slot].status # "carried" /\ e.flag \in {"HELD", "ATTACHED"}}
           k     == Forget(m, gone)
           h     == [p \in Player |->
                       IF \E e \in freed : e.owner = p /\ e.id = k.held[p] THEN NoId ELSE k.held[p]]
           E     == (k.entities \ freed) \cup {Free(e) : e \in freed}
<1>m. m \in Machines /\ spr \in [Slot -> Sprites]
  BY DEF Sound
<1>1. freed = {}
  BY DEF Sound, Matched, Carry
<1>2. Retire(m, spr) = [k EXCEPT !.entities = E, !.held = h]
  BY DEF Retire
<1>f. /\ k \in Machines
      /\ k.entities = m.entities \ gone /\ k.next = m.next /\ k.stored = m.stored
      /\ k.uses = m.uses
      /\ k.placed.known = m.placed.known /\ k.placed.uses = m.placed.uses
      /\ \A p \in Player : k.mount[p] = IF m.mount[p] \in Ids(gone) THEN NoId ELSE m.mount[p]
  <2> HIDE DEF gone
  <2> QED BY <1>m, ForgetFields
<1>s. /\ Sound(k, spr)
      /\ Linked(m) => Linked(k)
  <2>1. gone \in SUBSET m.entities
    OBVIOUS
  <2>2. \A e \in gone : spr[e.slot].status # "carried"
    OBVIOUS
  <2> HIDE DEF gone
  <2>3. \A s \in Slot : spr[s] = spr[s] \/ spr[s] = Empty
    OBVIOUS
  <2> QED BY <1>m, <2>1, <2>2, <2>3, ForgetSound
<1>3. \A p \in Player : k.mount[p] = m.mount[p]
  <2> SUFFICES ASSUME NEW p \in Player, m.mount[p] # NoId PROVE m.mount[p] \notin Ids(gone)
    BY <1>f
  <2>1. PICK x \in m.entities : x.id = m.mount[p] /\ x.flag = "RIDDEN"
    BY DEF Sound, MountKnown
  <2>2. x \notin gone
    BY <2>1 DEF Sound, Matched
  <2> QED BY <2>1, <2>2 DEF Sound, Distinct, Ids
<1>4. m.entities \ gone = {e \in m.entities : spr[e.slot].status # "none"}
  OBVIOUS
<1> HIDE DEF k, gone
<1>5. E = k.entities
  BY <1>1
<1>6. h = k.held
  BY <1>1, <1>f DEF Machines
<1> HIDE DEF h, E, freed
<1>7. Retire(m, spr) = k
  BY <1>2, <1>5, <1>6, <1>f DEF Machines
<1> QED BY <1>3, <1>4, <1>7, <1>f, <1>s

(* The guest sees to it that a sprite is set down or gets rid of a rider:  *)
(* the players of D lose what they hold, and what they ride if `off`.      *)
Losing(E, D, off) == {e \in E : e.owner \in D /\ (e.flag = "HELD" \/ (off /\ e.flag = "RIDDEN"))}
Left(E, L)        == {IF e \in L THEN Free(e) ELSE e : e \in E}

Loses(m, spr, D, off, k, spr2) ==
  /\ off \in BOOLEAN /\ k \in Machines
  /\ k.entities = Left(m.entities, Losing(m.entities, D, off))
  /\ k.next = m.next /\ k.placed = m.placed /\ k.stored = m.stored
  /\ \A p \in Player : k.held[p] = IF p \in D THEN NoId ELSE m.held[p]
  /\ \A p \in Player : k.mount[p] = IF off /\ p \in D THEN NoId ELSE m.mount[p]
  /\ spr2 \in [Slot -> Sprites]
  /\ \A s \in Slot :
       /\ spr2[s].type = spr[s].type /\ spr2[s].egg = spr[s].egg
       /\ spr2[s].status = IF \E e \in m.entities : /\ e.slot = s /\ e.owner \in D /\ e.flag = "HELD"
                                                     /\ spr[s].status = "carried"
                             THEN "alive" ELSE spr[s].status
  /\ \A s \in Slot :
       \/ spr2[s].sat = spr[s].sat
       \/ /\ ~spr2[s].sat /\ off
          /\ \E e \in m.entities : e.slot = s /\ e.owner \in D /\ e.flag = "RIDDEN"

(* What any loss of identities (Loses) keeps.                              *)
LEMMA LossSound ==
  ASSUME RoomAssumption, NEW m, NEW spr, Sound(m, spr), NEW D, NEW off, NEW k, NEW spr2,
         Loses(m, spr, D, off, k, spr2)
  PROVE  /\ Sound(k, spr2)
         /\ Linked(m) => Linked(k)
         /\ Mounts(spr2) = Mounts(spr)
<1> DEFINE L == Losing(m.entities, D, off)
           N == [e \in m.entities |-> IF e \in L THEN Free(e) ELSE e]
<1> USE DEF Loses
<1>m. m \in Machines
  BY DEF Sound
<1>b. \A e \in m.entities : e \in Record
  BY <1>m DEF Machines
<1>n. \A e \in m.entities :
        /\ N[e].id = e.id /\ N[e].slot = e.slot /\ N[e].type = e.type
        /\ e \in L => N[e].owner = NoOne /\ N[e].flag = "none"
        /\ e \notin L => N[e] = e
  <2> SUFFICES ASSUME NEW e \in m.entities
               PROVE  /\ N[e].id = e.id /\ N[e].slot = e.slot /\ N[e].type = e.type
                      /\ e \in L => N[e].owner = NoOne /\ N[e].flag = "none"
                      /\ e \notin L => N[e] = e
    OBVIOUS
  <2>1. /\ Free(e).id = e.id /\ Free(e).slot = e.slot /\ Free(e).type = e.type
        /\ Free(e).owner = NoOne /\ Free(e).flag = "none"
    BY <1>b DEF Record, Free
  <2>2. N[e] = IF e \in L THEN Free(e) ELSE e
    OBVIOUS
  <2> HIDE DEF N
  <2> QED BY <2>1, <2>2
<1>k. k.entities = {N[e] : e \in m.entities}
  BY DEF Left
<1>1. /\ \A e \in m.entities : N[e] \in k.entities
      /\ \A g \in k.entities : \E e \in m.entities : g = N[e]
  BY <1>k
<1>l. \A e \in m.entities :
        e \in L <=> e.owner \in D /\ (e.flag = "HELD" \/ (off /\ e.flag = "RIDDEN"))
  BY DEF Losing
<1>d. \A e, f \in m.entities : e # f => e.id # f.id /\ e.slot # f.slot
  BY DEF Sound, Distinct
<1>s. \A s \in Slot : spr[s] \in Sprites /\ Made(spr[s])
  BY DEF Sound
<1> HIDE DEF N, L
<1>3. Ranged(k)
  BY <1>1, <1>n DEF Sound, Ranged
<1>4. Distinct(k)
  BY <1>1, <1>n, <1>d DEF Distinct
<1>5. EggKnown(k)
  <2>1. \A e \in m.entities : e.owner = NoOne => N[e].owner = NoOne
    BY <1>n
  <2> QED BY <2>1, <1>1, <1>n DEF Sound, EggKnown
<1>6. HeldKnown(k) /\ MountKnown(k)
  <2>1. ASSUME NEW p \in Player, k.held[p] # NoId
        PROVE  \E e \in k.entities : e.id = k.held[p] /\ e.owner = p /\ e.flag = "HELD"
    <3>1. p \notin D /\ k.held[p] = m.held[p]
      BY <2>1
    <3>2. PICK e \in m.entities : e.id = m.held[p] /\ e.owner = p /\ e.flag = "HELD"
      BY <2>1, <3>1 DEF Sound, HeldKnown
    <3> QED BY <1>1, <1>n, <1>l, <3>1, <3>2
  <2>2. ASSUME NEW p \in Player, k.mount[p] # NoId
        PROVE  \E e \in k.entities : e.id = k.mount[p] /\ e.owner = p /\ e.flag = "RIDDEN"
    <3>1. ~(off /\ p \in D) /\ k.mount[p] = m.mount[p]
      BY <2>2
    <3>2. PICK e \in m.entities : e.id = m.mount[p] /\ e.owner = p /\ e.flag = "RIDDEN"
      BY <2>2, <3>1 DEF Sound, MountKnown
    <3> QED BY <1>1, <1>n, <1>l, <3>1, <3>2
  <2> QED BY <2>1, <2>2 DEF HeldKnown, MountKnown
<1>7. StoredApart(k)
  <2>1. Ids(k.entities) = Ids(m.entities)
    BY <1>1, <1>n DEF Ids
  <2>2. \A p \in Player : m.mount[p] = NoId => k.mount[p] = NoId
    OBVIOUS
  <2> QED BY <2>1, <2>2 DEF Sound, StoredApart
<1>8. OneMount(k)
  <2>1. \A e \in m.entities : N[e].flag = "RIDDEN" => N[e] = e
    BY <1>n
  <2> QED BY <2>1, <1>1 DEF Sound, OneMount
<1>9. Matched(k, spr2)
  <2> SUFFICES ASSUME NEW e \in m.entities
               PROVE  /\ spr2[e.slot].status # "none" => spr2[e.slot].type = e.type
                      /\ N[e].flag \in Carry => spr2[e.slot].status \in {"none", "carried"}
                      /\ N[e].flag = "RIDDEN" =>
                           spr2[e.slot].status = "alive" /\ spr2[e.slot].sat /\ e.type = "yoshi"
    BY <1>1, <1>n DEF Matched
  <2>0. /\ e.slot \in Slot
        /\ spr[e.slot].status # "none" => spr[e.slot].type = e.type
        /\ e.flag \in Carry => spr[e.slot].status \in {"none", "carried"}
        /\ e.flag = "RIDDEN" =>
             spr[e.slot].status = "alive" /\ spr[e.slot].sat /\ e.type = "yoshi"
    BY <1>b DEF Record, Sound, Matched
  <2>1. spr2[e.slot].status # "none" => spr[e.slot].status # "none"
    BY <2>0
  <2>2. ASSUME N[e].flag \in Carry PROVE spr2[e.slot].status \in {"none", "carried"}
    <3>1. N[e] = e /\ e \notin L
      BY <2>2, <1>n DEF Carry
    <3>2. ~\E g \in m.entities : g.slot = e.slot /\ g.owner \in D /\ g.flag = "HELD"
      BY <3>1, <1>d, <1>l
    <3> QED BY <2>0, <2>2, <3>1, <3>2
  <2>3. ASSUME N[e].flag = "RIDDEN"
        PROVE  spr2[e.slot].status = "alive" /\ spr2[e.slot].sat /\ e.type = "yoshi"
    <3>1. N[e] = e /\ e \notin L
      BY <2>3, <1>n
    <3>2. ~(off /\ \E g \in m.entities : g.slot = e.slot /\ g.owner \in D /\ g.flag = "RIDDEN")
      BY <2>3, <3>1, <1>d, <1>l
    <3>3. spr2[e.slot].sat = spr[e.slot].sat
      BY <2>0, <3>2
    <3> QED BY <2>0, <2>3, <3>1, <3>3
  <2> QED BY <2>0, <2>1, <2>2, <2>3
<1>10. CarriedOwned(k, spr2)
  <2> SUFFICES ASSUME NEW s \in Slot, spr2[s].status = "carried"
               PROVE  \E e \in k.entities : e.slot = s /\ e.flag \in Carry
    BY DEF CarriedOwned
  <2>1. spr[s].status = "carried"
        /\ ~\E e \in m.entities : e.slot = s /\ e.owner \in D /\ e.flag = "HELD"
    OBVIOUS
  <2>2. PICK e \in m.entities : e.slot = s /\ e.flag \in Carry
    BY <2>1 DEF Sound, CarriedOwned
  <2>3. e \notin L
    BY <2>1, <2>2, <1>d, <1>l, <1>b DEF Carry
  <2> QED BY <2>2, <2>3, <1>1, <1>n
<1>11. Granting(k, spr2)
  BY <1>1, <1>n, <1>b DEF Sound, Granting, Record
<1>12. \A s \in Slot : Made(spr2[s])
  <2> SUFFICES ASSUME NEW s \in Slot PROVE Made(spr2[s])
    OBVIOUS
  <2>1. CASE spr[s].status = "none"
    <3>1. spr[s] = Empty /\ spr2[s].status = "none" /\ spr2[s].type = "none" /\ spr2[s].egg = "none"
      BY <2>1, <1>s DEF Made, Empty
    <3>2. ~spr2[s].sat
      BY <3>1, <2>1 DEF Sound, Matched, Empty
    <3>3. spr2[s] \in Sprites
      OBVIOUS
    <3> QED BY <3>1, <3>2, <3>3 DEF Made, Empty, Sprites
  <2>2. CASE spr[s].status # "none"
    BY <2>2, <1>s DEF Made
  <2> QED BY <2>1, <2>2
<1>13. Sound(k, spr2)
  BY <1>3, <1>4, <1>5, <1>6, <1>7, <1>8, <1>9, <1>10, <1>11, <1>12 DEF Sound
<1>14. ASSUME Linked(m) PROVE Linked(k)
  <2> SUFFICES ASSUME NEW e \in m.entities
               PROVE  /\ N[e].flag = "HELD" => k.held[N[e].owner] = e.id
                      /\ N[e].flag = "RIDDEN" => k.mount[N[e].owner] = e.id
    BY <1>1, <1>n DEF Linked
  <2>1. CASE e \in L
    BY <2>1, <1>n
  <2>2. CASE e \notin L
    <3>1. N[e] = e /\ (e.flag # "none" => e.owner \in Player)
      BY <2>2, <1>n, <1>b DEF Sound, Ranged, Record
    <3>2. /\ e.flag = "HELD" => m.held[e.owner] = e.id /\ e.owner \notin D
          /\ e.flag = "RIDDEN" => m.mount[e.owner] = e.id /\ ~(off /\ e.owner \in D)
      BY <2>2, <1>14, <1>l DEF Linked
    <3> QED BY <3>1, <3>2
  <2> QED BY <2>1, <2>2
<1>15. Mounts(spr2) = Mounts(spr)
  BY DEF Mounts
<1> QED BY <1>13, <1>14, <1>15

(* What dropping everything the players D hold changes.                    *)
LEMMA DropFields ==
  ASSUME RoomAssumption, NEW m \in Machines, NEW D
  PROVE  /\ Drop(m, D) \in Machines /\ Drop(m, D).next = m.next /\ Drop(m, D).placed = m.placed
         /\ Drop(m, D).stored = m.stored /\ Drop(m, D).uses = m.uses
         /\ Drop(m, D).entities =
              {IF e.owner \in D /\ e.flag = "HELD" THEN Free(e) ELSE e : e \in m.entities}
         /\ Drop(m, D).held = [p \in Player |-> IF p \in D THEN NoId ELSE m.held[p]]
         /\ Drop(m, D).mount = m.mount
<1> DEFINE A == {IF e.owner \in D /\ e.flag = "HELD" THEN Free(e) ELSE e : e \in m.entities}
           h == [p \in Player |-> IF p \in D THEN NoId ELSE m.held[p]]
           k == [m EXCEPT !.held = h, !.entities = A]
<1>1. \A e \in Record : Free(e) \in Record
  BY DEF Free, Record, Flags
<1>2. m.entities \in SUBSET Record /\ m.held \in [Player -> Id]
  BY DEF Machines
<1>3. A \in SUBSET Record
  BY <1>1, <1>2
<1>4. h \in [Player -> Id]
  BY <1>2 DEF Id, NoId, RoomAssumption
<1>5. Drop(m, D) = k
  BY DEF Drop
<1> HIDE DEF A, h
<1>6. /\ k \in Machines /\ k.next = m.next /\ k.placed = m.placed /\ k.stored = m.stored
      /\ k.uses = m.uses /\ k.entities = A /\ k.held = h /\ k.mount = m.mount
  BY <1>3, <1>4 DEF Machines
<1> HIDE DEF k
<1> QED BY <1>5, <1>6 DEF A, h

(* What dismounting the players D changes.                                 *)
LEMMA DetachFields ==
  ASSUME RoomAssumption, NEW m \in Machines, NEW D
  PROVE  /\ Detach(m, D) \in Machines /\ Detach(m, D).next = m.next /\ Detach(m, D).placed = m.placed
         /\ Detach(m, D).stored = m.stored /\ Detach(m, D).uses = m.uses
         /\ Detach(m, D).entities =
              {IF e.owner \in D /\ e.flag = "RIDDEN" THEN Free(e) ELSE e : e \in m.entities}
         /\ Detach(m, D).mount = [p \in Player |-> IF p \in D THEN NoId ELSE m.mount[p]]
         /\ Detach(m, D).held = m.held
<1> DEFINE A == {IF e.owner \in D /\ e.flag = "RIDDEN" THEN Free(e) ELSE e : e \in m.entities}
           h == [p \in Player |-> IF p \in D THEN NoId ELSE m.mount[p]]
           k == [m EXCEPT !.mount = h, !.entities = A]
<1>1. \A e \in Record : Free(e) \in Record
  BY DEF Free, Record, Flags
<1>2. m.entities \in SUBSET Record /\ m.mount \in [Player -> Id]
  BY DEF Machines
<1>3. A \in SUBSET Record
  BY <1>1, <1>2
<1>4. h \in [Player -> Id]
  BY <1>2 DEF Id, NoId, RoomAssumption
<1>5. Detach(m, D) = k
  BY DEF Detach
<1> HIDE DEF A, h
<1>6. /\ k \in Machines /\ k.next = m.next /\ k.placed = m.placed /\ k.stored = m.stored
      /\ k.uses = m.uses /\ k.entities = A /\ k.mount = h /\ k.held = m.held
  BY <1>3, <1>4 DEF Machines
<1> HIDE DEF k
<1> QED BY <1>5, <1>6 DEF A, h

(* Those who leave the view drop what they hold.                           *)
LEMMA DropSound ==
  ASSUME RoomAssumption, NEW m, NEW spr, Sound(m, spr), NEW D \in SUBSET Player
  PROVE  LET k == Drop(m, D)
             spr2 == SetDown(spr, m, D)
         IN  /\ Sound(k, spr2)
             /\ Linked(m) => Linked(k)
             /\ Mounts(spr2) = Mounts(spr)
             /\ \A s \in Slot : spr2[s].type = spr[s].type
             /\ k.next = m.next /\ k.placed = m.placed /\ k.stored = m.stored /\ k.mount = m.mount
             /\ k.uses = m.uses
<1> DEFINE k == Drop(m, D)
           spr2 == SetDown(spr, m, D)
           off == FALSE
           L == Losing(m.entities, D, off)
<1>m. m \in Machines /\ spr \in [Slot -> Sprites] /\ \A s \in Slot : spr[s] \in Sprites
  BY DEF Sound
<1>1. /\ k \in Machines /\ k.next = m.next /\ k.placed = m.placed /\ k.stored = m.stored
      /\ k.uses = m.uses /\ k.mount = m.mount
      /\ k.entities = {IF e.owner \in D /\ e.flag = "HELD" THEN Free(e) ELSE e : e \in m.entities}
      /\ k.held = [p \in Player |-> IF p \in D THEN NoId ELSE m.held[p]]
  BY <1>m, DropFields
<1>2. k.entities = Left(m.entities, L)
  <2>1. \A e \in m.entities : (e.owner \in D /\ e.flag = "HELD") <=> e \in L
    BY DEF Losing
  <2> HIDE DEF L, k
  <2> QED BY <2>1, <1>1 DEF Left
<1>3. /\ \A p \in Player : k.held[p] = IF p \in D THEN NoId ELSE m.held[p]
      /\ \A p \in Player : k.mount[p] = IF off /\ p \in D THEN NoId ELSE m.mount[p]
  BY <1>1
<1>4. /\ spr2 \in [Slot -> Sprites]
      /\ \A s \in Slot : /\ spr2[s].type = spr[s].type /\ spr2[s].egg = spr[s].egg
                         /\ spr2[s].sat = spr[s].sat
                         /\ spr2[s].status =
                              IF \E e \in m.entities : /\ e.slot = s /\ e.owner \in D /\ e.flag = "HELD"
                                                       /\ spr[s].status = "carried"
                                THEN "alive" ELSE spr[s].status
  <2>1. ASSUME NEW s \in Slot
        PROVE  /\ spr2[s] \in Sprites
               /\ spr2[s].type = spr[s].type /\ spr2[s].egg = spr[s].egg
               /\ spr2[s].sat = spr[s].sat
               /\ spr2[s].status =
                    IF \E e \in m.entities : /\ e.slot = s /\ e.owner \in D /\ e.flag = "HELD"
                                             /\ spr[s].status = "carried"
                      THEN "alive" ELSE spr[s].status
    <3> DEFINE P == \E e \in m.entities : /\ e.slot = s /\ e.owner \in D /\ e.flag = "HELD"
                                          /\ spr[s].status = "carried"
    <3>1. spr2[s] = IF P THEN [spr[s] EXCEPT !.status = "alive"] ELSE spr[s]
      BY DEF SetDown, At
    <3> HIDE DEF P, spr2
    <3>2. /\ spr2[s] \in Sprites
          /\ spr2[s].type = spr[s].type /\ spr2[s].egg = spr[s].egg /\ spr2[s].sat = spr[s].sat
          /\ spr2[s].status = IF P THEN "alive" ELSE spr[s].status
      BY <3>1, <1>m DEF Sprites
    <3> QED BY <3>2 DEF P
  <2>2. spr2 = [s \in Slot |-> spr2[s]]
    BY DEF SetDown
  <2> HIDE DEF spr2
  <2> QED BY <2>1, <2>2
<1> HIDE DEF k, spr2, L
<1>5. off \in BOOLEAN
  OBVIOUS
<1> HIDE DEF off
<1>6. \A s \in Slot : /\ spr2[s].type = spr[s].type /\ spr2[s].egg = spr[s].egg
                      /\ spr2[s].status =
                              IF \E e \in m.entities : /\ e.slot = s /\ e.owner \in D /\ e.flag = "HELD"
                                                       /\ spr[s].status = "carried"
                                THEN "alive" ELSE spr[s].status
  BY <1>4
<1>8. \A s \in Slot : \/ spr2[s].sat = spr[s].sat
                       \/ /\ ~spr2[s].sat /\ off
                          /\ \E e \in m.entities : e.slot = s /\ e.owner \in D /\ e.flag = "RIDDEN"
  BY <1>4
<1>9. Loses(m, spr, D, off, k, spr2)
  BY <1>1, <1>2, <1>3, <1>4, <1>5, <1>6, <1>8 DEF Loses, L
<1>7. /\ Sound(k, spr2)
      /\ Linked(m) => Linked(k)
      /\ Mounts(spr2) = Mounts(spr)
  BY <1>9, LossSound
<1> QED BY <1>1, <1>4, <1>7 DEF k, spr2

(* Those who die lose their mounts too.                                    *)
LEMMA FallSound ==
  ASSUME RoomAssumption, NEW m, NEW spr, Sound(m, spr), NEW D \in SUBSET Player
  PROVE  LET k == Detach(Drop(m, D), D)
             spr2 == Stand(SetDown(spr, m, D), m, D)
         IN  /\ Sound(k, spr2)
             /\ Linked(m) => Linked(k)
             /\ Mounts(spr2) = Mounts(spr)
             /\ \A s \in Slot : spr2[s].type = spr[s].type
             /\ k.next = m.next /\ k.placed = m.placed /\ k.stored = m.stored /\ k.uses = m.uses
             /\ \A p \in Player : k.mount[p] = IF p \in D THEN NoId ELSE m.mount[p]
             /\ \A p \in Player \ D, s \in Slot :
                  (\E e \in At(k, s) : e.owner = p /\ e.flag = "HELD")
                    <=> (\E e \in At(m, s) : e.owner = p /\ e.flag = "HELD")
<1> DEFINE d == Drop(m, D)
           k == Detach(d, D)
           spr1 == SetDown(spr, m, D)
           spr2 == Stand(spr1, m, D)
           off == TRUE
           L == Losing(m.entities, D, off)
<1>m. m \in Machines /\ spr \in [Slot -> Sprites] /\ \A s \in Slot : spr[s] \in Sprites
  BY DEF Sound
<1>b. \A e \in m.entities : e \in Record
  BY <1>m DEF Machines
<1>d. /\ d \in Machines /\ d.next = m.next /\ d.placed = m.placed /\ d.stored = m.stored
      /\ d.uses = m.uses /\ d.mount = m.mount
      /\ d.entities = {IF e.owner \in D /\ e.flag = "HELD" THEN Free(e) ELSE e : e \in m.entities}
      /\ d.held = [p \in Player |-> IF p \in D THEN NoId ELSE m.held[p]]
  BY <1>m, DropFields
<1> HIDE DEF d
<1>k. /\ k \in Machines /\ k.next = d.next /\ k.placed = d.placed /\ k.stored = d.stored
      /\ k.uses = d.uses /\ k.held = d.held
      /\ k.entities = {IF e.owner \in D /\ e.flag = "RIDDEN" THEN Free(e) ELSE e : e \in d.entities}
      /\ k.mount = [p \in Player |-> IF p \in D THEN NoId ELSE d.mount[p]]
  BY <1>d, DetachFields
<1> HIDE DEF k
<1>f. \A e \in Record : /\ Free(e).owner = NoOne /\ Free(e).flag = "none" /\ Free(e).slot = e.slot
                        /\ Free(e).id = e.id /\ Free(e).type = e.type
  BY DEF Record, Free
<1>n. NoOne \notin D
  BY DEF Player, NoOne
<1>e. k.entities = Left(m.entities, L)
  <2>1. \A e \in m.entities : e \in L <=> e.owner \in D /\ (e.flag = "HELD" \/ e.flag = "RIDDEN")
    BY DEF Losing
  <2> HIDE DEF L
  <2>2. \A e \in m.entities : (IF e \in L THEN Free(e) ELSE e) \in k.entities
    <3> SUFFICES ASSUME NEW e \in m.entities PROVE (IF e \in L THEN Free(e) ELSE e) \in k.entities
      OBVIOUS
    <3> DEFINE x == IF e.owner \in D /\ e.flag = "HELD" THEN Free(e) ELSE e
    <3>1. x \in d.entities
      BY <1>d
    <3>2. (IF x.owner \in D /\ x.flag = "RIDDEN" THEN Free(x) ELSE x) \in k.entities
      BY <3>1, <1>k
    <3>3. (IF x.owner \in D /\ x.flag = "RIDDEN" THEN Free(x) ELSE x) = IF e \in L THEN Free(e) ELSE e
      BY <2>1, <1>b, <1>f, <1>n
    <3> QED BY <3>2, <3>3
  <2>3. ASSUME NEW g \in k.entities
        PROVE  \E e \in m.entities : g = IF e \in L THEN Free(e) ELSE e
    <3>1. PICK x \in d.entities : g = IF x.owner \in D /\ x.flag = "RIDDEN" THEN Free(x) ELSE x
      BY <1>k
    <3>2. PICK e \in m.entities : x = IF e.owner \in D /\ e.flag = "HELD" THEN Free(e) ELSE e
      BY <1>d
    <3>3. g = IF e \in L THEN Free(e) ELSE e
      BY <2>1, <1>b, <1>f, <1>n, <3>1, <3>2
    <3> QED BY <3>3
  <2> QED BY <2>2, <2>3 DEF Left
<1>s. \A s \in Slot :
        /\ spr2[s] \in Sprites
        /\ spr2[s].type = spr[s].type /\ spr2[s].egg = spr[s].egg
        /\ spr2[s].status =
             IF \E e \in m.entities : /\ e.slot = s /\ e.owner \in D /\ e.flag = "HELD"
                                      /\ spr[s].status = "carried"
               THEN "alive" ELSE spr[s].status
        /\ \/ spr2[s].sat = spr[s].sat
           \/ /\ ~spr2[s].sat
              /\ \E e \in m.entities : e.slot = s /\ e.owner \in D /\ e.flag = "RIDDEN"
  <2> SUFFICES ASSUME NEW s \in Slot
               PROVE  /\ spr2[s] \in Sprites
                      /\ spr2[s].type = spr[s].type /\ spr2[s].egg = spr[s].egg
                      /\ spr2[s].status =
                           IF \E e \in m.entities : /\ e.slot = s /\ e.owner \in D /\ e.flag = "HELD"
                                                    /\ spr[s].status = "carried"
                             THEN "alive" ELSE spr[s].status
                      /\ \/ spr2[s].sat = spr[s].sat
                         \/ /\ ~spr2[s].sat
                            /\ \E e \in m.entities : e.slot = s /\ e.owner \in D /\ e.flag = "RIDDEN"
    OBVIOUS
  <2> DEFINE P == \E e \in m.entities : /\ e.slot = s /\ e.owner \in D /\ e.flag = "HELD"
                                        /\ spr[s].status = "carried"
             Q == \E e \in m.entities : e.slot = s /\ e.owner \in D /\ e.flag = "RIDDEN"
  <2>1. spr1[s] = IF P THEN [spr[s] EXCEPT !.status = "alive"] ELSE spr[s]
    BY DEF SetDown, At
  <2>2. spr2[s] = [spr1[s] EXCEPT !.sat = @ /\ ~Q]
    BY DEF Stand, At
  <2> HIDE DEF P, Q, spr1, spr2
  <2>3. /\ spr1[s] \in Sprites
        /\ spr1[s].type = spr[s].type /\ spr1[s].egg = spr[s].egg /\ spr1[s].sat = spr[s].sat
        /\ spr1[s].status = IF P THEN "alive" ELSE spr[s].status
    BY <2>1, <1>m DEF Sprites
  <2>4. CASE Q
    <3>1. spr2[s] = [spr1[s] EXCEPT !.sat = FALSE]
      BY <2>2, <2>4
    <3>2. /\ spr2[s] \in Sprites
          /\ spr2[s].type = spr1[s].type /\ spr2[s].egg = spr1[s].egg /\ ~spr2[s].sat
          /\ spr2[s].status = spr1[s].status
      BY <3>1, <2>3 DEF Sprites
    <3> QED BY <2>3, <2>4, <3>2 DEF P, Q
  <2>5. CASE ~Q
    <3>1. spr2[s] = [spr1[s] EXCEPT !.sat = spr1[s].sat]
      BY <2>2, <2>3, <2>5 DEF Sprites
    <3>2. /\ spr2[s] \in Sprites
          /\ spr2[s].type = spr1[s].type /\ spr2[s].egg = spr1[s].egg /\ spr2[s].sat = spr1[s].sat
          /\ spr2[s].status = spr1[s].status
      BY <3>1, <2>3 DEF Sprites
    <3> QED BY <2>3, <3>2 DEF P
  <2> QED BY <2>4, <2>5
<1>t. spr2 = [s \in Slot |-> spr2[s]]
  BY DEF Stand
<1> HIDE DEF spr2, spr1, L
<1>2. spr2 \in [Slot -> Sprites]
  BY <1>s, <1>t
<1>3. off \in BOOLEAN /\ (off <=> TRUE)
  OBVIOUS
<1> HIDE DEF off
<1>4. \A s \in Slot :
        \/ spr2[s].sat = spr[s].sat
        \/ /\ ~spr2[s].sat /\ off
           /\ \E e \in m.entities : e.slot = s /\ e.owner \in D /\ e.flag = "RIDDEN"
  BY <1>s, <1>3
<1>5. \A s \in Slot :
       /\ spr2[s].type = spr[s].type /\ spr2[s].egg = spr[s].egg
       /\ spr2[s].status = IF \E e \in m.entities : /\ e.slot = s /\ e.owner \in D /\ e.flag = "HELD"
                                                     /\ spr[s].status = "carried"
                             THEN "alive" ELSE spr[s].status
  BY <1>s
<1>6. /\ \A p \in Player : k.held[p] = IF p \in D THEN NoId ELSE m.held[p]
      /\ \A p \in Player : k.mount[p] = IF off /\ p \in D THEN NoId ELSE m.mount[p]
  BY <1>d, <1>k, <1>3
<1>7. Loses(m, spr, D, off, k, spr2)
  BY <1>d, <1>k, <1>e, <1>2, <1>3, <1>4, <1>5, <1>6 DEF Loses, L
<1>8. /\ Sound(k, spr2)
      /\ Linked(m) => Linked(k)
      /\ Mounts(spr2) = Mounts(spr)
  BY <1>7, LossSound
<1>9. ASSUME NEW p \in Player \ D, NEW s \in Slot
      PROVE  (\E e \in At(k, s) : e.owner = p /\ e.flag = "HELD")
               <=> (\E e \in At(m, s) : e.owner = p /\ e.flag = "HELD")
  <2>1. \A e \in m.entities : e \in L => e.owner \in D
    BY DEF L, Losing
  <2>2. p # NoOne /\ p \notin D
    BY DEF Player, NoOne
  <2>3. ASSUME NEW e \in m.entities, e.slot = s, e.owner = p, e.flag = "HELD"
        PROVE  e \in k.entities
    BY <2>1, <2>2, <2>3, <1>e DEF Left
  <2>4. ASSUME NEW e \in k.entities, e.slot = s, e.owner = p, e.flag = "HELD"
        PROVE  e \in m.entities
    <3>1. PICK g \in m.entities : e = IF g \in L THEN Free(g) ELSE g
      BY <1>e DEF Left
    <3>2. g \notin L
      BY <3>1, <2>2, <2>4, <1>b, <1>f
    <3> QED BY <3>1, <3>2
  <2> QED BY <2>3, <2>4 DEF At
<1>10. \A p \in Player : k.mount[p] = IF p \in D THEN NoId ELSE m.mount[p]
  BY <1>6, <1>3
<1>11. k.next = m.next /\ k.placed = m.placed /\ k.stored = m.stored /\ k.uses = m.uses
  BY <1>d, <1>k
<1> QED BY <1>5, <1>8, <1>9, <1>10, <1>11 DEF k, d, spr1, spr2
-----------------------------------------------------------------------------
(* Counting mounts.                                                        *)

(* The mounts and the stored mounts can be counted.                        *)
LEMMA Counts ==
  ASSUME RoomAssumption, NEW spr, NEW m
  PROVE  /\ IsFiniteSet(Mounts(spr)) /\ Cardinality(Mounts(spr)) \in Nat
         /\ IsFiniteSet(StoredBy(m)) /\ Cardinality(StoredBy(m)) \in Nat
         /\ Cardinality({}) = 0 /\ Cardinality(StoredBy(m)) <= PlayerCount
<1>1. IsFiniteSet(Slot) /\ IsFiniteSet(Player) /\ Cardinality(Player) = PlayerCount
  BY FS_Interval DEF Slot, Player, RoomAssumption
<1>2. Mounts(spr) \in SUBSET Slot /\ StoredBy(m) \in SUBSET Player
  BY DEF Mounts, StoredBy
<1> HIDE DEF Slot, Player
<1>3. IsFiniteSet(Mounts(spr)) /\ IsFiniteSet(StoredBy(m))
      /\ Cardinality(StoredBy(m)) <= PlayerCount
  BY <1>1, <1>2, FS_Subset
<1> QED BY <1>3, FS_CardinalityType, FS_EmptySet

(* No step exceeds the cap that adds neither a mount nor a stored one.     *)
LEMMA CapKept ==
  ASSUME RoomAssumption, NEW m, NEW spr, NEW k, NEW spr2, Capped(m, spr),
         k.stored = m.stored, Mounts(spr2) \subseteq Mounts(spr)
  PROVE  Capped(k, spr2)
<1>1. Cardinality(Mounts(spr2)) <= Cardinality(Mounts(spr))
  BY Counts, FS_Subset
<1>2. StoredBy(k) = StoredBy(m)
  BY DEF StoredBy
<1>3. /\ Cardinality(Mounts(spr)) \in Nat /\ Cardinality(Mounts(spr2)) \in Nat
      /\ Cardinality(StoredBy(m)) \in Nat
  BY Counts
<1> QED BY <1>1, <1>2, <1>3 DEF Capped, RoomAssumption

(* Where an egg may be laid there is room for one more mount.              *)
LEMMA CapFilled ==
  ASSUME RoomAssumption, NEW spr, NEW k, NEW spr2, NEW s, RoomFor(spr, s), StoredBy(k) = {},
         Mounts(spr2) \subseteq Mounts(spr) \cup {s}
  PROVE  Capped(k, spr2)
<1> DEFINE M == Mounts(spr) \ {s}
<1>1. IsFiniteSet(M) /\ Cardinality(M) \in Nat
  BY Counts, FS_RemoveElement, FS_CardinalityType
<1>2. Cardinality(M) < PlayerCount
  BY DEF RoomFor
<1>3. Mounts(spr2) \in SUBSET (M \cup {s})
  OBVIOUS
<1> HIDE DEF M
<1>4. IsFiniteSet(M \cup {s}) /\ Cardinality(M \cup {s}) <= Cardinality(M) + 1
      /\ Cardinality(M \cup {s}) \in Nat
  BY <1>1, FS_AddElement, FS_CardinalityType
<1>5. Cardinality(Mounts(spr2)) <= Cardinality(M \cup {s})
  BY <1>3, <1>4, FS_Subset
<1>6. Cardinality(Mounts(spr2)) \in Nat /\ Cardinality(StoredBy(k)) = 0
  BY Counts
<1> QED BY <1>1, <1>2, <1>4, <1>5, <1>6 DEF Capped, RoomAssumption

-----------------------------------------------------------------------------
(* The guest's level frame.                                                *)

(* What a step inside a frame has to show.                                 *)
LEMMA FrameStep ==
  ASSUME EntityInv, phase = "frame", UNCHANGED <<life, outcome, allowed, room, phase>>,
         Sound(machine', sprite'), Linked(machine) => Linked(machine'),
         Capped(machine', sprite'), machine'.stored = machine.stored,
         granted' \in Nat, granted' <= machine'.placed.uses,
         riding' \in [Player -> BOOLEAN],
         \A p \in Player : riding'[p] => machine'.mount[p] # NoId,
         ~allowed => /\ \A s \in Slot : sprite'[s].type \notin {"egg", "baby", "yoshi"}
                     /\ ~machine'.placed.known,
         aborted' = FALSE
  PROVE  EntityInv'
<1>1. Settings'
  BY DEF EntityInv, Settings
<1>2. Riders' /\ Cleaned' /\ Swept'
  BY DEF EntityInv, Riders, Cleaned, Swept
<1>3. Barred'
  BY DEF EntityInv, Barred, StoredBy
<1> QED BY <1>1, <1>2, <1>3 DEF EntityInv

(* A frame begins: adapter and machine agree.                              *)
LEMMA BeginFrameKeeps ==
  ASSUME EntityInv, BeginFrame PROVE EntityInv'
BY DEF EntityInv, BeginFrame, Settings, Riders, Cleaned, Swept, Barred

(* A sprite vanishes by itself.                                            *)
LEMMA VanishKeeps ==
  ASSUME EntityInv, NEW s \in Slot, Vanish(s) PROVE EntityInv'
<1> USE DEF Vanish, setting
<1>m. machine \in Machines /\ sprite \in [Slot -> Sprites] /\ RoomAssumption
  BY DEF EntityInv, Sound
<1>e. Empty \in Sprites /\ Made(Empty) /\ Empty.status = "none" /\ Empty.type = "none" /\ Empty.egg = "none"
  BY DEF Empty, Sprites, Made
<1>1. sprite' \in [Slot -> Sprites] /\ sprite'[s] = Empty
      /\ \A r \in Slot : r # s => sprite'[r] = sprite[r]
  BY <1>m, <1>e
<1>2. \A e \in machine.entities : e.slot \in Slot
  BY <1>m DEF Machines, Record
<1>3. Matched(machine, sprite')
  BY <1>e, <1>1, <1>2 DEF EntityInv, Sound, Matched
<1>4. CarriedOwned(machine, sprite')
  BY <1>e, <1>1 DEF EntityInv, Sound, CarriedOwned
<1>5. Granting(machine, sprite')
  BY <1>e, <1>1, <1>2 DEF EntityInv, Sound, Granting
<1>6. Sound(machine', sprite')
  BY <1>1, <1>3, <1>4, <1>5, <1>e DEF EntityInv, Sound
<1>7. Capped(machine', sprite')
  <2>1. Mounts(sprite') \subseteq Mounts(sprite)
    BY <1>1, <1>e DEF Mounts
  <2> QED BY <2>1, <1>m, CapKept DEF EntityInv
<1>8. ~allowed => /\ \A r \in Slot : sprite'[r].type \notin {"egg", "baby", "yoshi"}
                  /\ ~machine'.placed.known
  BY <1>1, <1>e DEF EntityInv, Barred
<1> QED BY <1>6, <1>7, <1>8, FrameStep DEF EntityInv, Settings, Riders

(* Something appears in an empty slot.                                     *)
LEMMA RunEmptyKeeps ==
  ASSUME EntityInv, NEW s \in Slot, RunEmpty(s) PROVE EntityInv'
<1> USE DEF RunEmpty, setting
<1>m. machine \in Machines /\ sprite \in [Slot -> Sprites] /\ RoomAssumption
  BY DEF EntityInv, Sound
<1> DEFINE E == At(machine, s)
<1>1. E \in SUBSET machine.entities /\ \A e \in E : sprite[e.slot].status # "carried" /\ e.slot = s
  BY DEF At
<1> HIDE DEF E
<1>2. /\ machine' = Forget(machine, E) /\ machine'.stored = machine.stored
      /\ machine'.placed.known = machine.placed.known
      /\ machine'.placed.uses = machine.placed.uses
      /\ \A p \in Player : machine'.mount[p] =
                             IF machine.mount[p] \in Ids(E) THEN NoId ELSE machine.mount[p]
  BY <1>m, ForgetFields DEF E
<1>3. Sound(machine', sprite') /\ (Linked(machine) => Linked(machine'))
  <2>1. \A r \in Slot : sprite'[r] = sprite[r] \/ sprite'[r] = Empty
    OBVIOUS
  <2>2. \A e \in machine.entities \ E : sprite'[e.slot] = sprite[e.slot]
    OBVIOUS
  <2> QED BY <1>m, <1>1, <1>2, <2>1, <2>2, ForgetSound DEF EntityInv
<1>4. Capped(machine', sprite')
  BY <1>m, <1>2, CapKept DEF EntityInv
<1>5. \A p \in Player : machine'.mount[p] = machine.mount[p]
  <2> SUFFICES ASSUME NEW p \in Player, machine.mount[p] # NoId PROVE machine.mount[p] \notin Ids(E)
    BY <1>2
  <2>1. PICK e \in machine.entities : e.id = machine.mount[p] /\ e.flag = "RIDDEN"
    BY DEF EntityInv, Sound, MountKnown
  <2>2. sprite[e.slot].status = "alive"
    BY <2>1 DEF EntityInv, Sound, Matched
  <2> QED BY <1>1, <2>1, <2>2 DEF EntityInv, Sound, Distinct, Ids
<1>6. \A p \in Player : riding'[p] => machine'.mount[p] # NoId
  BY <1>5 DEF EntityInv, Riders
<1>7. ~allowed => /\ \A r \in Slot : sprite'[r].type \notin {"egg", "baby", "yoshi"}
                  /\ ~machine'.placed.known
  BY <1>2 DEF EntityInv, Barred
<1> QED BY <1>2, <1>3, <1>4, <1>6, <1>7, FrameStep DEF EntityInv, Settings

(* Nobody's mount is lost with a slot that no rider sits on.               *)
LEMMA UnriddenMounts ==
  ASSUME NEW m, NEW spr, Sound(m, spr), NEW E \in SUBSET m.entities, \A e \in E : e.flag # "RIDDEN",
         NEW p \in Player, m.mount[p] # NoId
  PROVE  m.mount[p] \notin Ids(E)
<1>1. PICK x \in m.entities : x.id = m.mount[p] /\ x.flag = "RIDDEN"
  BY DEF Sound, MountKnown
<1> QED BY <1>1 DEF Sound, Distinct, Ids

(* A spawn takes nobody's mount where no ridden one was.                   *)
LEMMA SpawnMounts ==
  ASSUME RoomAssumption, NEW m, NEW spr, Sound(m, spr), NEW s \in Slot, NEW t,
         \A e \in At(m, s) : e.flag # "RIDDEN"
  PROVE  \A p \in Player : Spawn(m, s, t).mount[p] = m.mount[p]
<1> DEFINE f == Forget(m, At(m, s))
           E == f.entities \cup {Entity(m, s, t)}
           n == f.next + 1
<1>m. m \in Machines
  BY DEF Sound
<1>1. f \in Machines
      /\ \A p \in Player : f.mount[p] = IF m.mount[p] \in Ids(At(m, s)) THEN NoId ELSE m.mount[p]
  BY <1>m, ForgetFields
<1>2. At(m, s) \in SUBSET m.entities
  BY DEF At
<1>3. Spawn(m, s, t) = [f EXCEPT !.entities = E, !.next = n]
  BY DEF Spawn
<1> HIDE DEF f, E, n
<1>4. Spawn(m, s, t).mount = f.mount
  BY <1>1, <1>3 DEF Machines
<1>5. \A p \in Player : m.mount[p] # NoId => m.mount[p] \notin Ids(At(m, s))
  BY <1>2, UnriddenMounts
<1> QED BY <1>1, <1>4, <1>5

(* Only a living Yoshi is ridden.                                          *)
LEMMA EmptyUnridden ==
  ASSUME NEW m, NEW spr, Sound(m, spr), NEW s \in Slot,
         spr[s].status # "alive" \/ spr[s].type # "yoshi"
  PROVE  \A e \in At(m, s) : e.flag # "RIDDEN"
<1>1. \A e \in m.entities : e.flag = "RIDDEN" => spr[e.slot].status = "alive" /\ spr[e.slot].type = "yoshi"
  BY DEF Sound, Matched
<1> QED BY <1>1 DEF At

(* A sprite in another status.                                             *)
LEMMA SpriteTaken ==
  ASSUME NEW a, NEW b, NEW t, NEW g
  PROVE  [Sprite(a, t, g) EXCEPT !.status = b] = Sprite(b, t, g)
<1> DEFINE R == [status : {a, b}, type : {t}, sat : {FALSE}, egg : {g}]
           x == Sprite(a, t, g)
           y == Sprite(b, t, g)
<1>1. x \in R /\ y \in R /\ x.type = y.type /\ x.sat = y.sat /\ x.egg = y.egg /\ y.status = b
  BY DEF Sprite
<1> HIDE DEF x, y
<1>2. [x EXCEPT !.status = b] = y
  BY <1>1
<1> QED BY <1>2 DEF x, y

(* The sprites the guest makes are well formed.                            *)
LEMMA SpriteMade ==
  ASSUME NEW t \in Types, NEW st \in {"init", "alive", "carried"}, NEW g,
         g \in {"waiting", "mount", "other"} <=> t = "egg", t # "egg" => g = "none",
         st = "carried" => t \in {"thing", "baby", "balloon"}
  PROVE  /\ Sprite(st, t, g) \in Sprites /\ Made(Sprite(st, t, g))
         /\ Sprite(st, t, g).status = st /\ Sprite(st, t, g).type = t /\ Sprite(st, t, g).egg = g
BY DEF Sprite, Sprites, Made, Types

(* A room without an egg, a Yoshi or a baby keeps none.                    *)
LEMMA CreateKeeps ==
  ASSUME EntityInv, NEW s \in Slot, NEW t \in Things, NEW p \in Player \cup {NoOne}, Create(s, t, p)
  PROVE  EntityInv'
<1> USE DEF Create, setting
<1>m. machine \in Machines /\ sprite \in [Slot -> Sprites] /\ RoomAssumption /\ Sound(machine, sprite)
  BY DEF EntityInv, Sound
<1>t. t \in {"thing", "balloon"} /\ t \in Types
  BY <1>m DEF RoomAssumption, Types
<1>n. machine.next <= MaxId
  BY <1>m DEF Can, Machines, RoomAssumption
<1> DEFINE m == Spawn(machine, s, t)
           x == Sprite("alive", t, "none")
           spr == [sprite EXCEPT ![s] = x]
<1>x. x \in Sprites /\ Made(x) /\ x.status = "alive" /\ x.type = t /\ x.egg = "none"
  BY <1>t, SpriteMade
<1>p. spr \in [Slot -> Sprites] /\ spr[s] = x /\ \A r \in Slot : r # s => spr[r] = sprite[r]
  BY <1>m, <1>x
<1> HIDE DEF x
<1>1. /\ Sound(m, spr)
      /\ Linked(machine) => Linked(m)
      /\ Entity(machine, s, t) \in m.entities /\ In(m, s) = Entity(machine, s, t)
      /\ m.stored = machine.stored /\ m.placed.known = machine.placed.known
      /\ m.placed.uses = machine.placed.uses
      /\ \A q \in Player : m.held[q] \in {machine.held[q], NoId}
  <2> HIDE DEF spr
  <2> QED BY <1>m, <1>t, <1>n, <1>x, <1>p, SpawnSound
<1>2. \A q \in Player : m.mount[q] = machine.mount[q]
  BY <1>m, SpawnMounts, EmptyUnridden
<1>3. \A sp : (sp \in [Slot -> Sprites] /\ sp[s].type = t /\ sp[s].egg = "none" /\
               \A r \in Slot : r # s => sp[r] = sprite[r])
        => /\ Mounts(sp) \subseteq Mounts(sprite)
           /\ ~allowed => \A r \in Slot : sp[r].type \notin {"egg", "baby", "yoshi"}
  BY <1>t DEF Mounts, EntityInv, Barred
<1>4. CASE p = NoOne
  <2>1. machine' = m /\ sprite' = spr /\ aborted' = aborted
    BY <1>4 DEF x
  <2>2. Mounts(sprite') \subseteq Mounts(sprite)
        /\ (~allowed => \A r \in Slot : sprite'[r].type \notin {"egg", "baby", "yoshi"})
    BY <1>3, <1>p, <1>x, <2>1
  <2> HIDE DEF m, spr
  <2>3. Capped(machine', sprite')
    BY <2>1, <2>2, <1>1, <1>m, CapKept DEF EntityInv
  <2>4. \A q \in Player : riding'[q] => machine'.mount[q] # NoId
    BY <2>1, <1>2 DEF EntityInv, Riders
  <2>5. ~allowed => ~machine'.placed.known
    BY <2>1, <1>1 DEF EntityInv, Barred
  <2> QED BY <2>1, <2>2, <2>3, <2>4, <2>5, <1>1, FrameStep DEF EntityInv, Settings
<1>5. CASE p # NoOne
  <2> DEFINE e == In(m, s)
  <2>0. e = Entity(machine, s, t) /\ e \in m.entities
    BY <1>1
  <2>1. machine' = Claim(m, e, p) /\ aborted' = (aborted \/ ClaimFails(m, e, p)) /\ p \in Player
        /\ machine.held[p] = NoId
    BY <1>5
  <2>2. e.flag = "none" /\ e.slot = s /\ e.type = t
    BY <2>0 DEF Entity
  <2> HIDE DEF e, m
  <2>3. WithStatus(spr, s, "carried") = sprite'
    <3>1. sprite' = [sprite EXCEPT ![s] = Sprite("carried", t, "none")]
      BY <1>5
    <3>2. [x EXCEPT !.status = "carried"] = Sprite("carried", t, "none")
      BY SpriteTaken DEF x
    <3> HIDE DEF x
    <3> DEFINE y == Sprite("carried", t, "none")
    <3> HIDE DEF y
    <3>3. [x EXCEPT !.status = "carried"] = y /\ sprite' = [sprite EXCEPT ![s] = y]
      BY <3>1, <3>2 DEF y
    <3>4. [spr EXCEPT ![s].status = "carried"] = [spr EXCEPT ![s] = [x EXCEPT !.status = "carried"]]
      BY <1>p
    <3> QED BY <3>3, <3>4, <1>m DEF WithStatus
  <2>4. m.held[p] = NoId
    BY <1>1, <2>1
  <2>s. spr[e.slot].status = "alive" /\ e.type \in {"thing", "baby", "balloon"}
    BY <2>2, <1>p, <1>x, <1>t
  <2> HIDE DEF spr
  <2>5. /\ Sound(machine', sprite')
        /\ Linked(m) => Linked(machine')
        /\ ~ClaimFails(m, e, p)
        /\ machine'.mount = m.mount /\ machine'.placed = m.placed /\ machine'.stored = m.stored
    <3>1. LET k == Claim(m, e, p)
          IN  /\ Sound(k, WithStatus(spr, e.slot, "carried"))
              /\ Linked(m) => Linked(k)
              /\ ~ClaimFails(m, e, p)
              /\ k.mount = m.mount /\ k.placed = m.placed /\ k.stored = m.stored
      BY <1>m, <1>1, <2>0, <2>1, <2>2, <2>4, <2>s, ClaimSound
    <3> QED BY <3>1, <2>1, <2>2, <2>3
  <2>6. /\ sprite' \in [Slot -> Sprites] /\ sprite'[s].type = t /\ sprite'[s].egg = "none"
        /\ \A r \in Slot : r # s => sprite'[r] = sprite[r]
    <3>1. sprite' = [sprite EXCEPT ![s] = Sprite("carried", t, "none")]
      BY <1>5
    <3> QED BY <3>1, <2>5, <1>m DEF Sound, Sprite
  <2>7. Mounts(sprite') \subseteq Mounts(sprite)
        /\ (~allowed => \A r \in Slot : sprite'[r].type \notin {"egg", "baby", "yoshi"})
    BY <1>3, <2>6
  <2>8. Capped(machine', sprite')
    BY <2>5, <2>7, <1>1, <1>m, CapKept DEF EntityInv
  <2>9. \A q \in Player : riding'[q] => machine'.mount[q] # NoId
    BY <2>5, <1>2 DEF EntityInv, Riders
  <2>10. ~allowed => ~machine'.placed.known
    BY <2>5, <1>1 DEF EntityInv, Barred
  <2> QED BY <1>1, <2>1, <2>5, <2>7, <2>8, <2>9, <2>10, FrameStep DEF EntityInv, Settings
<1> QED BY <1>4, <1>5

(* A sprite is lost in its own update.                                     *)
Without(spr, s) == [spr EXCEPT ![s] = Empty]

(* A sprite that is lost, with its identity.                               *)
LEMMA LostSound ==
  ASSUME RoomAssumption, NEW m, NEW spr, Sound(m, spr), NEW e \in m.entities
  PROVE  LET k == Forget(m, {e})
             spr2 == Without(spr, e.slot)
         IN  /\ Sound(k, spr2)
             /\ Linked(m) => Linked(k)
             /\ Mounts(spr2) \subseteq Mounts(spr)
             /\ \A r \in Slot : spr2[r].type \in {spr[r].type, "none"}
             /\ k.stored = m.stored /\ k.placed.known = m.placed.known
             /\ k.placed.uses = m.placed.uses
             /\ \A p \in Player : k.mount[p] = m.mount[p] \/ (p = e.owner /\ e.flag = "RIDDEN")
<1>m. m \in Machines /\ spr \in [Slot -> Sprites] /\ e \in Record
  BY DEF Sound, Machines
<1> DEFINE spr2 == Without(spr, e.slot)
           E == {e}
<1>e. Empty \in Sprites /\ Empty.status = "none" /\ Empty.type = "none" /\ Empty.egg = "none"
  BY DEF Empty, Sprites
<1>1. spr2 \in [Slot -> Sprites] /\ spr2[e.slot] = Empty
      /\ \A r \in Slot : r # e.slot => spr2[r] = spr[r]
  BY <1>m, <1>e DEF Without, Record
<1>2. /\ \A g \in m.entities : g # e => g.slot # e.slot /\ g.slot \in Slot
      /\ e.slot \in Slot
  BY <1>m DEF Sound, Distinct, Machines, Record
<1>3. E \in SUBSET m.entities /\ (\A g \in m.entities \ E : g # e) /\ (\A g \in E : g = e)
  OBVIOUS
<1>i. Ids(E) = {e.id}
  BY DEF Ids
<1> HIDE DEF spr2, E
<1>4. /\ \A s \in Slot : spr2[s] = spr[s] \/ spr2[s] = Empty
      /\ \A g \in m.entities \ E : spr2[g.slot] = spr[g.slot]
      /\ \A g \in E : spr2[g.slot].status # "carried"
  BY <1>1, <1>2, <1>3, <1>e
<1>5. /\ Sound(Forget(m, E), spr2)
      /\ Linked(m) => Linked(Forget(m, E))
  BY <1>1, <1>3, <1>4, ForgetSound
<1>6. Mounts(spr2) \subseteq Mounts(spr)
  BY <1>4, <1>e DEF Mounts
<1>7. \A r \in Slot : spr2[r].type \in {spr[r].type, "none"}
  BY <1>4, <1>e
<1>8. /\ Forget(m, E).stored = m.stored
      /\ Forget(m, E).placed.known = m.placed.known /\ Forget(m, E).placed.uses = m.placed.uses
      /\ \A p \in Player : Forget(m, E).mount[p] = IF m.mount[p] \in Ids(E) THEN NoId ELSE m.mount[p]
  BY <1>m, ForgetFields
<1>9. ASSUME NEW p \in Player
      PROVE  Forget(m, E).mount[p] = m.mount[p] \/ (p = e.owner /\ e.flag = "RIDDEN")
  <2>1. CASE m.mount[p] = NoId
    BY <2>1, <1>8
  <2>2. CASE m.mount[p] # NoId
    <3>1. PICK g \in m.entities : g.id = m.mount[p] /\ g.owner = p /\ g.flag = "RIDDEN"
      BY <2>2 DEF Sound, MountKnown
    <3>2. g.id = e.id => g = e
      BY DEF Sound, Distinct
    <3> QED BY <3>1, <3>2, <1>8, <1>i
  <2> QED BY <2>1, <2>2
<1> QED BY <1>5, <1>6, <1>7, <1>8, <1>9 DEF spr2, E

(* The entity of a slot before its sprite is updated, as every action on a *)
(* sprite begins.                                                          *)
LEMMA Updated ==
  ASSUME EntityInv, NEW s \in Slot, NEW t, sprite[s].type = t, sprite[s].status # "none",
         NEW again \in BOOLEAN, CanRun(s, again)
  PROVE  LET m == Normal(machine, s, t)
             e == In(m, s)
         IN  /\ Sound(m, sprite)
             /\ Linked(machine) => Linked(m)
             /\ Capped(m, sprite)
             /\ e \in m.entities /\ e.slot = s /\ e.type = t
             /\ m.stored = machine.stored /\ m.mount = machine.mount /\ m.held = machine.held
             /\ m.placed.known = machine.placed.known /\ m.placed.uses = machine.placed.uses
             /\ m.placed.egg = machine.placed.egg
             /\ again => m.next <= MaxId
             /\ e.owner = NoOne <=> e.flag = "none"
             /\ e.flag \in Carry => sprite[s].status = "carried"
             /\ e.flag = "RIDDEN" => sprite[s].status = "alive" /\ sprite[s].sat /\ t = "yoshi"
             /\ sprite[s].status = "carried" => e.flag \in Carry
<1>m. machine \in Machines /\ RoomAssumption /\ Sound(machine, sprite)
  BY DEF EntityInv, Sound
<1> DEFINE m == Normal(machine, s, t)
           e == In(m, s)
<1>1. /\ machine.next \in Nat /\ MaxId \in Nat
      /\ At(machine, s) = {} => machine.next <= MaxId
      /\ again => machine.next + (IF At(machine, s) = {} THEN 1 ELSE 0) <= MaxId
  BY <1>m DEF CanRun, Can, Machines, RoomAssumption
<1>2. /\ Sound(m, sprite)
      /\ Linked(machine) => Linked(m)
      /\ e \in m.entities /\ e.slot = s /\ e.type = t
      /\ m.placed.known = machine.placed.known /\ m.placed.uses = machine.placed.uses
      /\ m.placed.egg = machine.placed.egg /\ m.held = machine.held /\ m.mount = machine.mount
      /\ m.stored = machine.stored
      /\ m.next = machine.next + IF At(machine, s) = {} THEN 1 ELSE 0
  BY <1>m, <1>1, NormalSound
<1> HIDE DEF m
<1>3. Capped(m, sprite)
  BY <1>2, <1>m, CapKept DEF EntityInv
<1>4. /\ e.owner = NoOne <=> e.flag = "none"
      /\ e.flag \in Carry => sprite[s].status = "carried"
      /\ e.flag = "RIDDEN" => sprite[s].status = "alive" /\ sprite[s].sat /\ t = "yoshi"
  <2> HIDE DEF e
  <2>1. Ranged(m) /\ Matched(m, sprite)
    BY <1>2 DEF Sound
  <2> QED BY <1>2, <2>1 DEF Ranged, Matched
<1>5. sprite[s].status = "carried" => e.flag \in Carry
  <2> HIDE DEF e
  <2> SUFFICES ASSUME sprite[s].status = "carried" PROVE e.flag \in Carry
    OBVIOUS
  <2>1. PICK g \in m.entities : g.slot = s /\ g.flag \in Carry
    BY <1>2 DEF Sound, CarriedOwned
  <2>2. g = e
    BY <1>2, <2>1 DEF Sound, Distinct
  <2> QED BY <2>1, <2>2
<1> HIDE DEF e
<1>6. again => m.next <= MaxId
  BY <1>1, <1>2
<1> QED BY <1>2, <1>3, <1>4, <1>5, <1>6 DEF m, e

(* A player picks a sprite up.                                             *)
LEMMA PickKeeps ==
  ASSUME EntityInv, NEW s \in Slot, NEW p \in Player, Pick(s, p) PROVE EntityInv'
<1> USE DEF Pick, setting
<1>r. RoomAssumption /\ sprite \in [Slot -> Sprites]
  BY DEF EntityInv, Sound
<1> DEFINE t == sprite[s].type
           m == Normal(machine, s, t)
           e == In(m, s)
<1>t. t \in {"thing", "balloon", "baby"}
  BY <1>r DEF RoomAssumption
<1>1. /\ machine' = Claim(m, e, p) /\ aborted' = (aborted \/ ClaimFails(m, e, p))
      /\ sprite' = WithStatus(sprite, s, "carried") /\ sprite[s].status = "alive"
      /\ t # "balloon" => machine.held[p] = NoId
      /\ phase = "frame" /\ UNCHANGED <<riding, life, outcome, allowed, room, phase, granted>>
      /\ CanRun(s, FALSE)
  BY DEF WithStatus
<1> HIDE DEF Pick, setting
<1>2. /\ Sound(m, sprite)
      /\ Linked(machine) => Linked(m)
      /\ Capped(m, sprite)
      /\ e \in m.entities /\ e.slot = s /\ e.type = t
      /\ m.stored = machine.stored /\ m.mount = machine.mount /\ m.held = machine.held
      /\ m.placed.known = machine.placed.known /\ m.placed.uses = machine.placed.uses
      /\ e.owner = NoOne <=> e.flag = "none"
      /\ e.flag \in Carry => sprite[s].status = "carried"
      /\ e.flag = "RIDDEN" => sprite[s].status = "alive" /\ sprite[s].sat /\ t = "yoshi"
  <2> DEFINE again == FALSE
  <2>1. CanRun(s, again) /\ again \in BOOLEAN /\ sprite[s].status # "none" /\ sprite[s].type = t
    BY <1>1
  <2> HIDE DEF t, again
  <2> QED BY <2>1, Updated
<1> HIDE DEF t, m, e
<1>3. e \in Record
  BY <1>2 DEF Sound, Machines
<1>4. e.flag = "none"
  BY <1>1, <1>2, <1>3, <1>t DEF Carry, Record, Flags
<1>5. /\ Sound(machine', sprite')
      /\ Linked(m) => Linked(machine')
      /\ ~ClaimFails(m, e, p)
      /\ machine'.mount = m.mount /\ machine'.placed = m.placed /\ machine'.stored = m.stored
  <2>1. /\ sprite[e.slot].status = "alive" /\ e.type \in {"thing", "baby", "balloon"}
        /\ e.type # "balloon" => m.held[p] = NoId
    BY <1>1, <1>2, <1>t
  <2>2. LET k == Claim(m, e, p)
        IN  /\ Sound(k, WithStatus(sprite, e.slot, "carried"))
            /\ Linked(m) => Linked(k)
            /\ ~ClaimFails(m, e, p)
            /\ k.mount = m.mount /\ k.placed = m.placed /\ k.stored = m.stored
    BY <1>r, <1>2, <1>4, <2>1, ClaimSound
  <2> QED BY <2>2, <1>1, <1>2
<1>6. Mounts(sprite') \subseteq Mounts(sprite)
      /\ \A r \in Slot : sprite'[r].type = sprite[r].type
  <2>1. \A r \in Slot : /\ sprite'[r].type = sprite[r].type /\ sprite'[r].egg = sprite[r].egg
                        /\ sprite'[r].status # "none" <=> sprite[r].status # "none"
    BY <1>1, <1>r DEF WithStatus, Sprites
  <2> QED BY <2>1 DEF Mounts
<1>7. Capped(machine', sprite')
  BY <1>1, <1>2, <1>5, <1>6, <1>r, CapKept
<1>8. \A q \in Player : riding'[q] => machine'.mount[q] # NoId
  BY <1>1, <1>2, <1>5 DEF EntityInv, Riders
<1>9. ~allowed => /\ \A r \in Slot : sprite'[r].type \notin {"egg", "baby", "yoshi"}
                  /\ ~machine'.placed.known
  BY <1>1, <1>2, <1>5, <1>6 DEF EntityInv, Barred
<1>10. Sound(machine', sprite') /\ (Linked(machine) => Linked(machine'))
       /\ machine'.stored = machine.stored /\ machine'.placed.uses = machine.placed.uses
       /\ aborted' = FALSE
  BY <1>1, <1>2, <1>5 DEF EntityInv
<1> QED BY <1>1, <1>7, <1>8, <1>9, <1>10, FrameStep DEF EntityInv, Settings

(* A thing in a player's hands is run.                                     *)
LEMMA RunThingKeeps ==
  ASSUME EntityInv, NEW s \in Slot, NEW fate, RunThing(s, fate) PROVE EntityInv'
<1>r. RoomAssumption /\ sprite \in [Slot -> Sprites] /\ \A r \in Slot : sprite[r] \in Sprites
  BY DEF EntityInv, Sound
<1> DEFINE t == sprite[s].type
           m == Normal(machine, s, t)
           e == In(m, s)
           again == (fate = "grow")
<1>1. /\ phase = "frame" /\ UNCHANGED <<riding, life, outcome, allowed, room, phase, granted>>
      /\ sprite[s].status # "none" /\ t \in Things \cup {"thing", "baby"} /\ CanRun(s, again)
      /\ aborted' = (aborted \/ (sprite[s].status = "carried" /\ e.owner = NoOne))
      /\ \/ fate = "stay" /\ machine' = m /\ UNCHANGED sprite
         \/ machine' = Forget(m, {e}) /\ sprite' = Without(sprite, s)
         \/ /\ sprite[s].status = "carried" /\ machine' = Release(m, e)
            /\ sprite' = WithStatus(sprite, s, "alive")
         \/ /\ again /\ t = "baby" /\ machine' = Spawn(m, s, "yoshi")
            /\ sprite' = [sprite EXCEPT ![s] = Sprite("alive", "yoshi", "none")]
  BY DEF RunThing, setting, WithStatus, Without
<1>t. t \in {"thing", "balloon", "baby"}
  BY <1>1, <1>r DEF RoomAssumption
<1>2. /\ Sound(m, sprite)
      /\ Linked(machine) => Linked(m)
      /\ Capped(m, sprite)
      /\ e \in m.entities /\ e.slot = s /\ e.type = t
      /\ m.stored = machine.stored /\ m.mount = machine.mount /\ m.held = machine.held
      /\ m.placed.known = machine.placed.known /\ m.placed.uses = machine.placed.uses
      /\ again => m.next <= MaxId
      /\ e.owner = NoOne <=> e.flag = "none"
      /\ e.flag = "RIDDEN" => sprite[s].status = "alive" /\ sprite[s].sat /\ t = "yoshi"
      /\ sprite[s].status = "carried" => e.flag \in Carry
  <2>1. CanRun(s, again) /\ again \in BOOLEAN /\ sprite[s].status # "none" /\ sprite[s].type = t
    BY <1>1
  <2> HIDE DEF t, again
  <2> QED BY <2>1, Updated
<1> HIDE DEF t, m, e, again
<1>3. e.flag # "RIDDEN" /\ aborted' = FALSE
  BY <1>1, <1>2, <1>t DEF EntityInv, Carry
<1>s. \A q \in Player : machine'.mount[q] = machine.mount[q] =>
        (riding'[q] => machine'.mount[q] # NoId)
  BY <1>1 DEF EntityInv, Riders
(* What the four outcomes have to show.                                    *)
<1> DEFINE Fine == /\ Sound(machine', sprite') /\ (Linked(m) => Linked(machine'))
                   /\ Mounts(sprite') \subseteq Mounts(sprite)
                   /\ \A r \in Slot : sprite'[r].type \in {sprite[r].type, "none"}
                                      \/ (sprite'[r].type = "yoshi" /\ sprite[r].type = "baby")
                   /\ machine'.stored = m.stored /\ machine'.placed.known = m.placed.known
                   /\ machine'.placed.uses = m.placed.uses
                   /\ \A q \in Player : machine'.mount[q] = m.mount[q]
<1>4. ASSUME machine' = m, UNCHANGED sprite PROVE Fine
  BY <1>2, <1>4
<1>5. ASSUME machine' = Forget(m, {e}), sprite' = Without(sprite, s) PROVE Fine
  <2>1. LET k == Forget(m, {e})
            spr2 == Without(sprite, e.slot)
        IN  /\ Sound(k, spr2)
            /\ Linked(m) => Linked(k)
            /\ Mounts(spr2) \subseteq Mounts(sprite)
            /\ \A r \in Slot : spr2[r].type \in {sprite[r].type, "none"}
            /\ k.stored = m.stored /\ k.placed.known = m.placed.known
            /\ k.placed.uses = m.placed.uses
            /\ \A p \in Player : k.mount[p] = m.mount[p] \/ (p = e.owner /\ e.flag = "RIDDEN")
    BY <1>r, <1>2, LostSound
  <2> QED BY <1>2, <1>3, <1>5, <2>1
<1>6. ASSUME machine' = Release(m, e), sprite' = WithStatus(sprite, s, "alive"),
             sprite[s].status = "carried"
      PROVE Fine
  <2>1. LET k == Release(m, e)
        IN  /\ Sound(k, WithStatus(sprite, e.slot, "alive"))
            /\ Linked(m) => Linked(k)
            /\ e.owner # NoOne
            /\ k.mount = m.mount /\ k.placed = m.placed /\ k.stored = m.stored
    BY <1>r, <1>2, <1>6, ReleaseSound
  <2>2. \A r \in Slot : /\ sprite'[r].type = sprite[r].type /\ sprite'[r].egg = sprite[r].egg
                        /\ sprite'[r].status # "none" <=> sprite[r].status # "none"
    BY <1>6, <1>r DEF WithStatus, Sprites
  <2>3. Mounts(sprite') \subseteq Mounts(sprite)
    BY <2>2 DEF Mounts
  <2> QED BY <1>2, <1>6, <2>1, <2>2, <2>3
<1>7. ASSUME again, t = "baby", machine' = Spawn(m, s, "yoshi"),
             sprite' = [sprite EXCEPT ![s] = Sprite("alive", "yoshi", "none")]
      PROVE Fine
  <2> DEFINE x == Sprite("alive", "yoshi", "none")
  <2>1. "yoshi" \in Types /\ x \in Sprites /\ Made(x) /\ x.status = "alive" /\ x.type = "yoshi"
        /\ x.egg = "none"
    <3>1. "yoshi" \in Types /\ "alive" \in {"init", "alive", "carried"}
      BY DEF Types
    <3> QED BY <3>1, SpriteMade
  <2> HIDE DEF x
  <2>2. sprite' \in [Slot -> Sprites] /\ sprite'[s] = x /\ \A r \in Slot : r # s => sprite'[r] = sprite[r]
    BY <1>r, <1>7, <2>1 DEF x
  <2>3. /\ Sound(machine', sprite')
        /\ Linked(m) => Linked(machine')
        /\ machine'.stored = m.stored
        /\ machine'.placed.known = m.placed.known /\ machine'.placed.uses = m.placed.uses
    <3> DEFINE y == "yoshi"
    <3>1. y \in Types /\ sprite'[s].type = y /\ Made(sprite'[s])
          /\ sprite'[s].status \notin {"none", "carried"} /\ machine' = Spawn(m, s, y) /\ m.next <= MaxId
      BY <1>2, <1>7, <2>1, <2>2
    <3> HIDE DEF y
    <3> QED BY <1>r, <1>2, <2>2, <3>1, SpawnSound
  <2>4. \A q \in Player : machine'.mount[q] = m.mount[q]
    <3>1. \A g \in At(m, s) : g.flag # "RIDDEN"
      BY <1>2, <1>7, EmptyUnridden DEF t
    <3> QED BY <1>r, <1>2, <1>7, <3>1, SpawnMounts
  <2>5. Mounts(sprite') \subseteq Mounts(sprite)
    BY <1>1, <1>7, <2>1, <2>2 DEF Mounts, t
  <2>6. \A r \in Slot : sprite'[r].type \in {sprite[r].type, "none"}
                        \/ (sprite'[r].type = "yoshi" /\ sprite[r].type = "baby")
    BY <1>7, <2>1, <2>2 DEF t
  <2> QED BY <2>3, <2>4, <2>5, <2>6
<1>8. Fine
  BY <1>1, <1>4, <1>5, <1>6, <1>7
<1>9. Capped(machine', sprite')
  BY <1>2, <1>8, <1>r, CapKept
<1>10. \A q \in Player : riding'[q] => machine'.mount[q] # NoId
  BY <1>2, <1>8, <1>s
<1>11. ~allowed => /\ \A r \in Slot : sprite'[r].type \notin {"egg", "baby", "yoshi"}
                   /\ ~machine'.placed.known
  <2>1. ASSUME ~allowed
        PROVE  /\ \A r \in Slot : sprite[r].type \notin {"egg", "baby", "yoshi"}
               /\ ~machine.placed.known
    BY <2>1, <1>1 DEF EntityInv, Barred
  <2>2. machine'.placed.known = machine.placed.known
    BY <1>2, <1>8
  <2>3. \A r \in Slot : sprite'[r].type \in {sprite[r].type, "none"}
                        \/ (sprite'[r].type = "yoshi" /\ sprite[r].type = "baby")
    BY <1>8
  <2> QED BY <2>1, <2>2, <2>3
<1>12. /\ Sound(machine', sprite') /\ (Linked(machine) => Linked(machine'))
       /\ machine'.stored = machine.stored /\ machine'.placed.uses = machine.placed.uses
  BY <1>2, <1>8
<1> QED BY <1>1, <1>3, <1>9, <1>10, <1>11, <1>12, FrameStep DEF EntityInv, Settings

(* A Yoshi block makes an egg, with a Yoshi in it or not.                  *)
LEMMA HitBlockKeeps ==
  ASSUME EntityInv, NEW s \in Slot, HitBlock(s) PROVE EntityInv'
<1> DEFINE grant == machine.uses < PlayerCount /\ RoomFor(sprite, s)
           g == IF grant THEN "mount" ELSE "other"
           t == "egg"
           m == Spawn(machine, s, t)
           x == Sprite("alive", t, g)
           u == Use(m.uses)
<1>m. machine \in Machines /\ sprite \in [Slot -> Sprites] /\ RoomAssumption /\ Sound(machine, sprite)
  BY DEF EntityInv, Sound
<1>1. /\ phase = "frame" /\ UNCHANGED <<riding, life, outcome, allowed, room, phase, granted, aborted>>
      /\ allowed /\ sprite[s].status = "none" /\ Can(1)
      /\ sprite' = [sprite EXCEPT ![s] = x] /\ machine' = [m EXCEPT !.uses = u]
  BY DEF HitBlock, setting
<1>n. machine.next <= MaxId
  BY <1>m, <1>1 DEF Can, Machines, RoomAssumption
<1>x. t \in Types /\ x \in Sprites /\ Made(x) /\ x.status = "alive" /\ x.type = t /\ x.egg = g
  <2>1. t \in Types /\ "alive" \in {"init", "alive", "carried"}
        /\ (g \in {"waiting", "mount", "other"} <=> t = "egg")
    BY DEF Types
  <2> HIDE DEF g
  <2> QED BY <2>1, SpriteMade
<1>g. g = "mount" => RoomFor(sprite, s)
  OBVIOUS
<1> HIDE DEF x, g
<1>2. sprite' \in [Slot -> Sprites] /\ sprite'[s] = x /\ \A r \in Slot : r # s => sprite'[r] = sprite[r]
  BY <1>1, <1>x, <1>m
<1>3. /\ Sound(m, sprite')
      /\ Linked(machine) => Linked(m)
      /\ m.stored = machine.stored /\ m.placed.known = machine.placed.known
      /\ m.placed.uses = machine.placed.uses /\ m.uses = machine.uses
  <2>1. sprite'[s].type = t /\ Made(sprite'[s]) /\ sprite'[s].status \notin {"none", "carried"}
    BY <1>x, <1>2
  <2> HIDE DEF t
  <2> QED BY <1>m, <1>n, <1>x, <1>2, <2>1, SpawnSound
<1>4. \A q \in Player : m.mount[q] = machine.mount[q]
  BY <1>m, <1>1, SpawnMounts, EmptyUnridden
<1> HIDE DEF m, u
<1>u. u \in 0 .. PlayerCount
  BY <1>m, <1>3 DEF u, Use, Machines, RoomAssumption
<1>5. /\ machine' \in Machines /\ machine'.entities = m.entities /\ machine'.mount = m.mount
      /\ machine'.held = m.held /\ machine'.stored = m.stored /\ machine'.next = m.next
      /\ machine'.placed = m.placed
  <2>1. m \in Machines
    BY <1>3 DEF Sound
  <2> QED BY ONLY <2>1, <1>1, <1>u DEF Machines
<1>6. Sound(machine', sprite')
  BY <1>3, <1>5 DEF Sound, Ranged, Distinct, EggKnown, HeldKnown, MountKnown, StoredApart, OneMount,
                    Matched, CarriedOwned, Granting
<1>7. Linked(machine) => Linked(machine')
  BY <1>3, <1>5 DEF Linked
<1>8. Mounts(sprite') \subseteq Mounts(sprite) \cup {s}
      /\ (g # "mount" => Mounts(sprite') \subseteq Mounts(sprite))
  BY <1>2, <1>x DEF Mounts
<1>9. Capped(machine', sprite')
  <2>1. CASE g = "mount"
    <3>1. StoredBy(machine') = {}
      BY <1>1, <1>3, <1>5 DEF EntityInv, Barred, StoredBy
    <3> QED BY <1>m, <1>g, <1>8, <2>1, <3>1, CapFilled
  <2>2. CASE g # "mount"
    BY <1>m, <1>3, <1>5, <1>8, <2>2, CapKept DEF EntityInv
  <2> QED BY <2>1, <2>2
<1>10. \A q \in Player : riding'[q] => machine'.mount[q] # NoId
  BY <1>1, <1>4, <1>5 DEF EntityInv, Riders
<1>11. machine'.stored = machine.stored /\ machine'.placed.uses = machine.placed.uses
       /\ aborted' = FALSE
  BY <1>1, <1>3, <1>5 DEF EntityInv
<1> QED BY <1>1, <1>6, <1>7, <1>9, <1>10, <1>11, FrameStep DEF EntityInv, Settings

(* The source's next egg waits: the source has a grant for it.             *)
LEMMA ReplenishKeeps ==
  ASSUME EntityInv, Replenish PROVE EntityInv'
<1>m. machine \in Machines /\ sprite \in [Slot -> Sprites] /\ RoomAssumption /\ Sound(machine, sprite)
  BY DEF EntityInv, Sound
<1>0. PICK s \in Slot :
        /\ sprite[s].status = "none"
        /\ sprite' = [sprite EXCEPT ![s] = Sprite("init", "egg", "waiting")]
        /\ machine' = [Spawn(machine, s, "egg") EXCEPT !.placed.egg = In(Spawn(machine, s, "egg"), s).id]
  BY DEF Replenish
<1> DEFINE t == "egg"
           m == Spawn(machine, s, t)
           e == In(m, s)
           x == Sprite("init", t, "waiting")
<1>1. /\ phase = "frame" /\ UNCHANGED <<riding, life, outcome, allowed, room, phase, granted, aborted>>
      /\ machine.placed.known /\ machine.placed.uses < PlayerCount /\ Can(1)
      /\ outcome = "CONTINUE"
      /\ sprite' = [sprite EXCEPT ![s] = x] /\ machine' = [m EXCEPT !.placed.egg = e.id]
  BY <1>0 DEF Replenish, setting
<1>n. machine.next <= MaxId
  BY <1>m, <1>1 DEF Can, Machines, RoomAssumption
<1>x. t \in Types /\ x \in Sprites /\ Made(x) /\ x.status = "init" /\ x.type = t /\ x.egg = "waiting"
  <2>1. t \in Types /\ "init" \in {"init", "alive", "carried"} /\ "waiting" \in {"waiting", "mount", "other"}
    BY DEF Types
  <2> QED BY <2>1, SpriteMade
<1> HIDE DEF x
<1>2. sprite' \in [Slot -> Sprites] /\ sprite'[s] = x /\ \A r \in Slot : r # s => sprite'[r] = sprite[r]
  BY <1>1, <1>x, <1>m
<1>3. /\ Sound(m, sprite')
      /\ Linked(machine) => Linked(m)
      /\ e \in m.entities /\ e.type = t /\ e.owner = NoOne
      /\ m.stored = machine.stored /\ m.placed.known = machine.placed.known
      /\ m.placed.uses = machine.placed.uses
  <2>1. sprite'[s].type = t /\ Made(sprite'[s]) /\ sprite'[s].status \notin {"none", "carried"}
    BY <1>x, <1>2
  <2>2. Entity(machine, s, t).type = t /\ Entity(machine, s, t).owner = NoOne
    BY DEF Entity
  <2>3. /\ Sound(m, sprite')
        /\ Linked(machine) => Linked(m)
        /\ Entity(machine, s, t) \in m.entities /\ In(m, s) = Entity(machine, s, t)
        /\ m.stored = machine.stored /\ m.placed.known = machine.placed.known
        /\ m.placed.uses = machine.placed.uses
    <3> HIDE DEF t
    <3> QED BY <1>m, <1>n, <1>x, <1>2, <2>1, SpawnSound
  <2> QED BY <2>2, <2>3
<1>4. \A q \in Player : m.mount[q] = machine.mount[q]
  BY <1>m, <1>0, SpawnMounts, EmptyUnridden
<1> HIDE DEF m, e
<1>5. /\ machine' \in Machines /\ machine'.entities = m.entities /\ machine'.mount = m.mount
      /\ machine'.held = m.held /\ machine'.stored = m.stored /\ machine'.next = m.next
      /\ machine'.placed.known = m.placed.known /\ machine'.placed.uses = m.placed.uses
      /\ machine'.placed.egg = e.id
  <2>1. m \in Machines /\ e.id \in Id
    BY <1>3 DEF Sound, Machines, Record
  <2> QED BY ONLY <2>1, <1>1 DEF Machines, Source
<1>6. EggKnown(machine')
  BY <1>3, <1>5 DEF EggKnown
<1>7. Granting(machine', sprite')
  BY <1>1, <1>3, <1>5 DEF Granting, Sound
<1>8. Sound(machine', sprite')
  BY <1>3, <1>5, <1>6, <1>7 DEF Sound, Ranged, Distinct, HeldKnown, MountKnown, StoredApart, OneMount,
                    Matched, CarriedOwned
<1>9. Linked(machine) => Linked(machine')
  BY <1>3, <1>5 DEF Linked
<1>10. Capped(machine', sprite')
  <2>1. Mounts(sprite') \subseteq Mounts(sprite)
    BY <1>2, <1>x DEF Mounts
  <2> QED BY <1>m, <1>3, <1>5, <2>1, CapKept DEF EntityInv
<1>11. \A q \in Player : riding'[q] => machine'.mount[q] # NoId
  BY <1>1, <1>4, <1>5 DEF EntityInv, Riders
<1>12. machine'.stored = machine.stored /\ machine'.placed.uses = machine.placed.uses
       /\ aborted' = FALSE
  BY <1>1, <1>3, <1>5 DEF EntityInv
<1>13. allowed
  BY <1>1 DEF EntityInv, Barred
<1> QED BY <1>1, <1>8, <1>9, <1>10, <1>11, <1>12, <1>13, FrameStep DEF EntityInv, Settings

(* An egg waits for a grant, starts to hatch with one, or opens.           *)
LEMMA RunEggKeeps ==
  ASSUME EntityInv, NEW s \in Slot, NEW fate, RunEgg(s, fate) PROVE EntityInv'
<1>r. RoomAssumption /\ sprite \in [Slot -> Sprites] /\ \A r \in Slot : sprite[r] \in Sprites
  BY DEF EntityInv, Sound
<1> DEFINE t == "egg"
           m == Normal(machine, s, t)
           e == In(m, s)
           again == (fate = "open")
           waiting == sprite[s].egg = "waiting"
           k == IF waiting THEN [m EXCEPT !.placed.known = TRUE, !.placed.egg = e.id] ELSE m
           content == IF RoomFor(sprite, s) THEN "mount" ELSE "other"
           born == IF sprite[s].egg = "other" THEN "thing"
                   ELSE IF m.placed.egg = e.id THEN "baby" ELSE "yoshi"
<1>1. /\ phase = "frame" /\ UNCHANGED <<riding, life, outcome, allowed, room, phase>>
      /\ sprite[s].status # "none" /\ sprite[s].type = t /\ CanRun(s, again)
      /\ \/ /\ machine' = Forget(m, {e}) /\ sprite' = Without(sprite, s)
            /\ UNCHANGED <<granted, aborted>>
         \/ /\ ~(waiting /\ AdoptRefuses(m, e)) /\ machine' = k
            /\ sprite' = WithStatus(sprite, s, "alive")
            /\ UNCHANGED <<granted, aborted>>
         \/ /\ waiting /\ ~AdoptRefuses(m, e) /\ sprite[s].status = "alive"
            /\ sprite' = [sprite EXCEPT ![s].egg = content]
            /\ machine' = [k EXCEPT !.placed.uses = @ + 1]
            /\ granted' \in {granted, granted + 1}
            /\ aborted' = (aborted \/ k.placed.uses >= PlayerCount)
         \/ /\ ~waiting /\ again
            /\ sprite' = [sprite EXCEPT ![s] = Sprite("alive", born, "none")]
            /\ machine' = Spawn(m, s, born)
            /\ UNCHANGED <<granted, aborted>>
  BY DEF RunEgg, WithStatus, Without
<1>a. allowed /\ StoredBy(machine) = {} /\ aborted = FALSE /\ granted \in Nat
      /\ granted <= machine.placed.uses /\ machine.placed.uses \in Nat
      /\ Riders
  BY <1>1 DEF EntityInv, Barred, Settings, Sound, Machines, Source
<1>2. /\ Sound(m, sprite)
      /\ Linked(machine) => Linked(m)
      /\ Capped(m, sprite)
      /\ e \in m.entities /\ e.slot = s /\ e.type = t
      /\ m.stored = machine.stored /\ m.mount = machine.mount /\ m.held = machine.held
      /\ m.placed.known = machine.placed.known /\ m.placed.uses = machine.placed.uses
      /\ again => m.next <= MaxId
      /\ e.owner = NoOne <=> e.flag = "none"
      /\ e.flag \in Carry => sprite[s].status = "carried"
      /\ e.flag = "RIDDEN" => sprite[s].status = "alive" /\ sprite[s].sat /\ t = "yoshi"
  <2>1. CanRun(s, again) /\ again \in BOOLEAN /\ sprite[s].status # "none" /\ sprite[s].type = t
    BY <1>1
  <2> HIDE DEF t, again
  <2> QED BY <2>1, Updated
<1>b. /\ Made(sprite[s]) /\ sprite[s].status # "carried" /\ m.placed.uses \in Nat
      /\ m \in Machines /\ e \in Record /\ e.id # NoId
  <2>1. Made(sprite[s])
    BY DEF EntityInv, Sound
  <2>2. m \in Machines /\ e.id # NoId
    BY <1>2 DEF Sound, Ranged, NoId
  <2> HIDE DEF m, e
  <2> QED BY <1>1, <1>2, <2>1, <2>2 DEF Made, Machines, Source
<1>c. born \in {"thing", "baby", "yoshi"} /\ content \in {"mount", "other"}
      /\ (born # "thing" => sprite[s].egg # "other") /\ (content = "mount" => RoomFor(sprite, s))
  OBVIOUS
<1>d. waiting <=> sprite[s].egg = "waiting"
  OBVIOUS
<1>k. /\ waiting => k = [m EXCEPT !.placed.known = TRUE, !.placed.egg = e.id]
      /\ ~waiting => k = m
  OBVIOUS
<1> HIDE DEF m, e, again, born, content, k, waiting
<1>e. e.flag = "none" /\ e.owner = NoOne
  BY <1>1, <1>2, <1>b DEF Carry, Record, Flags
<1>3. ASSUME ~(waiting /\ AdoptRefuses(m, e))
      PROVE  /\ k \in Machines /\ k.entities = m.entities /\ k.mount = m.mount /\ k.held = m.held
             /\ k.stored = m.stored /\ k.next = m.next /\ k.placed.uses = m.placed.uses
             /\ waiting => k.placed.egg = e.id /\ k.placed.uses < PlayerCount
             /\ Sound(k, sprite) /\ (Linked(m) => Linked(k)) /\ EggKnown(k)
  <2>1. /\ k \in Machines /\ k.entities = m.entities /\ k.mount = m.mount /\ k.held = m.held
        /\ k.stored = m.stored /\ k.next = m.next /\ k.placed.uses = m.placed.uses
        /\ waiting => k.placed.egg = e.id
        /\ ~waiting => k = m
    <3>1. CASE waiting
      <4>1. k = [m EXCEPT !.placed.known = TRUE, !.placed.egg = e.id]
        BY <3>1, <1>k
      <4> QED BY <3>1, <4>1, <1>b DEF Machines, Source, Record
    <3>2. CASE ~waiting
      BY <3>2, <1>k, <1>b
    <3> QED BY <3>1, <3>2
  <2>2. waiting => k.placed.uses < PlayerCount
    <3> SUFFICES ASSUME waiting PROVE m.placed.uses < PlayerCount
      BY <2>1
    <3>1. CASE m.placed.egg = e.id
      BY <3>1, <1>2, <1>d DEF Sound, Granting
    <3>2. CASE m.placed.egg # e.id
      BY <3>2, <1>3, <1>b, <1>r DEF AdoptRefuses, RoomAssumption
    <3> QED BY <3>1, <3>2
  <2>3. EggKnown(k)
    <3>1. CASE waiting
      BY <3>1, <2>1, <1>2, <1>e DEF EggKnown
    <3>2. CASE ~waiting
      BY <3>2, <2>1, <1>2 DEF Sound
    <3> QED BY <3>1, <3>2
  <2>4. Granting(k, sprite)
    <3>1. CASE waiting
      <4>1. k.placed.uses < PlayerCount
        BY <2>2, <3>1
      <4>2. k.placed.uses <= PlayerCount
        BY <4>1, <2>1, <1>b, <1>r DEF RoomAssumption
      <4> QED BY <4>1, <4>2 DEF Granting
    <3>2. CASE ~waiting
      BY <3>2, <2>1, <1>2 DEF Sound
    <3> QED BY <3>1, <3>2
  <2>5. Sound(k, sprite)
    BY <1>2, <2>1, <2>3, <2>4 DEF Sound, Ranged, Distinct, HeldKnown, MountKnown, StoredApart, OneMount,
                    Matched, CarriedOwned
  <2>6. Linked(m) => Linked(k)
    BY <2>1 DEF Linked
  <2> QED BY <2>1, <2>2, <2>3, <2>5, <2>6
<1> DEFINE Fine == /\ Sound(machine', sprite') /\ (Linked(m) => Linked(machine'))
                   /\ Capped(machine', sprite')
                   /\ machine'.stored = m.stored
                   /\ granted' \in Nat /\ granted' <= machine'.placed.uses /\ aborted' = FALSE
                   /\ \A q \in Player : machine'.mount[q] = m.mount[q]
<1>4. ASSUME machine' = Forget(m, {e}), sprite' = Without(sprite, s), UNCHANGED <<granted, aborted>>
      PROVE Fine
  <2>1. LET f == Forget(m, {e})
            spr2 == Without(sprite, e.slot)
        IN  /\ Sound(f, spr2)
            /\ Linked(m) => Linked(f)
            /\ Mounts(spr2) \subseteq Mounts(sprite)
            /\ f.stored = m.stored
            /\ f.placed.uses = m.placed.uses
            /\ \A p \in Player : f.mount[p] = m.mount[p] \/ (p = e.owner /\ e.flag = "RIDDEN")
    BY <1>r, <1>2, LostSound
  <2>2. Mounts(sprite') \subseteq Mounts(sprite) /\ machine'.stored = m.stored
    BY <2>1, <1>2, <1>4
  <2>3. Capped(machine', sprite')
    BY <2>2, <1>2, <1>r, CapKept
  <2> QED BY <1>2, <1>4, <1>a, <1>e, <2>1, <2>3
<1>5. ASSUME ~(waiting /\ AdoptRefuses(m, e)), machine' = k, sprite' = WithStatus(sprite, s, "alive"),
             UNCHANGED <<granted, aborted>>
      PROVE Fine
  <2>0. Sound(k, sprite) /\ (Linked(m) => Linked(k)) /\ k.entities = m.entities /\ k.mount = m.mount
        /\ k.stored = m.stored /\ k.placed.uses = m.placed.uses
    BY <1>3, <1>5
  <2>1. /\ sprite' \in [Slot -> Sprites] /\ (\A r \in Slot : r # s => sprite'[r] = sprite[r])
        /\ sprite'[s].status = "alive" /\ sprite'[s].type = sprite[s].type
        /\ sprite'[s].egg = sprite[s].egg
    BY <1>5, <1>r DEF WithStatus, Sprites
  <2>2. Made(sprite'[s])
    BY <1>1, <1>b, <2>1 DEF Made
  <2>3. \A g \in m.entities : g.slot = s => g = e
    BY <1>2 DEF Sound, Distinct
  <2>4. \A g \in m.entities : g.slot \in Slot
    BY <1>b DEF Machines, Record
  <2>5. Matched(k, sprite')
    BY <2>0, <2>1, <2>3, <2>4, <1>e, <1>1 DEF Sound, Matched, Carry
  <2>6. CarriedOwned(k, sprite')
    BY <2>0, <2>1 DEF Sound, CarriedOwned
  <2>7. Granting(k, sprite')
    BY <2>0, <2>1, <2>4 DEF Sound, Granting
  <2>8. Sound(machine', sprite')
    BY <1>5, <2>0, <2>1, <2>2, <2>5, <2>6, <2>7 DEF Sound
  <2>9. Mounts(sprite') \subseteq Mounts(sprite)
    BY <2>1, <1>1 DEF Mounts
  <2>10. Capped(machine', sprite')
    BY <1>5, <2>0, <2>9, <1>2, <1>r, CapKept
  <2> QED BY <2>0, <2>8, <2>10, <1>2, <1>5, <1>a
<1>6. ASSUME waiting, ~AdoptRefuses(m, e), sprite[s].status = "alive",
             sprite' = [sprite EXCEPT ![s].egg = content],
             machine' = [k EXCEPT !.placed.uses = @ + 1], granted' \in {granted, granted + 1},
             aborted' = (aborted \/ k.placed.uses >= PlayerCount)
      PROVE Fine
  <2>0. Sound(k, sprite) /\ (Linked(m) => Linked(k)) /\ k.entities = m.entities /\ k.mount = m.mount
        /\ k.stored = m.stored /\ k.placed.uses = m.placed.uses /\ k.placed.egg = e.id
        /\ k.placed.uses < PlayerCount /\ k \in Machines
    BY <1>3, <1>6
  <2>1. /\ machine' \in Machines /\ machine'.entities = k.entities /\ machine'.mount = k.mount
        /\ machine'.held = k.held /\ machine'.stored = k.stored /\ machine'.next = k.next
        /\ machine'.placed.egg = k.placed.egg /\ machine'.placed.uses = k.placed.uses + 1
    <3> DEFINE n == k.placed.uses + 1
    <3>1. n \in Nat
      BY <2>0, <1>b
    <3>2. machine' = [k EXCEPT !.placed.uses = n]
      BY <1>6, <2>0 DEF Machines, Source
    <3> HIDE DEF n
    <3>3. /\ machine' \in Machines /\ machine'.entities = k.entities /\ machine'.mount = k.mount
          /\ machine'.held = k.held /\ machine'.stored = k.stored /\ machine'.next = k.next
          /\ machine'.placed.egg = k.placed.egg /\ machine'.placed.uses = n
      <4>1. k \in Machines /\ k.placed \in Source
        BY <2>0 DEF Machines
      <4> DEFINE p == [k.placed EXCEPT !.uses = n]
      <4>2. p \in Source /\ p.egg = k.placed.egg /\ p.uses = n
        BY <4>1, <3>1 DEF Source
      <4>3. machine' = [k EXCEPT !.placed = p]
        BY <3>2, <4>1 DEF Machines, Source
      <4> HIDE DEF p
      <4> QED BY ONLY <4>1, <4>2, <4>3 DEF Machines
    <3> QED BY <3>3 DEF n
  <2>2. /\ sprite' \in [Slot -> Sprites] /\ (\A r \in Slot : r # s => sprite'[r] = sprite[r])
        /\ sprite'[s].status = sprite[s].status /\ sprite'[s].type = sprite[s].type
        /\ sprite'[s].sat = sprite[s].sat /\ sprite'[s].egg = content
    BY <1>6, <1>r, <1>c DEF Sprites
  <2>3. Made(sprite'[s])
    BY <1>1, <1>6, <1>b, <1>c, <2>2 DEF Made
  <2>4. \A g \in m.entities : g.slot \in Slot
    BY <1>b DEF Machines, Record
  <2>5. Matched(machine', sprite') /\ CarriedOwned(machine', sprite')
    <3>1. \A r \in Slot : /\ sprite'[r].status = sprite[r].status /\ sprite'[r].type = sprite[r].type
                          /\ sprite'[r].sat = sprite[r].sat
      BY <2>2
    <3> QED BY <2>0, <2>1, <2>4, <3>1 DEF Sound, Matched, CarriedOwned
  <2>6. Granting(machine', sprite')
    <3>1. \A g \in m.entities : g.id = e.id => g = e
      BY <1>2 DEF Sound, Distinct
    <3>2. ~\E g \in machine'.entities : g.id = machine'.placed.egg /\ sprite'[g.slot].egg = "waiting"
      BY <2>0, <2>1, <2>2, <3>1, <1>2, <1>c
    <3>3. machine'.placed.uses <= PlayerCount
      BY <2>0, <2>1, <1>b, <1>r DEF RoomAssumption
    <3> QED BY <3>2, <3>3 DEF Granting
  <2>7. Sound(machine', sprite')
    <3>1. EggKnown(machine')
      BY <2>0, <2>1 DEF Sound, EggKnown
    <3>2. \A r \in Slot : Made(sprite'[r])
      BY <2>2, <2>3 DEF EntityInv, Sound
    <3> QED BY <2>0, <2>1, <2>2, <2>5, <2>6, <3>1, <3>2
            DEF Sound, Ranged, Distinct, HeldKnown, MountKnown, StoredApart, OneMount
  <2>8. Linked(m) => Linked(machine')
    BY <2>0, <2>1 DEF Linked
  <2>9. Capped(machine', sprite')
    <3>0. machine'.stored = m.stored
      BY <2>0, <2>1
    <3>1. CASE content = "mount"
      <4>1. StoredBy(machine') = {}
        BY <3>0, <1>2, <1>a DEF StoredBy
      <4>2. Mounts(sprite') \subseteq Mounts(sprite) \cup {s}
        BY <2>2 DEF Mounts
      <4> QED BY <1>r, <1>c, <3>1, <4>1, <4>2, CapFilled
    <3>2. CASE content # "mount"
      <4>1. Mounts(sprite') \subseteq Mounts(sprite)
        BY <2>2, <3>2 DEF Mounts
      <4> QED BY <1>r, <1>2, <3>0, <4>1, CapKept
    <3> QED BY <3>1, <3>2
  <2>10. granted' \in Nat /\ granted' <= machine'.placed.uses
    BY <1>6, <1>a, <1>2, <1>b, <2>0, <2>1
  <2>11. aborted' = FALSE
    <3>1. ~(k.placed.uses >= PlayerCount)
      BY <2>0, <1>b, <1>r DEF RoomAssumption
    <3> QED BY <1>6, <1>a, <3>1
  <2> QED BY <2>0, <2>1, <2>7, <2>8, <2>9, <2>10, <2>11
<1>7. ASSUME ~waiting, again, sprite' = [sprite EXCEPT ![s] = Sprite("alive", born, "none")],
             machine' = Spawn(m, s, born), UNCHANGED <<granted, aborted>>
      PROVE Fine
  <2> DEFINE x == Sprite("alive", born, "none")
  <2>1. born \in Types /\ x \in Sprites /\ Made(x) /\ x.status = "alive" /\ x.type = born
        /\ x.egg = "none"
    <3>1. born \in Types /\ "alive" \in {"init", "alive", "carried"} /\ born # "egg"
      BY <1>c DEF Types
    <3> QED BY <3>1, SpriteMade
  <2> HIDE DEF x
  <2>2. sprite' \in [Slot -> Sprites] /\ sprite'[s] = x /\ \A r \in Slot : r # s => sprite'[r] = sprite[r]
    BY <1>r, <1>7, <2>1 DEF x
  <2>3. /\ Sound(machine', sprite')
        /\ Linked(m) => Linked(machine')
        /\ machine'.stored = m.stored /\ machine'.placed.uses = m.placed.uses
    <3>1. sprite'[s].type = born /\ Made(sprite'[s])
          /\ sprite'[s].status \notin {"none", "carried"} /\ m.next <= MaxId
      BY <1>2, <1>7, <2>1, <2>2
    <3>2. /\ Sound(m, sprite) /\ born \in Types /\ sprite' \in [Slot -> Sprites]
          /\ \A r \in Slot : r # s => sprite'[r] = sprite[r]
      BY <1>2, <2>1, <2>2
    <3>3. LET f == Spawn(m, s, born)
          IN  /\ Sound(f, sprite')
              /\ Linked(m) => Linked(f)
              /\ f.stored = m.stored /\ f.placed.uses = m.placed.uses
      BY ONLY <1>r, s \in Slot, <3>1, <3>2, SpawnSound
    <3> QED BY <3>3, <1>7
  <2>4. \A q \in Player : machine'.mount[q] = m.mount[q]
    <3>1. \A g \in At(m, s) : g.flag # "RIDDEN"
      BY <1>1, <1>2, EmptyUnridden
    <3> QED BY <1>r, <1>2, <1>7, <3>1, SpawnMounts
  <2>5. Mounts(sprite') \subseteq Mounts(sprite)
    <3>1. born # "thing" => sprite[s].egg = "mount"
      BY <1>1, <1>7, <1>b, <1>c, <1>d, <1>r DEF Made, Sprites
    <3> QED BY <1>1, <1>c, <2>1, <2>2, <3>1 DEF Mounts
  <2>6. Capped(machine', sprite')
    BY <1>r, <1>2, <2>3, <2>5, CapKept
  <2> QED BY <1>2, <1>7, <1>a, <2>3, <2>4, <2>6
<1>8. Fine
  BY <1>1, <1>4, <1>5, <1>6, <1>7
<1>9. \A q \in Player : riding'[q] => machine'.mount[q] # NoId
  BY <1>1, <1>2, <1>8, <1>a DEF Riders
<1>10. /\ Sound(machine', sprite') /\ (Linked(machine) => Linked(machine'))
       /\ machine'.stored = machine.stored
  BY <1>2, <1>8
<1>11. riding' \in [Player -> BOOLEAN]
  BY <1>1 DEF EntityInv, Settings
<1> QED BY <1>1, <1>8, <1>9, <1>10, <1>11, <1>a, FrameStep

(* Whether somebody sits on a Yoshi does not change how many there are.    *)
LEMMA WithSatFields ==
  ASSUME NEW spr \in [Slot -> Sprites], NEW s \in Slot, NEW sat \in BOOLEAN
  PROVE  /\ Mounts(WithSat(spr, s, sat)) = Mounts(spr)
         /\ \A r \in Slot : WithSat(spr, s, sat)[r].type = spr[r].type
         /\ spr[s].sat = sat => WithSat(spr, s, sat) = spr
<1> DEFINE spr2 == WithSat(spr, s, sat)
<1>1. \A r \in Slot : spr2[r].type = spr[r].type /\ spr2[r].egg = spr[r].egg /\ spr2[r].status = spr[r].status
  BY DEF WithSat, Sprites
<1>2. spr[s].sat = sat => spr2 = spr
  BY DEF WithSat, Sprites
<1> HIDE DEF spr2
<1> QED BY <1>1, <1>2 DEF Mounts, spr2

(* The update of a Yoshi whose rider stays on changes nothing.             *)
LEMMA StaySame ==
  ASSUME NEW m \in Machines, NEW e \in m.entities, NEW p \in Player,
         e.flag = "RIDDEN", e.owner = p, m.mount[p] = e.id
  PROVE  MountOwner(m, e, p, TRUE, TRUE) = m
<1>1. e \in Record /\ m.mount \in [Player -> Id]
  BY DEF Machines
<1>2. [e EXCEPT !.owner = p, !.flag = "RIDDEN"] = e
  BY <1>1 DEF Record
<1>3. (m.entities \ {e}) \cup {e} = m.entities
  OBVIOUS
<1>4. MountOwner(m, e, p, TRUE, TRUE)
        = [[m EXCEPT !.entities = (m.entities \ {e}) \cup {e}] EXCEPT !.mount[p] = e.id]
  BY <1>2 DEF MountOwner, Change
<1>5. MountOwner(m, e, p, TRUE, TRUE) = [[m EXCEPT !.entities = m.entities] EXCEPT !.mount[p] = e.id]
  BY <1>3, <1>4
<1>6. [[m EXCEPT !.entities = m.entities] EXCEPT !.mount[p] = e.id] = m
  BY <1>1 DEF Machines
<1> QED BY <1>5, <1>6

(* A Yoshi is run: left alone, mounted, dismounted or lost.                *)
LEMMA RunYoshiKeeps ==
  ASSUME EntityInv, NEW s \in Slot, NEW p \in Player, NEW fate \in {"stay", "mount", "dismount", "lost"},
         RunYoshi(s, p, fate)
  PROVE  EntityInv'
<1>r. RoomAssumption /\ sprite \in [Slot -> Sprites] /\ \A r \in Slot : sprite[r] \in Sprites
  BY DEF EntityInv, Sound
<1>i. riding \in [Player -> BOOLEAN]
  BY DEF EntityInv, Settings
<1> DEFINE t == "yoshi"
           m == Normal(machine, s, t)
           e == In(m, s)
           U == Unrelated(m, e, p)
           sat == fate = "mount" \/ (sprite[s].sat /\ fate = "stay")
           rides == fate = "mount" \/ (riding[p] /\ fate = "stay")
           clash == sat /\ rides /\ (e.owner \notin {NoOne, p} \/ m.mount[p] \notin {NoId, e.id})
<1>1. /\ phase = "frame" /\ UNCHANGED <<life, outcome, allowed, room, phase, granted>>
      /\ sprite[s].status = "alive" /\ sprite[s].type = t /\ CanRun(s, FALSE)
      /\ p \in Targets(m, e)
      /\ fate = "mount" => ~sprite[s].sat /\ outcome = "CONTINUE" /\ ~riding[p] /\ ~U
      /\ fate = "dismount" => sprite[s].sat /\ e.owner = p
      /\ \/ /\ machine' = Forget(m, {e}) /\ sprite' = Without(sprite, s)
            /\ riding' = [riding EXCEPT ![p] = @ /\ e.owner # p] /\ aborted' = aborted
         \/ /\ sprite' = WithSat(sprite, s, sat) /\ fate # "lost"
            /\ riding' = [riding EXCEPT ![p] = IF U THEN @ ELSE rides]
            /\ machine' = (IF U THEN m ELSE MountOwner(m, e, p, sat, rides))
            /\ aborted' = (aborted \/ (clash /\ ~U))
  BY DEF RunYoshi, setting, WithSat, Without
<1>2. /\ Sound(m, sprite)
      /\ Linked(machine) => Linked(m)
      /\ Capped(m, sprite)
      /\ e \in m.entities /\ e.slot = s /\ e.type = t
      /\ m.stored = machine.stored /\ m.mount = machine.mount
      /\ m.placed.uses = machine.placed.uses
      /\ e.owner = NoOne <=> e.flag = "none"
      /\ e.flag \in Carry => sprite[s].status = "carried"
      /\ e.flag = "RIDDEN" => sprite[s].status = "alive" /\ sprite[s].sat /\ t = "yoshi"
  <2> DEFINE again == FALSE
  <2>1. CanRun(s, again) /\ again \in BOOLEAN /\ sprite[s].status # "none" /\ sprite[s].type = t
    BY <1>1
  <2> HIDE DEF t, again
  <2> QED BY <2>1, Updated
<1>a. allowed /\ StoredBy(machine) = {} /\ aborted = FALSE /\ Riders
      /\ (outcome = "CONTINUE" => Linked(machine))
  BY <1>1 DEF EntityInv, Barred
<1>o. e.owner # NoOne => p = e.owner
  BY <1>1 DEF Targets
<1>u. U <=> e.owner = NoOne /\ m.mount[p] # NoId
  BY DEF Unrelated
<1>f. sat \in BOOLEAN /\ rides \in BOOLEAN
  OBVIOUS
<1> HIDE DEF m, e, U
<1>b. m \in Machines /\ e \in Record /\ e.id # NoId
  BY <1>2 DEF Sound, Ranged, NoId, Machines
<1>e. e.flag \in {"none", "RIDDEN"} /\ (e.flag = "RIDDEN" => p = e.owner)
  BY <1>1, <1>2, <1>b, <1>o DEF Carry, Record, Flags
<1>s. m.stored[p] = NoId
  BY <1>2, <1>a DEF StoredBy
<1> DEFINE Fine == /\ Sound(machine', sprite') /\ (Linked(m) => Linked(machine'))
                   /\ Mounts(sprite') \subseteq Mounts(sprite)
                   /\ machine'.stored = m.stored
                   /\ machine'.placed.uses = m.placed.uses /\ aborted' = FALSE
                   /\ riding' \in [Player -> BOOLEAN]
                   /\ \A q \in Player : riding'[q] => machine'.mount[q] # NoId
<1>w. Mounts(WithSat(sprite, s, sat)) = Mounts(sprite)
  BY <1>r, <1>f, WithSatFields
<1>4. ASSUME machine' = Forget(m, {e}), sprite' = Without(sprite, s), aborted' = aborted,
             riding' = [riding EXCEPT ![p] = @ /\ e.owner # p]
      PROVE Fine
  <2>1. LET f == Forget(m, {e})
            spr2 == Without(sprite, e.slot)
        IN  /\ Sound(f, spr2)
            /\ Linked(m) => Linked(f)
            /\ Mounts(spr2) \subseteq Mounts(sprite)
            /\ f.stored = m.stored
            /\ f.placed.uses = m.placed.uses
            /\ \A q \in Player : f.mount[q] = m.mount[q] \/ (q = e.owner /\ e.flag = "RIDDEN")
    BY <1>r, <1>2, LostSound
  <2>2. riding' \in [Player -> BOOLEAN]
        /\ \A q \in Player : riding'[q] => riding[q] /\ ~(q = p /\ e.owner = p)
    BY <1>4, <1>i
  <2>3. \A q \in Player : riding'[q] => machine'.mount[q] # NoId
    BY <2>1, <2>2, <1>2, <1>4, <1>a, <1>e DEF Riders
  <2> QED BY <1>2, <1>4, <1>a, <2>1, <2>2, <2>3
<1> HIDE DEF sat, rides
<1>5. ASSUME machine' = m, sprite' = WithSat(sprite, s, sat), sprite[s].sat = sat,
             riding' = riding, aborted' = FALSE
      PROVE Fine
  <2>1. sprite' = sprite
    BY <1>5, <1>r, <1>f, WithSatFields
  <2> QED BY <1>2, <1>5, <1>a, <1>i, <2>1 DEF Riders
<1>6. ASSUME sprite' = WithSat(sprite, s, sat), fate # "lost", riding' = [riding EXCEPT ![p] = rides], ~U,
             machine' = MountOwner(m, e, p, sat, rides), aborted' = (aborted \/ clash)
      PROVE Fine
  <2>r. riding' \in [Player -> BOOLEAN] /\ riding'[p] = rides /\ \A q \in Player : q # p => riding'[q] = riding[q]
    BY <1>6, <1>i, <1>f
  <2>1. CASE fate = "mount"
    <3>1. sat = TRUE /\ rides = TRUE
      BY <2>1 DEF sat, rides
    <3>2. e.flag = "none" /\ e.owner = NoOne /\ m.mount[p] = NoId /\ Linked(m)
      BY <1>1, <1>2, <1>6, <1>a, <1>e, <1>u, <2>1
    <3>3. ~clash
      BY <3>2
    <3>4. sprite[e.slot].status = "alive"
      BY <1>1, <1>2
    <3>5. /\ Sound(machine', sprite')
          /\ Linked(machine')
          /\ machine'.placed = m.placed /\ machine'.stored = m.stored
          /\ \A q \in Player : machine'.mount[q] = IF q = p THEN e.id ELSE m.mount[q]
      <4>1. LET k == MountOwner(m, e, p, sat, rides)
            IN  /\ Sound(k, WithSat(sprite, e.slot, sat))
                /\ Linked(k)
                /\ k.placed = m.placed /\ k.stored = m.stored
                /\ \A q \in Player : k.mount[q] = IF q = p THEN e.id ELSE m.mount[q]
        <5>1. sat /\ rides /\ e.type = "yoshi" /\ Sound(m, sprite) /\ e \in m.entities
          BY <1>2, <3>1
        <5> HIDE DEF clash, Fine, t
        <5>2. RoomAssumption /\ Linked(m) /\ e.flag = "none" /\ m.mount[p] = NoId /\ m.stored[p] = NoId
          BY <1>r, <1>s, <3>2
        <5>3. Sound(MountOwner(m, e, p, sat, rides), WithSat(sprite, e.slot, sat))
          BY ONLY p \in Player, <1>f, <3>4, <5>1, <5>2, MountSound
        <5>4. Linked(MountOwner(m, e, p, sat, rides))
          BY ONLY p \in Player, <1>f, <3>4, <5>1, <5>2, MountSound
        <5>5. Boarded(m, MountOwner(m, e, p, sat, rides), e, p)
          BY ONLY p \in Player, <1>f, <3>4, <5>1, <5>2, <5>3, MountSound
        <5> QED BY <5>3, <5>4, <5>5 DEF Boarded
      <4> QED BY <4>1, <1>2, <1>6
    <3>6. \A q \in Player : riding'[q] => machine'.mount[q] # NoId
      BY <2>r, <3>5, <1>2, <1>a, <1>b DEF Riders
    <3> QED BY <1>6, <1>w, <1>a, <2>r, <3>3, <3>5, <3>6
  <2>2. CASE e.flag = "RIDDEN" /\ ~(sat /\ rides)
    <3>1. ~clash /\ ~rides
      <4>1. fate # "mount"
        BY <1>1, <1>2, <2>2
      <4>2. fate = "stay" => sat
        BY <1>2, <2>2 DEF sat
      <4> QED BY <4>1, <4>2, <2>2 DEF sat, rides
    <3>2. /\ Sound(machine', sprite')
          /\ Linked(m) => Linked(machine')
          /\ machine'.placed = m.placed /\ machine'.stored = m.stored
          /\ \A q \in Player : q # e.owner => machine'.mount[q] = m.mount[q]
      <4>1. LET k == MountOwner(m, e, p, sat, rides)
            IN  /\ Sound(k, WithSat(sprite, e.slot, sat))
                /\ Linked(m) => Linked(k)
                /\ k.placed = m.placed /\ k.stored = m.stored
                /\ \A q \in Player : q # e.owner => k.mount[q] = m.mount[q]
        BY <1>r, <1>f, <1>2, <2>2, DismountSound
      <4> QED BY <4>1, <1>2, <1>6
    <3>3. \A q \in Player : riding'[q] => machine'.mount[q] # NoId
      BY <2>r, <2>2, <3>1, <3>2, <1>2, <1>a, <1>e DEF Riders
    <3> QED BY <1>6, <1>w, <1>a, <2>r, <3>1, <3>2, <3>3
  <2>3. CASE fate = "stay" /\ e.flag = "RIDDEN" /\ sat /\ rides
    <3>1. riding[p] /\ sprite[s].sat /\ sat = TRUE /\ rides = TRUE
      BY <2>3, <1>f DEF sat, rides
    <3>2. m.mount[p] # NoId
      BY <3>1, <1>2, <1>a DEF Riders
    <3>3. m.mount[p] = e.id /\ e.owner = p
      <4>1. PICK g \in m.entities : g.id = m.mount[p] /\ g.owner = p /\ g.flag = "RIDDEN"
        BY <3>2, <1>2 DEF Sound, MountKnown
      <4>2. g = e
        BY <4>1, <2>3, <1>2, <1>e DEF Sound, OneMount
      <4> QED BY <4>1, <4>2
    <3>4. MountOwner(m, e, p, TRUE, TRUE) = m
      BY <1>2, <1>b, <2>3, <3>3, StaySame
    <3>5. machine' = m /\ aborted' = FALSE
      BY <1>6, <3>1, <3>3, <3>4, <1>a
    <3>6. riding' = riding
      <4>1. riding' \in [Player -> BOOLEAN] /\ \A q \in Player : riding'[q] = riding[q]
        BY <2>r, <3>1 , <1>i
      <4> QED BY <4>1, <1>i
    <3> QED BY <1>5, <1>6, <3>1, <3>5, <3>6
  <2>4. CASE fate # "mount" /\ e.flag = "none"
    <3>1. e.owner = NoOne /\ m.mount[p] = NoId /\ fate # "dismount"
      BY <2>4, <1>1, <1>2, <1>6, <1>u DEF Player, NoOne
    <3>2. ~riding[p]
      BY <3>1, <1>2, <1>a DEF Riders
    <3>3. ~rides
      BY <3>2, <2>4 DEF rides
    <3>4. machine' = m
      BY <1>6, <2>4, <3>3 DEF MountOwner
    <3>5. aborted' = FALSE
      BY <1>6, <1>a, <3>3
    <3>6. riding' = riding
      BY <2>r, <3>2, <3>3, <1>i, <1>f
    <3> QED
      <4>1. CASE fate = "stay"
        <5>1. sprite[s].sat = sat
          BY <4>1, <1>r DEF sat, Sprites
        <5> QED BY <1>5, <1>6, <3>4, <3>5, <3>6, <5>1
      <4> QED BY <4>1, <1>6, <2>4, <3>1
  <2>5. fate = "stay" \/ fate = "mount" \/ fate = "dismount"
    BY <1>6
  <2>6. fate = "mount" \/ e.flag = "RIDDEN" \/ (fate # "mount" /\ e.flag = "none")
    BY <1>e
  <2>7. e.flag = "RIDDEN" /\ sat /\ rides => fate = "stay" \/ fate = "mount"
    BY <2>5 DEF sat
  <2> QED BY <2>1, <2>2, <2>3, <2>4, <2>6, <2>7
<1>7. ASSUME sprite' = WithSat(sprite, s, sat), fate # "lost", U, machine' = m,
             riding' = [riding EXCEPT ![p] = @], aborted' = (aborted \/ (clash /\ ~U))
      PROVE Fine
  <2>1. fate = "stay"
    BY <1>1, <1>7, <1>u DEF Player, NoOne
  <2>2. sprite[s].sat = sat
    BY <2>1, <1>r DEF sat, Sprites
  <2>3. riding' = riding /\ aborted' = FALSE
    BY <1>7, <1>i, <1>a
  <2> QED BY <1>5, <1>7, <2>2, <2>3
<1>8. Fine
  BY <1>1, <1>4, <1>6, <1>7
<1>9. Capped(machine', sprite')
  BY <1>2, <1>8, <1>r, CapKept
<1>10. /\ Sound(machine', sprite') /\ (Linked(machine) => Linked(machine'))
       /\ machine'.stored = machine.stored /\ machine'.placed.uses = machine.placed.uses
  BY <1>2, <1>8
<1> QED BY <1>1, <1>8, <1>9, <1>10, <1>a, FrameStep DEF EntityInv, Settings

\* The least number principle, which the proof about RespawnAll needs.
LEMMA NatLeast ==
  ASSUME NEW T \in SUBSET Nat, T # {}
  PROVE  \E m \in T : \A n \in T : m <= n
<1> DEFINE R == OpToRel(<, Nat)
<1>1. IsWellFoundedOn(R, Nat)
  BY NatLessThanWellFounded
<1>2. ASSUME NEW x \in Nat, NEW y \in Nat, x < y PROVE <<x, y>> \in R
  BY <1>2 DEF OpToRel
<1> HIDE DEF R
<1>3. PICK m \in T : \A n \in T : ~(<<n, m>> \in R)
  BY <1>1, WFMin
<1>4. ASSUME NEW n \in T PROVE m <= n
  <2>1. m \in Nat /\ n \in Nat /\ ~(n < m)
    BY <1>2, <1>3
  <2> QED BY <2>1
<1> QED BY <1>4

-----------------------------------------------------------------------------
(* RespawnAll is what its recursive equation says.                         *)

(* v is the state the players 1 to n leave behind.                         *)
Chain(w, ok, n, g) == g = [p \in 0 .. n |-> IF p = 0 THEN w ELSE Returned(g[p - 1], p, ok)]

(* RespawnAll's recursion has a solution up to any player.                 *)
LEMMA ChainExists ==
  ASSUME NEW w, NEW ok, NEW n \in Nat
  PROVE  \E g : Chain(w, ok, n, g)
<1> DEFINE T == {k \in Nat : ~\E g : Chain(w, ok, k, g)}
<1> SUFFICES ASSUME T # {} PROVE FALSE
  OBVIOUS
<1>1. PICK k \in T : \A j \in T : k <= j
  BY NatLeast
<1>2. CASE k = 0
  <2> DEFINE g == [p \in 0 .. 0 |-> w]
  <2>1. Chain(w, ok, 0, g)
    BY DEF Chain
  <2> QED BY <1>1, <1>2, <2>1
<1>3. CASE k # 0
  <2>1. k - 1 \in Nat /\ k - 1 \notin T
    BY <1>1, <1>3
  <2>2. PICK f : Chain(w, ok, k - 1, f)
    BY <2>1
  <2> DEFINE g == [p \in 0 .. k |-> IF p = k THEN Returned(f[k - 1], k, ok) ELSE f[p]]
  <2>3. ASSUME NEW p \in 0 .. k
        PROVE  g[p] = IF p = 0 THEN w ELSE Returned(g[p - 1], p, ok)
    <3>1. CASE p = k
      <4>1. g[p] = Returned(f[k - 1], k, ok) /\ g[k - 1] = f[k - 1] /\ p # 0
        BY <1>1, <1>3, <3>1, <2>1
      <4> QED BY <4>1, <3>1
    <3>2. CASE p # k /\ p # 0
      <4>1. /\ p \in 0 .. k - 1 /\ p - 1 \in 0 .. k - 1 /\ p - 1 \in 0 .. k /\ p - 1 # k
        BY <1>1, <3>2
      <4>2. g[p] = f[p] /\ g[p - 1] = f[p - 1]
        BY <3>2, <4>1
      <4>3. f[p] = Returned(f[p - 1], p, ok)
        BY <2>2, <3>2, <4>1 DEF Chain
      <4> QED BY <3>2, <4>2, <4>3
    <3>3. CASE p = 0
      <4>1. 0 \in 0 .. k - 1 /\ 0 # k
        BY <1>1, <1>3
      <4>2. f[0] = w
        BY <2>2, <4>1 DEF Chain
      <4> QED BY <1>3, <3>3, <4>2
    <3> QED BY <3>1, <3>2, <3>3
  <2>4. g = [p \in 0 .. k |-> g[p]]
    OBVIOUS
  <2> HIDE DEF g
  <2>5. Chain(w, ok, k, g)
    BY <2>3, <2>4 DEF Chain
  <2> QED BY <1>1, <2>5
<1> QED BY <1>2, <1>3

(* RespawnAll is what its recursive equation says.                         *)
LEMMA RespawnEquation ==
  ASSUME RoomAssumption, NEW w, NEW ok
  PROVE  \E g : Chain(w, ok, PlayerCount, g) /\ RespawnAll(w, ok) = g[PlayerCount]
<1> DEFINE g == CHOOSE g : Chain(w, ok, PlayerCount, g)
<1>1. Chain(w, ok, PlayerCount, g)
  BY ChainExists DEF RoomAssumption
<1>2. RespawnAll(w, ok) = g[PlayerCount]
  BY Zenon DEF RespawnAll, Chain
<1> QED BY <1>1, <1>2

-----------------------------------------------------------------------------
(* The end of a frame: what fell is set down, then the dead references go. *)

(* What the end of a frame has to show, whatever its outcome.              *)
LEMMA EndStep ==
  ASSUME EntityInv, phase = "frame", NEW k, Sound(k, sprite'), machine' = Retire(k, sprite'),
         outcome' # "CLEAR" => Linked(k), Settings', phase' \in {"idle", "load"},
         Capped(k, sprite'), StoredBy(k) \subseteq StoredBy(machine),
         k.placed.uses = machine.placed.uses, k.placed.known = machine.placed.known,
         granted' = granted, allowed' = allowed, aborted' = aborted,
         \A s \in Slot : sprite'[s].type \in {sprite[s].type, "none"},
         \A p \in Player : riding'[p] => k.mount[p] # NoId,
         phase' = "load" /\ outcome' = "RETRY" =>
           StoredBy(k) = {} /\ \A e \in k.entities : e.owner = NoOne
  PROVE  EntityInv'
<1>1. /\ Sound(machine', sprite')
      /\ Linked(k) => Linked(machine')
      /\ machine'.entities = {e \in k.entities : sprite'[e.slot].status # "none"}
      /\ machine'.stored = k.stored
      /\ machine'.placed.known = k.placed.known /\ machine'.placed.uses = k.placed.uses
      /\ \A p \in Player : machine'.mount[p] = k.mount[p]
  BY RetireSound DEF EntityInv
<1>2. StoredBy(machine') = StoredBy(k)
  BY <1>1 DEF StoredBy
<1>3. Capped(machine', sprite')
  BY <1>2 DEF Capped
<1>4. Riders'
  BY <1>1 DEF Riders
<1>5. Barred'
  <2>1. allowed => StoredBy(machine') = {}
    BY <1>2 DEF EntityInv, Barred
  <2>2. ~allowed => /\ \A s \in Slot : sprite'[s].type \notin {"egg", "baby", "yoshi"}
                    /\ ~machine'.placed.known
    BY <1>1 DEF EntityInv, Barred
  <2> QED BY <2>1, <2>2 DEF Barred
<1>6. Cleaned' /\ Swept'
  BY <1>1, <1>2 DEF Cleaned, Swept
<1>7. outcome' # "CLEAR" \/ phase' = "enter" => Linked(machine')
  BY <1>1
<1> QED BY <1>1, <1>3, <1>4, <1>5, <1>6, <1>7 DEF EntityInv

(* Those of D fall; sprites and counts stay as they are.                   *)
LEMMA Falls ==
  ASSUME EntityInv, phase = "frame", outcome = "CONTINUE", NEW D \in SUBSET Player
  PROVE  /\ Sound(Fallen(D), FallenSprites(D)) /\ Linked(Fallen(D))
         /\ Capped(Fallen(D), FallenSprites(D))
         /\ Fallen(D).stored = machine.stored /\ Fallen(D).placed = machine.placed
         /\ \A s \in Slot : FallenSprites(D)[s].type = sprite[s].type
         /\ \A p \in Player : Fallen(D).mount[p] = IF p \in D THEN NoId ELSE machine.mount[p]
<1>1. /\ Sound(Fallen(D), FallenSprites(D))
      /\ Linked(machine) => Linked(Fallen(D))
      /\ Mounts(FallenSprites(D)) = Mounts(sprite)
      /\ \A s \in Slot : FallenSprites(D)[s].type = sprite[s].type
      /\ Fallen(D).placed = machine.placed /\ Fallen(D).stored = machine.stored
      /\ \A p \in Player : Fallen(D).mount[p] = IF p \in D THEN NoId ELSE machine.mount[p]
  BY FallSound DEF EntityInv, Fallen, FallenSprites
<1>2. Capped(Fallen(D), FallenSprites(D))
  BY <1>1, CapKept DEF EntityInv
<1> QED BY <1>1, <1>2 DEF EntityInv

(* The players D are dead: the adapter's side.                             *)
LEMMA FallenTypes ==
  ASSUME EntityInv, NEW D \in SUBSET Player
  PROVE  /\ FallenRiding(D) \in [Player -> BOOLEAN]
         /\ FallenLife(D) \in [Player -> {"PLAYING", "DYING", "OUT"}]
         /\ \A p \in Player : FallenRiding(D)[p] <=> riding[p] /\ p \notin D
         /\ \A p \in Player : FallenLife(D)[p] # "PLAYING" => p \in D \/ life[p] # "PLAYING"
  BY DEF EntityInv, Settings, FallenRiding, FallenLife

(* The players D are dead: who still rides has a mount.                    *)
LEMMA FallenRiders ==
  ASSUME EntityInv, phase = "frame", outcome = "CONTINUE", NEW D \in SUBSET Player,
         NEW p \in Player, FallenRiding(D)[p]
  PROVE  Fallen(D).mount[p] # NoId
<1>1. riding[p] /\ p \notin D
  BY FallenTypes
<1>2. machine.mount[p] # NoId
  BY <1>1 DEF EntityInv, Riders
<1> QED BY <1>1, <1>2, Falls

(* The frame ends at a door or a pipe.                                     *)
LEMMA EndRoomKeeps ==
  ASSUME EntityInv, NEW D \in SUBSET Player, EndRoom(D) PROVE EntityInv'
<1> DEFINE k == Fallen(D)
           spr2 == FallenSprites(D)
<1>1. /\ phase = "frame" /\ outcome = "CONTINUE" /\ sprite' = spr2 /\ machine' = Retire(k, spr2)
      /\ riding' = FallenRiding(D) /\ life' = FallenLife(D) /\ phase' = "load"
      /\ room' \in {"egg", "block"}
      /\ UNCHANGED <<outcome, allowed, granted, aborted>>
  BY DEF EndRoom
<1>2. Settings'
  BY <1>1, FallenTypes DEF EntityInv, Settings
<1>3. \A p \in Player : riding'[p] => k.mount[p] # NoId
  BY <1>1, FallenRiders
<1>4. StoredBy(k) = StoredBy(machine)
  BY <1>1, Falls DEF StoredBy
<1> QED BY <1>1, <1>2, <1>3, <1>4, Falls, EndStep

(* The frame ends with the team dead.                                      *)
LEMMA EndRetryKeeps ==
  ASSUME EntityInv, NEW D \in SUBSET Player, EndRetry(D) PROVE EntityInv'
<1> DEFINE k == Fallen(D)
           spr2 == FallenSprites(D)
<1>1. /\ phase = "frame" /\ outcome = "CONTINUE" /\ sprite' = spr2 /\ machine' = Retire(k, spr2)
      /\ riding' = FallenRiding(D) /\ phase' = "idle" /\ outcome' = "RETRY"
      /\ life' = [p \in Player |-> IF life[p] = "PLAYING" THEN "DYING" ELSE FallenLife(D)[p]]
      /\ UNCHANGED <<allowed, room, granted, aborted>>
  BY DEF EndRetry
<1>2. Settings'
  <2>1. \A p \in Player : FallenLife(D)[p] \in {"PLAYING", "DYING", "OUT"}
    BY FallenTypes
  <2>2. life' \in [Player -> {"PLAYING", "DYING", "OUT"}]
    BY <1>1, <2>1
  <2> QED BY <1>1, <2>2, FallenTypes DEF EntityInv, Settings
<1>3. \A p \in Player : riding'[p] => k.mount[p] # NoId
  BY <1>1, FallenRiders
<1>4. StoredBy(k) = StoredBy(machine)
  BY <1>1, Falls DEF StoredBy
<1> QED BY <1>1, <1>2, <1>3, <1>4, Falls, EndStep

(* What the players outside D hold is the same before and after a fall.    *)
LEMMA SetDownFallen ==
  ASSUME EntityInv, NEW D \in SUBSET Player, NEW C \in SUBSET Player, C \cap D = {}, NEW spr
  PROVE  SetDown(spr, machine, C) = SetDown(spr, Fallen(D), C)
<1>1. \A p \in Player \ D, s \in Slot :
        (\E e \in At(Fallen(D), s) : e.owner = p /\ e.flag = "HELD")
          <=> (\E e \in At(machine, s) : e.owner = p /\ e.flag = "HELD")
  BY FallSound DEF EntityInv, Fallen
<1>2. ASSUME NEW s \in Slot
      PROVE  (\E e \in At(machine, s) : e.owner \in C /\ e.flag = "HELD")
               <=> (\E e \in At(Fallen(D), s) : e.owner \in C /\ e.flag = "HELD")
  <2>1. \A e : e.owner \in C => e.owner \in Player \ D
    OBVIOUS
  <2> QED BY <1>1, <2>1
<1>3. \A s \in Slot :
        (\E e \in At(machine, s) : e.owner \in C /\ e.flag = "HELD" /\ spr[s].status = "carried")
          <=> (\E e \in At(Fallen(D), s) : e.owner \in C /\ e.flag = "HELD" /\ spr[s].status = "carried")
  BY <1>2
<1> QED BY <1>3 DEF SetDown

(* The frame ends and the course goes on.                                  *)
LEMMA EndContinueKeeps ==
  ASSUME EntityInv, NEW D \in SUBSET Player, NEW C \in SUBSET Player, NEW R \in SUBSET Player,
         EndContinue(D, C, R)
  PROVE  EntityInv'
<1> DEFINE f == Fallen(D)
           x == FallenSprites(D)
           k == Drop(f, C)
           spr2 == SetDown(x, machine, C)
<1>1. /\ phase = "frame" /\ outcome = "CONTINUE" /\ sprite' = spr2 /\ machine' = Retire(k, spr2)
      /\ riding' = [p \in Player |-> IF p \in R THEN machine.mount[p] # NoId ELSE FallenRiding(D)[p]]
      /\ phase' = "idle"
      /\ life' = [p \in Player |-> IF p \in C THEN "OUT" ELSE IF p \in R THEN "PLAYING"
                                    ELSE FallenLife(D)[p]]
      /\ UNCHANGED <<outcome, allowed, room, granted, aborted>>
      /\ C \cap D = {} /\ R \cap D = {}
  BY DEF EndContinue, Whose
<1>2. Settings'
  <2>1. /\ \A p \in Player : FallenLife(D)[p] \in {"PLAYING", "DYING", "OUT"}
        /\ \A p \in Player : FallenRiding(D)[p] \in BOOLEAN
    BY FallenTypes
  <2>2. life' \in [Player -> {"PLAYING", "DYING", "OUT"}] /\ riding' \in [Player -> BOOLEAN]
    BY <1>1, <2>1
  <2> QED BY <1>1, <2>2 DEF EntityInv, Settings
<1>3. /\ Sound(f, x) /\ Linked(f) /\ Capped(f, x)
      /\ f.stored = machine.stored /\ f.placed = machine.placed
      /\ \A s \in Slot : x[s].type = sprite[s].type
      /\ \A p \in Player : f.mount[p] = IF p \in D THEN NoId ELSE machine.mount[p]
  BY <1>1, Falls
<1>4. spr2 = SetDown(x, f, C)
  BY <1>1, SetDownFallen
<1>5. RoomAssumption
  BY DEF EntityInv
<1>6. \A p \in Player : FallenRiding(D)[p] => f.mount[p] # NoId
  BY <1>1, FallenRiders
<1> HIDE DEF f, x, spr2
<1>7. /\ Sound(k, spr2) /\ Linked(k) /\ Mounts(spr2) = Mounts(x)
      /\ \A s \in Slot : spr2[s].type = x[s].type
      /\ k.placed = f.placed /\ k.stored = f.stored /\ k.mount = f.mount
  BY <1>3, <1>4, <1>5, DropSound
<1> HIDE DEF k
<1>8. Capped(k, spr2)
  BY <1>3, <1>5, <1>7, CapKept
<1>9. \A p \in Player : riding'[p] => k.mount[p] # NoId
  <2> SUFFICES ASSUME NEW p \in Player, riding'[p] PROVE f.mount[p] # NoId
    BY <1>7
  <2>1. CASE p \in R
    BY <1>1, <1>3, <2>1
  <2>2. CASE p \notin R
    BY <1>1, <1>6, <2>2
  <2> QED BY <2>1, <2>2
<1>10. StoredBy(k) = StoredBy(machine)
  BY <1>3, <1>7 DEF StoredBy
<1> QED BY <1>1, <1>2, <1>3, <1>7, <1>8, <1>9, <1>10, EndStep

(* Players may lose what they hold and ride unknown to the sprites, and    *)
(* what is stored may be given up.                                         *)
Losers(m, back) ==
  [m EXCEPT !.mount = [p \in Player |-> IF p \in back THEN NoId ELSE @[p]],
            !.held = [p \in Player |-> IF p \in back THEN NoId ELSE @[p]]]

(* Players that come back have lost their mounts.                          *)
LEMMA LosersSound ==
  ASSUME RoomAssumption, NEW m, NEW spr, Sound(m, spr), NEW back
  PROVE  /\ Sound(Losers(m, back), spr)
         /\ Losers(m, back).stored = m.stored /\ Losers(m, back).placed = m.placed
         /\ Losers(m, back).entities = m.entities
         /\ \A p \in Player : Losers(m, back).mount[p] = IF p \in back THEN NoId ELSE m.mount[p]
<1> DEFINE k == Losers(m, back)
<1>m. m \in Machines
  BY DEF Sound
<1>n. NoId \in Id
  BY DEF NoId, Id, RoomAssumption
<1>1. /\ k \in Machines /\ k.entities = m.entities /\ k.next = m.next /\ k.stored = m.stored
      /\ k.placed = m.placed
      /\ \A p \in Player : k.mount[p] = IF p \in back THEN NoId ELSE m.mount[p]
      /\ \A p \in Player : k.held[p] = IF p \in back THEN NoId ELSE m.held[p]
  BY <1>m, <1>n DEF Losers, Machines
<1> HIDE DEF k
<1>2. HeldKnown(k) /\ MountKnown(k) /\ StoredApart(k)
  BY <1>1 DEF Sound, HeldKnown, MountKnown, StoredApart
<1>3. Ranged(k) /\ Distinct(k) /\ EggKnown(k) /\ OneMount(k)
  BY <1>1 DEF Sound, Ranged, Distinct, EggKnown, OneMount
<1>4. Matched(k, spr) /\ CarriedOwned(k, spr) /\ Granting(k, spr)
  BY <1>1 DEF Sound, Matched, CarriedOwned, Granting
<1>5. Sound(k, spr)
  BY <1>1, <1>2, <1>3, <1>4 DEF Sound
<1> QED BY <1>1, <1>5 DEF k

(* What the goal takes is forgotten with its sprites.                      *)
Taken(m, W)          == Forget(m, UNION {At(m, s) : s \in W})
TakenSprites(spr, W) == [s \in Slot |-> IF s \in W THEN Empty ELSE spr[s]]

(* The goal takes the carried sprites away.                                *)
LEMMA TakenSound ==
  ASSUME RoomAssumption, NEW m, NEW spr, Sound(m, spr), NEW W \in SUBSET Slot,
         \A s \in W : spr[s].status = "carried"
  PROVE  LET k == Taken(m, W)
             spr2 == TakenSprites(spr, W)
         IN  /\ Sound(k, spr2) /\ Mounts(spr2) \subseteq Mounts(spr)
             /\ k.stored = m.stored /\ k.placed.known = m.placed.known
             /\ k.placed.uses = m.placed.uses
             /\ \A s \in Slot : spr2[s].type \in {spr[s].type, "none"}
             /\ \A p \in Player : k.mount[p] = m.mount[p]
<1> DEFINE E == UNION {At(m, s) : s \in W}
           spr2 == [s \in Slot |-> IF s \in W THEN Empty ELSE spr[s]]
<1>m. m \in Machines /\ spr \in [Slot -> Sprites]
  BY DEF Sound
<1>1. Empty \in Sprites /\ Empty.status = "none" /\ Empty.type = "none" /\ Empty.egg = "none"
  BY DEF Empty, Sprites
<1>2. \A e \in m.entities : e.slot \in Slot
  BY <1>m DEF Machines, Record
<1>3. E \in SUBSET m.entities /\ \A e \in m.entities : e \in E <=> e.slot \in W
  BY <1>2 DEF At
<1>4. /\ spr2 \in [Slot -> Sprites] /\ \A s \in Slot : spr2[s] = IF s \in W THEN Empty ELSE spr[s]
  BY <1>m, <1>1
<1> HIDE DEF E, spr2
<1>5. \A e \in m.entities \ E : spr2[e.slot] = spr[e.slot]
  BY <1>2, <1>3, <1>4
<1>6. \A e \in E : spr2[e.slot].status # "carried"
  BY <1>1, <1>2, <1>3, <1>4
<1>7. Sound(Forget(m, E), spr2)
  BY <1>3, <1>4, <1>5, <1>6, ForgetSound
<1>8. \A e \in E : e.flag # "RIDDEN"
  BY <1>3 DEF Sound, Matched
<1>9. \A p \in Player : Forget(m, E).mount[p] = m.mount[p]
  <2>1. \A p \in Player : Forget(m, E).mount[p] = IF m.mount[p] \in Ids(E) THEN NoId ELSE m.mount[p]
    BY <1>m, ForgetFields
  <2>2. ASSUME NEW p \in Player, m.mount[p] # NoId PROVE m.mount[p] \notin Ids(E)
    BY <1>3, <1>8, <2>2, UnriddenMounts
  <2> QED BY <2>1, <2>2
<1>10. Mounts(spr2) \subseteq Mounts(spr)
  BY <1>1, <1>4 DEF Mounts
<1>11. \A s \in Slot : spr2[s].type \in {spr[s].type, "none"}
  BY <1>1, <1>4
<1> QED BY <1>m, <1>7, <1>9, <1>10, <1>11, ForgetFields DEF E, spr2, Taken, TakenSprites

(* The frame ends at the goal.                                             *)
LEMMA EndClearKeeps ==
  ASSUME EntityInv, NEW D \in SUBSET Player, NEW tape \in BOOLEAN, EndClear(D, tape)
  PROVE  EntityInv'
<1> DEFINE back == {p \in Player : FallenLife(D)[p] # "PLAYING"}
           f == Fallen(D)
           x == FallenSprites(D)
           W == {s \in Slot : tape /\ x[s].status = "carried"}
           spr2 == TakenSprites(x, W)
           j == Taken(f, W)
           k == Losers(j, back)
<1>1. /\ phase = "frame" /\ outcome = "CONTINUE" /\ sprite' = spr2 /\ machine' = Retire(k, spr2)
      /\ riding' = [p \in Player |-> riding[p] /\ p \notin back]
      /\ life' = [p \in Player |-> "PLAYING"] /\ outcome' = "CLEAR" /\ phase' = "idle"
      /\ UNCHANGED <<allowed, room, granted, aborted>>
  BY DEF EndClear, Losers, Taken, TakenSprites
<1>2. Settings'
  BY <1>1 DEF EntityInv, Settings
<1>3. /\ Sound(f, x) /\ Linked(f) /\ Capped(f, x)
      /\ f.stored = machine.stored /\ f.placed = machine.placed
      /\ \A s \in Slot : x[s].type = sprite[s].type
      /\ \A p \in Player : f.mount[p] = IF p \in D THEN NoId ELSE machine.mount[p]
  BY <1>1, Falls
<1>4. \A p \in D : FallenLife(D)[p] = "DYING"
  BY DEF FallenLife
<1>5. RoomAssumption /\ riding \in [Player -> BOOLEAN] /\ Riders
  BY DEF EntityInv, Settings
<1>6. \A p \in Player : riding'[p] => riding[p] /\ p \notin back /\ p \notin D
  BY <1>1, <1>4
<1>7. W \in SUBSET Slot /\ \A s \in W : x[s].status = "carried"
  OBVIOUS
<1> HIDE DEF back, f, x, W
<1>8. /\ Sound(j, spr2) /\ Mounts(spr2) \subseteq Mounts(x)
      /\ j.stored = f.stored /\ j.placed.known = f.placed.known
      /\ j.placed.uses = f.placed.uses
      /\ \A s \in Slot : spr2[s].type \in {x[s].type, "none"}
      /\ \A p \in Player : j.mount[p] = f.mount[p]
  BY <1>3, <1>5, <1>7, TakenSound
<1> HIDE DEF j, spr2
<1>9. /\ Sound(k, spr2) /\ k.stored = j.stored /\ k.placed = j.placed
      /\ \A p \in Player : k.mount[p] = IF p \in back THEN NoId ELSE j.mount[p]
  BY <1>5, <1>8, LosersSound
<1> HIDE DEF k
<1>10. Capped(k, spr2)
  BY <1>3, <1>5, <1>8, <1>9, CapKept
<1>11. \A p \in Player : riding'[p] => k.mount[p] # NoId
  BY <1>3, <1>5, <1>6, <1>8, <1>9 DEF Riders
<1>12. StoredBy(k) = StoredBy(machine)
  BY <1>3, <1>8, <1>9 DEF StoredBy
<1>13. \A s \in Slot : sprite'[s].type \in {sprite[s].type, "none"}
  BY <1>1, <1>3, <1>8
<1>14. k.placed.uses = machine.placed.uses /\ k.placed.known = machine.placed.known
  BY <1>3, <1>8, <1>9
<1> QED BY <1>1, <1>2, <1>9, <1>10, <1>11, <1>12, <1>13, <1>14, EndStep

(* The failed attempt's cleanup leaves nothing owned and nothing stored.   *)
LEMMA CleanupSound ==
  ASSUME RoomAssumption, NEW m, NEW spr, Sound(m, spr), NEW spr2,
         spr2 = [s \in Slot |-> IF \E e \in At(m, s) : e.owner # NoOne THEN Empty ELSE spr[s]]
  PROVE  LET k == Cleanup(m)
         IN  /\ Sound(k, spr2)
             /\ Linked(m) => Linked(k)
             /\ Mounts(spr2) \subseteq Mounts(spr)
             /\ StoredBy(k) = {} /\ \A e \in k.entities : e.owner = NoOne
             /\ k.placed.known = m.placed.known /\ k.placed.uses = m.placed.uses
             /\ \A s \in Slot : spr2[s].type \in {spr[s].type, "none"}
<1> DEFINE E == {e \in m.entities : e.owner # NoOne}
           j == Forget(m, E)
           k == Cleanup(m)
<1>m. m \in Machines /\ spr \in [Slot -> Sprites] /\ Distinct(m)
  BY DEF Sound
<1>1. Empty \in Sprites /\ Empty.status = "none" /\ Empty.type = "none" /\ Empty.egg = "none"
  BY DEF Empty, Sprites
<1>2. \A e \in m.entities : e.slot \in Slot
  BY <1>m DEF Machines, Record
<1>3. \A e \in m.entities : spr2[e.slot] = IF e \in E THEN Empty ELSE spr[e.slot]
  <2>1. ASSUME NEW e \in m.entities
        PROVE (\E g \in At(m, e.slot) : g.owner # NoOne) <=> e \in E
    BY <1>m DEF At, Distinct
  <2> QED BY <1>2, <2>1
<1>4. spr2 \in [Slot -> Sprites] /\ \A s \in Slot : spr2[s] = spr[s] \/ spr2[s] = Empty
  BY <1>m, <1>1
<1>5. E \in SUBSET m.entities /\ \A e \in m.entities : e \notin E => e.owner = NoOne
  OBVIOUS
<1>6. k = [j EXCEPT !.stored = Nobody]
  BY DEF Cleanup
<1> HIDE DEF E, k
<1>7. Sound(j, spr2) /\ (Linked(m) => Linked(j))
  <2>1. \A e \in m.entities \ E : spr2[e.slot] = spr[e.slot]
    BY <1>3
  <2>2. \A e \in E : spr2[e.slot].status # "carried"
    BY <1>1, <1>3, <1>5
  <2> QED BY <1>4, <1>5, <2>1, <2>2, ForgetSound
<1>8. j \in Machines /\ j.entities = m.entities \ E /\ j.placed.known = m.placed.known
      /\ j.placed.uses = m.placed.uses
  BY <1>m, ForgetFields
<1> HIDE DEF j
<1>9. Nobody \in [Player -> Id] /\ \A p \in Player : Nobody[p] = NoId
  BY DEF Nobody, NoId, Id, RoomAssumption
<1>10. /\ k \in Machines /\ k.entities = j.entities /\ k.mount = j.mount /\ k.held = j.held
       /\ k.stored = Nobody /\ k.next = j.next /\ k.placed = j.placed
  BY <1>6, <1>8, <1>9 DEF Machines
<1>11. Sound(k, spr2)
  <2>1. Ranged(k) /\ Distinct(k) /\ EggKnown(k) /\ HeldKnown(k) /\ MountKnown(k) /\ OneMount(k)
    BY <1>7, <1>10 DEF Sound, Ranged, Distinct, EggKnown, HeldKnown, MountKnown, OneMount
  <2>2. StoredApart(k)
    BY <1>9, <1>10 DEF StoredApart
  <2>3. Matched(k, spr2) /\ CarriedOwned(k, spr2)
    BY <1>7, <1>10 DEF Sound, Matched, CarriedOwned
  <2>4. Granting(k, spr2)
    BY <1>7, <1>10 DEF Sound, Granting
  <2> QED BY <1>7, <1>10, <2>1, <2>2, <2>3, <2>4 DEF Sound
<1>12. Linked(m) => Linked(k)
  BY <1>7, <1>10 DEF Linked
<1>13. Mounts(spr2) \subseteq Mounts(spr) /\ \A s \in Slot : spr2[s].type \in {spr[s].type, "none"}
  BY <1>1, <1>4 DEF Mounts
<1>14. StoredBy(k) = {} /\ \A e \in k.entities : e.owner = NoOne
  BY <1>5, <1>8, <1>9, <1>10 DEF StoredBy
<1> QED BY <1>8, <1>10, <1>11, <1>12, <1>13, <1>14 DEF k

(* The course is over.                                                     *)
LEMMA EndOverKeeps ==
  ASSUME EntityInv, NEW leave \in BOOLEAN, EndOver(leave) PROVE EntityInv'
<1> DEFINE clean == outcome = "RETRY" /\ Whose("DYING") = {}
           lost == [s \in Slot |-> IF \E e \in At(machine, s) : e.owner # NoOne
                                     THEN Empty ELSE sprite[s]]
<1>r. RoomAssumption /\ Sound(machine, sprite) /\ sprite \in [Slot -> Sprites] /\ Capped(machine, sprite)
      /\ riding \in [Player -> BOOLEAN]
  BY DEF EntityInv, Sound, Settings
<1>1. /\ phase = "frame" /\ outcome # "CONTINUE"
      /\ life' = [p \in Player |-> IF life[p] = "DYING" THEN "OUT" ELSE life[p]]
      /\ phase' \in {"load", "idle"} /\ room' \in {"egg", room}
      /\ phase' = "load" /\ outcome = "RETRY" => clean
      /\ UNCHANGED <<outcome, allowed, granted, aborted>>
  BY DEF EndOver
<1>2. clean => /\ sprite' = lost /\ machine' = Retire(Cleanup(machine), lost)
               /\ riding' = [p \in Player |-> FALSE]
  BY DEF EndOver
<1>3. ~clean => /\ sprite' = sprite /\ machine' = Retire(machine, sprite) /\ riding' = riding
  BY <1>r DEF EndOver
<1>o. clean => outcome = "RETRY"
  OBVIOUS
<1> HIDE DEF clean, lost
<1>4. Settings'
  BY <1>1, <1>2, <1>3 DEF EntityInv, Settings
<1>5. CASE clean
  <2> DEFINE k == Cleanup(machine)
  <2>1. /\ Sound(k, lost)
        /\ Linked(machine) => Linked(k)
        /\ Mounts(lost) \subseteq Mounts(sprite)
        /\ StoredBy(k) = {} /\ \A e \in k.entities : e.owner = NoOne
        /\ k.placed.known = machine.placed.known /\ k.placed.uses = machine.placed.uses
        /\ \A s \in Slot : lost[s].type \in {sprite[s].type, "none"}
    BY <1>r, CleanupSound DEF lost
  <2> HIDE DEF k
  <2>2. Capped(k, lost)
    <3>1. Cardinality(Mounts(lost)) <= Cardinality(Mounts(sprite))
      BY <1>r, <2>1, Counts, FS_Subset
    <3> QED BY <1>r, <2>1, <3>1, Counts DEF Capped, RoomAssumption
  <2>3. Linked(k)
    BY <1>1, <1>5, <1>o, <2>1 DEF EntityInv
  <2>4. machine' = Retire(k, sprite') /\ sprite' = lost /\ \A p \in Player : ~riding'[p]
    BY <1>2, <1>5 DEF k
  <2> QED BY <1>1, <1>4, <2>1, <2>2, <2>3, <2>4, EndStep
<1>6. CASE ~clean
  <2>1. machine' = Retire(machine, sprite') /\ sprite' = sprite /\ riding' = riding
    BY <1>3, <1>6
  <2>2. ~(phase' = "load" /\ outcome' = "RETRY") /\ (outcome' # "CLEAR" => Linked(machine))
    BY <1>1, <1>6 DEF EntityInv
  <2>3. \A p \in Player : riding'[p] => machine.mount[p] # NoId
    BY <2>1 DEF EntityInv, Riders
  <2>4. StoredBy(machine) \subseteq StoredBy(machine)
    OBVIOUS
  <2> QED BY <1>1, <1>4, <1>r, <2>1, <2>2, <2>3, <2>4, EndStep
<1> QED BY <1>5, <1>6

(* A source forgotten, or kept: the rest of the machine stays as it was.   *)
LEMMA SourceSound ==
  ASSUME RoomAssumption, NEW m, NEW spr, Sound(m, spr), NEW k \in Machines,
         k.entities = m.entities, k.next = m.next, k.stored = m.stored,
         \A p \in Player : k.mount[p] = m.mount[p] /\ k.held[p] = m.held[p],
         k.placed = m.placed \/ k.placed = NoSource
  PROVE  Sound(k, spr) /\ (Linked(m) => Linked(k))
<1>m. m \in Machines /\ \A e \in m.entities : e.id # NoId /\ (e.owner # NoOne => e.owner \in Player)
      /\ (e.owner = NoOne <=> e.flag = "none")
  BY DEF Sound, Machines, Ranged, Record, NoId
<1>1. Ranged(k) /\ Distinct(k) /\ HeldKnown(k) /\ MountKnown(k) /\ OneMount(k)
  BY DEF Sound, Ranged, Distinct, HeldKnown, MountKnown, OneMount
<1>2. StoredApart(k) /\ Matched(k, spr) /\ CarriedOwned(k, spr)
  BY DEF Sound, StoredApart, Matched, CarriedOwned
<1>3. EggKnown(k)
  BY DEF Sound, EggKnown, NoSource
<1>4. Granting(k, spr)
  BY <1>m DEF Sound, Granting, NoSource, RoomAssumption, Player
<1>5. Linked(m) => Linked(k)
  BY <1>m DEF Linked
<1> QED BY <1>1, <1>2, <1>3, <1>4, <1>5 DEF Sound

(* The machine is made anew for a room.                                    *)
LEMMA InitializeRoomKeeps ==
  ASSUME EntityInv, InitializeRoom PROVE EntityInv'
<1> DEFINE m == Retire(machine, sprite)
           retry == outcome = "RETRY"
           fresh == outcome # "CONTINUE"
<1>1. /\ phase = "enter" /\ outcome' = "CONTINUE" /\ phase' = "idle"
      /\ machine' = [m EXCEPT !.mount = IF retry THEN Nobody ELSE @,
                              !.held = IF retry THEN Nobody ELSE @,
                              !.placed = IF fresh THEN NoSource ELSE @,
                              !.uses = IF fresh THEN 0 ELSE @]
      /\ life' = [p \in Player |-> IF outcome = "CONTINUE" THEN life[p] ELSE "PLAYING"]
      /\ granted' = IF outcome = "CONTINUE" THEN granted ELSE 0
      /\ UNCHANGED <<sprite, riding, allowed, room, aborted>>
  BY DEF InitializeRoom
<1>2. /\ Sound(m, sprite)
      /\ Linked(m)
      /\ m.entities = {e \in machine.entities : sprite[e.slot].status # "none"}
      /\ m.stored = machine.stored
      /\ m.placed.known = machine.placed.known /\ m.placed.uses = machine.placed.uses
      /\ \A p \in Player : m.mount[p] = machine.mount[p]
  BY <1>1, RetireSound DEF EntityInv
<1>3. RoomAssumption
  BY DEF EntityInv
<1> HIDE DEF m
<1>4. m \in Machines
  BY <1>2 DEF Sound
<1>5. Nobody \in [Player -> Id] /\ NoSource \in Source /\ 0 \in 0 .. PlayerCount
      /\ \A p \in Player : Nobody[p] = NoId
  BY <1>3 DEF Nobody, NoSource, Source, Id, NoId, RoomAssumption
<1>6. /\ machine' \in Machines /\ machine'.entities = m.entities /\ machine'.next = m.next
      /\ machine'.stored = m.stored
      /\ machine'.mount = IF retry THEN Nobody ELSE m.mount
      /\ machine'.held = IF retry THEN Nobody ELSE m.held
      /\ machine'.placed = IF fresh THEN NoSource ELSE m.placed
  BY <1>1, <1>4, <1>5 DEF Machines
<1>7. retry => \A p \in Player : m.mount[p] = NoId /\ m.held[p] = NoId
  <2> SUFFICES ASSUME retry, NEW p \in Player, NEW e \in m.entities, e.owner = p PROVE FALSE
    BY <1>2 DEF Sound, MountKnown, HeldKnown
  <2> QED BY <1>1, <1>2 DEF EntityInv, Cleaned, Player, NoOne
<1>8. \A p \in Player : machine'.mount[p] = m.mount[p] /\ machine'.held[p] = m.held[p]
  BY <1>5, <1>6, <1>7
<1>9. machine'.placed = m.placed \/ machine'.placed = NoSource
  BY <1>6
<1>10. Sound(machine', sprite') /\ Linked(machine')
  BY <1>1, <1>2, <1>3, <1>6, <1>8, <1>9, SourceSound
<1>11. StoredBy(machine') = StoredBy(machine)
  BY <1>2, <1>6 DEF StoredBy
<1>12. Capped(machine', sprite')
  BY <1>1, <1>11 DEF EntityInv, Capped
<1>13. granted' <= machine'.placed.uses /\ ~(~allowed /\ machine'.placed.known)
  BY <1>1, <1>2, <1>6 DEF EntityInv, NoSource, Barred
<1>14. Settings'
  BY <1>1 DEF EntityInv, Settings
<1>15. Riders'
  BY <1>1, <1>2, <1>8 DEF EntityInv, Riders
<1>16. Barred' /\ Cleaned' /\ Swept'
  BY <1>1, <1>11, <1>13 DEF EntityInv, Barred, Cleaned, Swept
<1> QED BY <1>1, <1>3, <1>10, <1>12, <1>13, <1>14, <1>15, <1>16 DEF EntityInv

(* The invariant holds initially.                                          *)
LEMMA InitEntityInv ==
  ASSUME RoomAssumption, Init PROVE EntityInv
<1> USE DEF Init
<1>1. Nobody \in [Player -> Id] /\ NoSource \in Source /\ \A p \in Player : Nobody[p] = NoId
  BY DEF Nobody, NoSource, Source, Id, NoId, RoomAssumption
<1>2. Empty \in Sprites /\ Made(Empty) /\ Empty.status = "none" /\ Empty.type = "none" /\ Empty.egg = "none"
  BY DEF Empty, Sprites, Made
<1>3. machine \in Machines
  BY <1>1 DEF Machines, RoomAssumption
<1>4. machine.entities = {} /\ machine.placed.egg = NoId /\ machine.placed.uses = 0
      /\ machine.placed.known = FALSE
      /\ \A p \in Player : machine.mount[p] = NoId /\ machine.held[p] = NoId /\ machine.stored[p] = NoId
  BY <1>1 DEF NoSource
<1>5. sprite \in [Slot -> Sprites] /\ \A s \in Slot : Made(sprite[s]) /\ sprite[s] = Empty
  BY <1>2
<1>6. Sound(machine, sprite)
  <2>1. Ranged(machine) /\ Distinct(machine) /\ EggKnown(machine) /\ HeldKnown(machine)
        /\ MountKnown(machine) /\ StoredApart(machine) /\ OneMount(machine)
    BY <1>4 DEF Ranged, Distinct, EggKnown, HeldKnown, MountKnown, StoredApart, OneMount
  <2>2. Matched(machine, sprite) /\ CarriedOwned(machine, sprite) /\ Granting(machine, sprite)
    BY <1>2, <1>4, <1>5 DEF Matched, CarriedOwned, Granting, RoomAssumption
  <2> QED BY <1>3, <1>5, <2>1, <2>2 DEF Sound
<1>7. StoredBy(machine) = {} /\ Mounts(sprite) = {}
  BY <1>2, <1>4, <1>5 DEF StoredBy, Mounts
<1>8. Capped(machine, sprite)
  BY <1>7, FS_EmptySet DEF Capped, RoomAssumption
<1>9. Settings /\ Riders /\ Swept /\ Linked(machine)
  BY <1>4 DEF Settings, Riders, Swept, Linked
<1>10. Barred /\ Cleaned
  BY <1>4, <1>7 DEF Barred, Cleaned
<1> QED BY <1>4, <1>6, <1>8, <1>9, <1>10 DEF EntityInv

-----------------------------------------------------------------------------
(* The way to a room: the carried sprites take the first slots.            *)

(* A function that is one-to-one counts, and is onto where the counts agree. *)
LEMMA Injects ==
  ASSUME NEW S, NEW T, IsFiniteSet(T), NEW f \in [S -> T],
         \A a, b \in S : f[a] = f[b] => a = b
  PROVE  /\ IsFiniteSet(S) /\ Cardinality(S) \in Nat /\ Cardinality(T) \in Nat
         /\ Cardinality(S) <= Cardinality(T)
         /\ Cardinality(S) = Cardinality(T) => \A t \in T : \E s \in S : f[s] = t
<1>1. f \in Injection(S, T)
  BY DEF Injection, IsInjective
<1>2. f \in Surjection(S, T) => \A t \in T : \E s \in S : f[s] = t
  BY DEF Surjection
<1>3. IsFiniteSet(S) /\ Cardinality(S) <= Cardinality(T)
      /\ (Cardinality(S) = Cardinality(T) <=> f \in Surjection(S, T))
  BY <1>1, FS_Injection
<1> QED BY <1>2, <1>3, FS_CardinalityType

(* Slots can be counted.                                                   *)
LEMMA SlotsFinite ==
  ASSUME RoomAssumption, NEW S \in SUBSET Slot
  PROVE  IsFiniteSet(S) /\ Cardinality(S) \in Nat /\ Cardinality(S) <= SlotCount
<1>1. IsFiniteSet(Slot) /\ Cardinality(Slot) = SlotCount
  BY FS_Interval DEF Slot, RoomAssumption
<1> QED BY <1>1, FS_Subset, FS_CardinalityType

Count(spr) == Cardinality(Carried(spr))

(* The place a carried sprite gets in the next room is a slot of it.       *)
LEMMA PlaceRange ==
  ASSUME RoomAssumption, NEW spr, NEW s \in Carried(spr)
  PROVE  Place(spr, s) \in 1 .. Count(spr) /\ Count(spr) \in Nat
<1> DEFINE B == {r \in Carried(spr) : r <= s}
<1>1. IsFiniteSet(Carried(spr)) /\ Count(spr) \in Nat
  BY SlotsFinite DEF Carried, Count
<1>2. s \in B /\ B \in SUBSET Carried(spr)
  BY DEF Carried, Slot
<1> HIDE DEF B
<1>3. IsFiniteSet(B) /\ Cardinality(B) <= Count(spr) /\ Cardinality(B) \in Nat
  BY <1>1, <1>2, FS_Subset, FS_CardinalityType DEF Count
<1>4. Cardinality(B) # 0
  BY <1>2, <1>3, FS_EmptySet
<1>5. Place(spr, s) = Cardinality(B)
  BY DEF Place, B
<1> QED BY <1>1, <1>3, <1>4, <1>5

(* The places are in the order of the slots.                               *)
LEMMA PlaceGrows ==
  ASSUME RoomAssumption, NEW spr, NEW r \in Carried(spr), NEW s \in Carried(spr), r < s
  PROVE  Place(spr, r) < Place(spr, s)
<1> DEFINE A == {x \in Carried(spr) : x <= r}
           B == {x \in Carried(spr) : x <= s}
<1>1. A \cup {s} \in SUBSET B /\ s \notin A /\ A \in SUBSET Slot /\ B \in SUBSET Slot
  BY DEF Carried, Slot, RoomAssumption
<1>p. Place(spr, r) = Cardinality(A) /\ Place(spr, s) = Cardinality(B)
  BY DEF Place
<1> HIDE DEF A, B
<1>2. IsFiniteSet(A) /\ IsFiniteSet(B) /\ Cardinality(A) \in Nat /\ Cardinality(B) \in Nat
  BY <1>1, SlotsFinite
<1>3. Cardinality(A \cup {s}) = Cardinality(A) + 1
  BY <1>1, <1>2, FS_AddElement
<1>4. Cardinality(A \cup {s}) <= Cardinality(B)
  BY <1>1, <1>2, FS_Subset
<1> QED BY <1>p, <1>2, <1>3, <1>4

(* No two carried sprites get the same place.                              *)
LEMMA PlaceOnce ==
  ASSUME RoomAssumption, NEW spr, NEW r \in Carried(spr), NEW s \in Carried(spr),
         Place(spr, r) = Place(spr, s)
  PROVE  r = s
<1>1. r \in Int /\ s \in Int
  BY DEF Carried, Slot, RoomAssumption
<1>2. Place(spr, r) \in Int /\ Place(spr, s) \in Int
  BY PlaceRange
<1>3. ~(r < s)
  <2> SUFFICES ASSUME r < s PROVE FALSE
    OBVIOUS
  <2>1. Place(spr, r) < Place(spr, s)
    BY PlaceGrows
  <2> QED BY <1>2, <2>1
<1>4. ~(s < r)
  <2> SUFFICES ASSUME s < r PROVE FALSE
    OBVIOUS
  <2>1. Place(spr, s) < Place(spr, r)
    BY PlaceGrows
  <2> QED BY <1>2, <2>1
<1> QED BY <1>1, <1>3, <1>4

(* Every place up to the number of carried sprites is taken by one of them. *)
LEMMA PlaceTaken ==
  ASSUME RoomAssumption, NEW spr
  PROVE  /\ Count(spr) \in Nat /\ Count(spr) <= SlotCount
         /\ \A i \in 1 .. Count(spr) : Came(spr, i) \in Carried(spr) /\ Place(spr, Came(spr, i)) = i
         /\ \A s \in Carried(spr) : /\ Place(spr, s) \in 1 .. Count(spr)
                                    /\ Place(spr, s) \in Slot
                                    /\ Came(spr, Place(spr, s)) = s
<1> DEFINE f == [s \in Carried(spr) |-> Place(spr, s)]
           T == 1 .. Count(spr)
<1>1. Count(spr) \in Nat /\ Count(spr) <= SlotCount /\ IsFiniteSet(Carried(spr))
  BY SlotsFinite DEF Carried, Count
<1>2. IsFiniteSet(T) /\ Cardinality(T) = Count(spr)
  BY <1>1, FS_Interval
<1>3. f \in [Carried(spr) -> T] /\ \A s \in Carried(spr) : f[s] = Place(spr, s)
  BY PlaceRange
<1>4. \A a, b \in Carried(spr) : f[a] = f[b] => a = b
  BY <1>3, PlaceOnce
<1> HIDE DEF f, T
<1>5. \A t \in T : \E s \in Carried(spr) : f[s] = t
  BY <1>2, <1>3, <1>4, Injects DEF Count
<1>6. \A i \in T : \E r \in Carried(spr) : Place(spr, r) = i
  BY <1>3, <1>5
<1>7. \A i \in T : Came(spr, i) \in Carried(spr) /\ Place(spr, Came(spr, i)) = i
  BY <1>6 DEF Came
<1>8. ASSUME NEW s \in Carried(spr) PROVE Came(spr, Place(spr, s)) = s /\ Place(spr, s) \in T
  <2>1. Place(spr, s) \in T
    BY <1>3
  <2>2. Came(spr, Place(spr, s)) \in Carried(spr)
        /\ Place(spr, Came(spr, Place(spr, s))) = Place(spr, s)
    BY <1>7, <2>1
  <2> QED BY <2>1, <2>2, PlaceOnce
<1>9. T \subseteq Slot
  BY <1>1 DEF T, Slot, RoomAssumption
<1> QED BY <1>1, <1>7, <1>8, <1>9 DEF T

(* Parking: every mount is stored by its rider.                            *)
LEMMA ParkFields ==
  ASSUME RoomAssumption, NEW m, NEW spr, Sound(m, spr)
  PROVE  LET k == Park(m)
         IN  /\ k \in Machines /\ k.next = m.next
             /\ k.placed.known = m.placed.known /\ k.placed.uses = m.placed.uses
             /\ k.entities \subseteq m.entities
             /\ \A e \in m.entities : e \in k.entities <=> \A p \in Player : m.mount[p] # e.id
             /\ \A p \in Player : k.stored[p] = MountOf(m, p)
             /\ \A p \in Player : Ridden(m, p) # {} <=> m.mount[p] # NoId
<1> DEFINE parked == {p \in Player : Ridden(m, p) # {}}
           E == UNION {Ridden(m, p) : p \in parked}
           j == Forget(m, E)
           st == [p \in Player |-> IF p \in parked THEN m.mount[p] ELSE j.stored[p]]
           k == Park(m)
<1>m. m \in Machines /\ m.mount \in [Player -> Id] /\ m.stored \in [Player -> Id]
  BY DEF Sound, Machines
<1>1. \A p \in Player : Ridden(m, p) # {} <=> m.mount[p] # NoId
  BY DEF Sound, Ranged, MountKnown, Ridden, NoId
<1>2. \A e \in m.entities : e \in E <=> \E p \in Player : m.mount[p] = e.id
  BY DEF Ridden
<1>3. k = [j EXCEPT !.stored = st]
  BY DEF Park
<1>4. \A p \in Player : p \in parked <=> m.mount[p] # NoId
  BY <1>1
<1> HIDE DEF parked, k
<1>5. st = [p \in Player |-> IF p \in parked THEN m.mount[p] ELSE j.stored[p]]
  OBVIOUS
<1> HIDE DEF E, st
<1>6. /\ j \in Machines /\ j.entities = m.entities \ E /\ j.next = m.next /\ j.stored = m.stored
      /\ j.placed.known = m.placed.known /\ j.placed.uses = m.placed.uses
  BY <1>m, ForgetFields
<1> HIDE DEF j
<1>7. st \in [Player -> Id] /\ \A p \in Player : st[p] = MountOf(m, p)
  BY <1>m, <1>4, <1>5, <1>6 DEF MountOf
<1>8. /\ k \in Machines /\ k.entities = j.entities /\ k.next = j.next /\ k.stored = st
      /\ k.placed = j.placed
  BY <1>3, <1>6, <1>7 DEF Machines
<1> QED BY <1>1, <1>2, <1>6, <1>7, <1>8 DEF k

Kept(m, spr)  == {e \in m.entities : e.slot \in Carried(spr)}
Moved(E, spr) == {[e EXCEPT !.slot = Place(spr, e.slot)] : e \in E}
Holding(E, p) == {e \in E : e.owner = p /\ e.flag = "HELD"}

(* What carrying through a door changes.                                   *)
LEMMA CarryFields ==
  ASSUME RoomAssumption, NEW m \in Machines, NEW spr
  PROVE  LET k == CarryThrough(m, spr)
         IN  /\ k \in Machines /\ k.entities = Moved(Kept(m, spr), spr)
             /\ k.placed.egg = NoId /\ k.placed.known = m.placed.known
             /\ k.placed.uses = m.placed.uses
             /\ k.next = m.next /\ k.stored = m.stored
             /\ \A p \in Player : k.mount[p] = NoId
             /\ \A p \in Player : \/ Holding(Kept(m, spr), p) = {} /\ k.held[p] = NoId
                                  \/ \E e \in Holding(Kept(m, spr), p) : k.held[p] = e.id
<1> DEFINE K == Kept(m, spr)
           M == Moved(K, spr)
           h == [p \in Player |-> IF \E e \in K : e.owner = p /\ e.flag = "HELD"
                                   THEN (CHOOSE e \in K : e.owner = p /\ e.flag = "HELD").id ELSE NoId]
           k == CarryThrough(m, spr)
<1>0. NoId \in Id /\ Nobody \in [Player -> Id] /\ \A p \in Player : Nobody[p] = NoId
  BY DEF NoId, Id, Nobody, RoomAssumption
<1>1. k = [m EXCEPT !.entities = M, !.placed.egg = NoId, !.mount = Nobody, !.held = h]
  BY DEF CarryThrough, Kept, Moved
<1>2. K \in SUBSET Record /\ \A e \in K : e.slot \in Carried(spr)
  BY DEF Machines, Kept
<1>3. M \in SUBSET Record
  BY <1>2, PlaceTaken DEF Moved, Record
<1> HIDE DEF K
<1>4. ASSUME NEW p \in Player
      PROVE  /\ h[p] \in Id
             /\ \/ Holding(K, p) = {} /\ h[p] = NoId
                \/ \E e \in Holding(K, p) : h[p] = e.id
  <2>1. CASE \E e \in K : e.owner = p /\ e.flag = "HELD"
    <3> DEFINE g == CHOOSE e \in K : e.owner = p /\ e.flag = "HELD"
    <3>1. g \in K /\ g.owner = p /\ g.flag = "HELD"
      BY <2>1
    <3>2. h[p] = g.id
      BY <2>1
    <3> HIDE DEF g, h
    <3> QED BY <1>2, <3>1, <3>2 DEF Holding, Record
  <2>2. CASE ~\E e \in K : e.owner = p /\ e.flag = "HELD"
    BY <1>0, <2>2 DEF Holding
  <2> QED BY <2>1, <2>2
<1>5. h = [p \in Player |-> h[p]]
  OBVIOUS
<1> HIDE DEF M, k, h
<1>6. h \in [Player -> Id]
  BY <1>4, <1>5
<1>7. /\ k \in Machines /\ k.entities = M /\ k.next = m.next /\ k.stored = m.stored
      /\ k.mount = Nobody /\ k.held = h
      /\ k.placed.egg = NoId /\ k.placed.known = m.placed.known /\ k.placed.uses = m.placed.uses
  BY <1>0, <1>1, <1>3, <1>6 DEF Machines, Source
<1> QED BY <1>0, <1>4, <1>7 DEF k, M, K

(* What leaves the old room: its sprites with every reference of an owner  *)
(* in place, or none of them.                                              *)
Leaving(m, spr, spr2) == (spr2 = spr /\ Linked(m)) \/ (\A s \in Slot : spr2[s] = Empty)

(* What is kept at a door is what is carried, and is all that is carried.  *)
LEMMA KeptFacts ==
  ASSUME RoomAssumption, NEW m, NEW spr, Sound(m, spr), NEW spr2, Leaving(m, spr, spr2)
  PROVE  LET K == Kept(Park(m), spr2)
         IN  /\ K \in SUBSET m.entities
             /\ \A e \in K : /\ e \in Record /\ e.flag \in Carry /\ e.owner \in Player
                             /\ e.slot \in Carried(spr2) /\ spr2[e.slot].type = e.type
                             /\ e.id # NoId /\ e.id < m.next
                             /\ \A p \in Player : m.mount[p] # e.id
                             /\ e.flag = "HELD" => m.held[e.owner] = e.id
             /\ \A s \in Carried(spr2) : \E e \in K : e.slot = s
<1> DEFINE K == Kept(Park(m), spr2)
           P == Park(m).entities
<1>1. P \subseteq m.entities /\ \A e \in m.entities : e \in P <=> \A p \in Player : m.mount[p] # e.id
  BY ParkFields
<1>2. \A e : e \in K <=> e \in P /\ e.slot \in Carried(spr2)
  BY DEF Kept
<1>3. CASE \A s \in Slot : spr2[s] = Empty
  <2>1. Carried(spr2) = {}
    BY <1>3 DEF Carried, Empty
  <2> QED BY <1>2, <2>1
<1>4. CASE spr2 = spr /\ Linked(m)
  <2> HIDE DEF K, P
  <2>1. ASSUME NEW e \in K
        PROVE  /\ e \in m.entities /\ e \in Record /\ e.flag \in Carry /\ e.owner \in Player
               /\ e.slot \in Carried(spr2) /\ spr2[e.slot].type = e.type
               /\ e.id # NoId /\ e.id < m.next
               /\ \A p \in Player : m.mount[p] # e.id
               /\ e.flag = "HELD" => m.held[e.owner] = e.id
    <3>1. e \in m.entities /\ e \in Record /\ e.slot \in Slot /\ spr[e.slot].status = "carried"
          /\ \A p \in Player : m.mount[p] # e.id
      BY <1>1, <1>2, <1>4 DEF Sound, Machines, Carried
    <3>2. PICK g \in m.entities : g.slot = e.slot /\ g.flag \in Carry
      BY <3>1 DEF Sound, CarriedOwned
    <3>3. g = e
      BY <3>1, <3>2 DEF Sound, Distinct
    <3>4. e.owner \in Player /\ e.id # NoId /\ e.id < m.next
      <4>1. e.id \in 1 .. m.next - 1 /\ (e.owner = NoOne <=> e.flag = "none") /\ m.next \in Int
        BY <3>1 DEF Sound, Ranged, Machines
      <4> QED BY <3>1, <3>2, <3>3, <4>1 DEF Carry, Record, NoId
    <3>5. spr[e.slot].type = e.type
      BY <3>1 DEF Sound, Matched
    <3> QED BY <1>2, <1>4, <3>1, <3>2, <3>3, <3>4, <3>5 DEF Linked
  <2>2. ASSUME NEW s \in Carried(spr2) PROVE \E e \in K : e.slot = s
    <3>1. PICK g \in m.entities : g.slot = s /\ g.flag \in Carry
      BY <1>4 DEF Sound, CarriedOwned, Carried
    <3>2. ASSUME NEW p \in Player, m.mount[p] = g.id PROVE FALSE
      <4>1. g.id # NoId
        BY DEF Sound, Ranged, NoId
      <4>2. PICK e \in m.entities : e.id = m.mount[p] /\ e.flag = "RIDDEN"
        BY <3>2, <4>1 DEF Sound, MountKnown
      <4>3. e = g
        BY <3>2, <4>2 DEF Sound, Distinct
      <4> QED BY <3>1, <4>2, <4>3 DEF Carry
    <3>3. g \in K
      BY <1>1, <1>2, <3>1, <3>2
    <3> QED BY <3>1, <3>3
  <2>3. K \in SUBSET m.entities
    BY <2>1
  <2> QED BY <2>1, <2>2, <2>3 DEF K
<1> QED BY <1>3, <1>4 DEF Leaving

(* The sprites of the next room: the carried ones, and perhaps its egg.    *)
LEMMA LoadedFields ==
  ASSUME RoomAssumption, NEW spr \in [Slot -> Sprites], \A s \in Slot : Made(spr[s]),
         NEW ok \in BOOLEAN, NEW n
  PROVE  LET x == Loaded(spr, ok, n)
         IN  /\ x \in [Slot -> Sprites] /\ \A s \in Slot : Made(x[s])
             /\ \A s \in Slot : s <= Count(spr) =>
                  x[s] = spr[Came(spr, s)] /\ x[s].status = "carried"
             /\ \A s \in Slot : ~(s <= Count(spr)) =>
                  \/ x[s] = Empty
                  \/ s = SlotCount /\ ok /\ Count(spr) + n < SlotCount
                     /\ x[s] = Sprite("init", "egg", "waiting")
<1> DEFINE x == Loaded(spr, ok, n)
           c == Count(spr)
           egg == room = "egg" /\ ok /\ c + n < SlotCount
<1>1. x = [s \in Slot |-> IF s <= c THEN spr[Came(spr, s)]
                          ELSE IF s = SlotCount /\ egg THEN Sprite("init", "egg", "waiting")
                          ELSE Empty]
  BY DEF Loaded, Count
<1>2. Empty \in Sprites /\ Made(Empty)
  BY DEF Empty, Sprites, Made
<1>3. Sprite("init", "egg", "waiting") \in Sprites /\ Made(Sprite("init", "egg", "waiting"))
  BY DEF Sprite, Sprites, Made, Types
<1>4. ASSUME NEW s \in Slot, s <= c
      PROVE  Came(spr, s) \in Slot /\ spr[Came(spr, s)].status = "carried"
  <2>1. c \in Nat /\ s \in 1 .. c
    BY <1>4, PlaceTaken DEF Slot, RoomAssumption
  <2> QED BY <2>1, PlaceTaken DEF Carried
<1>5. \A s \in Slot : \/ s <= c /\ x[s] = spr[Came(spr, s)]
                      \/ ~(s <= c) /\ x[s] = Empty
                      \/ ~(s <= c) /\ s = SlotCount /\ egg /\ x[s] = Sprite("init", "egg", "waiting")
  BY <1>1
<1>6. \A s \in Slot : x[s] \in Sprites /\ Made(x[s])
  BY <1>2, <1>3, <1>4, <1>5
<1>7. x = [s \in Slot |-> x[s]]
  BY <1>1
<1> HIDE DEF x
<1>8. x \in [Slot -> Sprites]
  BY <1>6, <1>7
<1> QED BY <1>4, <1>5, <1>6, <1>8 DEF x

Shifted(e, s) == [e EXCEPT !.slot = s]

(* An identity that is kept moves with its sprite.                         *)
LEMMA MovedFields ==
  ASSUME RoomAssumption, NEW K \in SUBSET Record, NEW spr, \A e \in K : e.slot \in Carried(spr)
  PROVE  /\ \A f \in Moved(K, spr) : \E e \in K :
              /\ f.id = e.id /\ f.owner = e.owner /\ f.flag = e.flag /\ f.type = e.type
              /\ f.slot = Place(spr, e.slot) /\ Came(spr, f.slot) = e.slot
              /\ f.slot \in 1 .. Count(spr) /\ f.slot \in Slot
              /\ f = Shifted(e, Place(spr, e.slot))
         /\ \A e \in K : \E f \in Moved(K, spr) :
              /\ f.id = e.id /\ f.owner = e.owner /\ f.flag = e.flag /\ f.type = e.type
              /\ f.slot = Place(spr, e.slot)
<1>1. ASSUME NEW e \in K
      PROVE  LET f == Shifted(e, Place(spr, e.slot))
             IN  /\ f.id = e.id /\ f.owner = e.owner /\ f.flag = e.flag /\ f.type = e.type
                 /\ f.slot = Place(spr, e.slot) /\ Came(spr, f.slot) = e.slot
                 /\ f.slot \in 1 .. Count(spr) /\ f.slot \in Slot
  <2>1. Place(spr, e.slot) \in Slot /\ Place(spr, e.slot) \in 1 .. Count(spr)
        /\ Came(spr, Place(spr, e.slot)) = e.slot
    BY PlaceTaken
  <2> QED BY <2>1 DEF Shifted, Record
<1>2. Moved(K, spr) = {Shifted(e, Place(spr, e.slot)) : e \in K}
  BY DEF Moved, Shifted
<1> QED BY <1>1, <1>2

(* Parking and carrying through a door give a sound machine for the next room. *)
LEMMA CarrySound ==
  ASSUME RoomAssumption, NEW m, NEW spr, Sound(m, spr), NEW spr2 \in [Slot -> Sprites],
         \A s \in Slot : Made(spr2[s]), Leaving(m, spr, spr2), NEW ok \in BOOLEAN, NEW n
  PROVE  LET c == CarryThrough(Park(m), spr2)
             x == Loaded(spr2, ok, n)
         IN  /\ Sound(c, x) /\ Linked(c) /\ \A e \in c.entities : x[e.slot].status # "none"
             /\ \A e \in c.entities : e.owner # NoOne /\ e.id \in Ids(m.entities)
             /\ \A p \in Player : c.stored[p] = MountOf(m, p) /\ c.mount[p] = NoId
             /\ c.placed.known = m.placed.known /\ c.placed.uses = m.placed.uses
             /\ c.next = m.next
             /\ \A e \in c.entities : \E f \in m.entities : e.id = f.id /\ e.owner = f.owner
             /\ (spr2 = spr /\ Linked(m) /\ (\A e \in m.entities : spr[e.slot].status # "none"))
                  => \A p \in Player : c.held[p] = m.held[p]
<1> DEFINE P == Park(m)
           K == Kept(P, spr2)
           c == CarryThrough(P, spr2)
           x == Loaded(spr2, ok, n)
<1>m. /\ m \in Machines /\ \A e \in m.entities : e \in Record /\ e.id # NoId
      /\ m.mount \in [Player -> Id] /\ m.stored \in [Player -> Id] /\ m.held \in [Player -> Id]
      /\ m.next \in Nat
  BY DEF Sound, Machines, Ranged, NoId
<1>1. /\ P \in Machines /\ P.next = m.next
      /\ P.placed.known = m.placed.known /\ P.placed.uses = m.placed.uses
      /\ \A p \in Player : P.stored[p] = MountOf(m, p)
  BY ParkFields
<1>2. /\ K \in SUBSET m.entities
      /\ \A e \in K : /\ e \in Record /\ e.flag \in Carry /\ e.owner \in Player
                      /\ e.slot \in Carried(spr2) /\ spr2[e.slot].type = e.type
                      /\ e.id # NoId /\ e.id < m.next
                      /\ \A p \in Player : m.mount[p] # e.id
                      /\ e.flag = "HELD" => m.held[e.owner] = e.id
      /\ \A s \in Carried(spr2) : \E e \in K : e.slot = s
  BY KeptFacts
<1>h. (spr2 = spr /\ Linked(m) /\ (\A e \in m.entities : spr[e.slot].status # "none"))
        => \A p \in Player : m.held[p] # NoId => \E e \in Holding(K, p) : m.held[p] = e.id
  <2> SUFFICES ASSUME spr2 = spr, Linked(m), \A e \in m.entities : spr[e.slot].status # "none",
                      NEW p \in Player, m.held[p] # NoId
               PROVE  \E e \in Holding(K, p) : m.held[p] = e.id
    OBVIOUS
  <2>1. PICK e \in m.entities : e.id = m.held[p] /\ e.owner = p /\ e.flag = "HELD"
    BY DEF Sound, HeldKnown
  <2>2. e.slot \in Slot /\ spr[e.slot].status = "carried"
    BY <1>m, <2>1 DEF Sound, Matched, Carry, Record
  <2>3. PICK g \in K : g.slot = e.slot
    BY <1>2, <2>2 DEF Carried
  <2>4. g = e
    BY <1>2, <2>3 DEF Sound, Distinct
  <2> HIDE DEF K
  <2> QED BY <2>1, <2>3, <2>4 DEF Holding
<1> HIDE DEF P
<1>3. /\ c \in Machines /\ c.entities = Moved(K, spr2)
      /\ c.placed.egg = NoId /\ c.placed.known = P.placed.known
      /\ c.placed.uses = P.placed.uses
      /\ c.next = P.next /\ c.stored = P.stored
      /\ \A p \in Player : c.mount[p] = NoId
      /\ \A p \in Player : \/ Holding(K, p) = {} /\ c.held[p] = NoId
                           \/ \E e \in Holding(K, p) : c.held[p] = e.id
  BY <1>1, CarryFields
<1> HIDE DEF K, c
<1>4. /\ \A f \in c.entities : \E e \in K :
           /\ f.id = e.id /\ f.owner = e.owner /\ f.flag = e.flag /\ f.type = e.type
           /\ f.slot = Place(spr2, e.slot) /\ Came(spr2, f.slot) = e.slot
           /\ f.slot \in 1 .. Count(spr2) /\ f.slot \in Slot
           /\ f = Shifted(e, Place(spr2, e.slot))
      /\ \A e \in K : \E f \in c.entities :
           /\ f.id = e.id /\ f.owner = e.owner /\ f.flag = e.flag /\ f.type = e.type
           /\ f.slot = Place(spr2, e.slot)
  <2>1. K \in SUBSET Record /\ \A e \in K : e.slot \in Carried(spr2)
    BY <1>2
  <2> QED BY <1>3, <2>1, MovedFields
<1>5. /\ x \in [Slot -> Sprites] /\ \A s \in Slot : Made(x[s])
      /\ \A s \in Slot : s <= Count(spr2) => x[s] = spr2[Came(spr2, s)] /\ x[s].status = "carried"
      /\ \A s \in Slot : ~(s <= Count(spr2)) =>
           x[s] = Empty \/ x[s] = Sprite("init", "egg", "waiting")
  BY LoadedFields
<1> HIDE DEF x
<1>6. Count(spr2) \in Nat
  BY PlaceTaken
<1>7. \A f \in c.entities : x[f.slot].status = "carried" /\ x[f.slot].type = f.type
                            /\ f.flag \in Carry /\ f.owner \in Player
  <2> SUFFICES ASSUME NEW f \in c.entities
               PROVE  x[f.slot].status = "carried" /\ x[f.slot].type = f.type
                      /\ f.flag \in Carry /\ f.owner \in Player
    OBVIOUS
  <2>1. PICK e \in K : /\ f.owner = e.owner /\ f.flag = e.flag /\ f.type = e.type
                       /\ Came(spr2, f.slot) = e.slot
                       /\ f.slot \in 1 .. Count(spr2) /\ f.slot \in Slot
    BY <1>4
  <2>2. x[f.slot] = spr2[e.slot] /\ x[f.slot].status = "carried"
    BY <1>5, <1>6, <2>1
  <2> QED BY <1>2, <2>1, <2>2
<1>8. Ranged(c)
  <2> SUFFICES ASSUME NEW f \in c.entities
               PROVE  f.id \in 1 .. c.next - 1 /\ (f.owner = NoOne <=> f.flag = "none")
    BY DEF Ranged
  <2>1. PICK e \in K : f.id = e.id /\ f.owner = e.owner /\ f.flag = e.flag
    BY <1>4
  <2> QED BY <1>1, <1>2, <1>3, <2>1 DEF Sound, Ranged
<1>9. Distinct(c)
  <2> SUFFICES ASSUME NEW f \in c.entities, NEW g \in c.entities, f # g
               PROVE  f.id # g.id /\ f.slot # g.slot
    BY DEF Distinct
  <2>1. PICK e \in K : f.id = e.id /\ Came(spr2, f.slot) = e.slot /\ f = Shifted(e, Place(spr2, e.slot))
    BY <1>4
  <2>2. PICK d \in K : g.id = d.id /\ Came(spr2, g.slot) = d.slot /\ g = Shifted(d, Place(spr2, d.slot))
    BY <1>4
  <2>3. e # d
    BY <2>1, <2>2
  <2>4. e.id # d.id /\ e.slot # d.slot
    BY <1>2, <2>3 DEF Sound, Distinct
  <2> QED BY <2>1, <2>2, <2>4
<1>10. HeldKnown(c)
  <2> SUFFICES ASSUME NEW p \in Player, c.held[p] # NoId
               PROVE  \E f \in c.entities : f.id = c.held[p] /\ f.owner = p /\ f.flag = "HELD"
    BY DEF HeldKnown
  <2>1. PICK e \in K : e.owner = p /\ e.flag = "HELD" /\ c.held[p] = e.id
    BY <1>3 DEF Holding
  <2> QED BY <1>4, <2>1
<1>11. StoredApart(c)
  <2> SUFFICES ASSUME NEW p \in Player, c.stored[p] # NoId
               PROVE  /\ c.mount[p] = NoId /\ c.stored[p] < c.next /\ c.stored[p] \notin Ids(c.entities)
                      /\ \A q \in Player : p # q => c.stored[q] # c.stored[p]
    BY DEF StoredApart
  <2>1. c.stored[p] = MountOf(m, p)
    BY <1>1, <1>3
  <2>2. \A q \in Player : m.mount[q] # NoId =>
          \E e \in m.entities : e.id = m.mount[q] /\ e.owner = q
    BY DEF Sound, MountKnown
  <2>3. \A q \in Player : m.stored[q] # NoId =>
          /\ m.stored[q] < m.next /\ m.stored[q] \notin Ids(m.entities)
          /\ \A r \in Player : q # r => m.stored[r] # m.stored[q]
    BY DEF Sound, StoredApart
  <2>4. \A e \in m.entities : e.id < m.next /\ e.id \in Ids(m.entities)
    BY <1>m DEF Sound, Ranged, Ids
  <2>5. c.stored[p] < c.next
    BY <1>1, <1>3, <2>1, <2>2, <2>3, <2>4 DEF MountOf
  <2>6. \A e \in K : e.id # c.stored[p]
    BY <1>2, <2>1, <2>3, <2>4 DEF MountOf
  <2>7. c.stored[p] \notin Ids(c.entities)
    BY <1>4, <2>6 DEF Ids
  <2>8. ASSUME NEW q \in Player, p # q, c.stored[q] = c.stored[p] PROVE FALSE
    <3>1. MountOf(m, q) = MountOf(m, p) /\ MountOf(m, p) # NoId
      BY <1>1, <1>3, <2>1, <2>8
    <3>2. CASE m.mount[p] # NoId /\ m.mount[q] # NoId
      <4>1. m.mount[p] = m.mount[q]
        BY <3>1, <3>2 DEF MountOf
      <4> QED BY <2>2, <2>8, <3>2, <4>1 DEF Sound, Distinct
    <3>3. CASE m.mount[p] = NoId \/ m.mount[q] = NoId
      BY <2>2, <2>3, <2>4, <2>8, <3>1, <3>3 DEF MountOf
    <3> QED BY <3>2, <3>3
  <2> QED BY <1>3, <2>5, <2>7, <2>8
<1>12. MountKnown(c) /\ OneMount(c) /\ EggKnown(c)
  BY <1>3, <1>7 DEF MountKnown, OneMount, EggKnown, Carry
<1>13. Matched(c, x)
  BY <1>7 DEF Matched, Carry
<1>14. CarriedOwned(c, x)
  <2> SUFFICES ASSUME NEW s \in Slot, x[s].status = "carried"
               PROVE  \E f \in c.entities : f.slot = s /\ f.flag \in Carry
    BY DEF CarriedOwned
  <2>1. s <= Count(spr2)
    BY <1>5 DEF Empty, Sprite
  <2>2. s \in 1 .. Count(spr2)
    BY <1>6, <2>1 DEF Slot, RoomAssumption
  <2>3. Came(spr2, s) \in Carried(spr2) /\ Place(spr2, Came(spr2, s)) = s
    BY <2>2, PlaceTaken
  <2>4. PICK e \in K : e.slot = Came(spr2, s)
    BY <1>2, <2>3
  <2> QED BY <1>4, <1>7, <2>3, <2>4
<1>15. Granting(c, x)
  <2>1. \A f \in c.entities : f.id # NoId
    BY <1>8 DEF Ranged, NoId
  <2> QED BY <1>1, <1>3, <2>1 DEF Granting, Sound
<1>16. Sound(c, x)
  BY <1>3, <1>5, <1>8, <1>9, <1>10, <1>11, <1>12, <1>13, <1>14, <1>15 DEF Sound
<1>17. ASSUME NEW p \in Player, NEW e \in K, NEW d \in K,
              e.owner = p, e.flag = "HELD", d.owner = p, d.flag = "HELD"
       PROVE  e.id = d.id
  BY <1>2, <1>17
<1>18. Linked(c)
  <2> SUFFICES ASSUME NEW f \in c.entities
               PROVE  /\ f.flag = "HELD" => c.held[f.owner] = f.id
                      /\ f.flag = "RIDDEN" => c.mount[f.owner] = f.id
    BY DEF Linked
  <2>1. f.flag # "RIDDEN"
    BY <1>7 DEF Carry
  <2>2. ASSUME f.flag = "HELD" PROVE c.held[f.owner] = f.id
    <3>1. PICK e \in K : f.id = e.id /\ f.owner = e.owner /\ f.flag = e.flag
      BY <1>4
    <3>2. e.owner \in Player /\ e \in Holding(K, e.owner)
      BY <1>2, <2>2, <3>1 DEF Holding
    <3>3. PICK d \in Holding(K, e.owner) : c.held[e.owner] = d.id
      BY <1>3, <3>2
    <3>4. d.id = e.id
      BY <1>17, <3>2, <3>3 DEF Holding
    <3> QED BY <3>1, <3>3, <3>4
  <2> QED BY <2>1, <2>2
<1>19. (spr2 = spr /\ Linked(m) /\ (\A e \in m.entities : spr[e.slot].status # "none"))
         => \A p \in Player : c.held[p] = m.held[p]
  <2> SUFFICES ASSUME spr2 = spr, Linked(m), \A e \in m.entities : spr[e.slot].status # "none",
                      NEW p \in Player
               PROVE  c.held[p] = m.held[p]
    OBVIOUS
  <2>1. \A e \in Holding(K, p) : m.held[p] = e.id /\ e.id # NoId
    BY <1>2 DEF Holding
  <2>2. m.held[p] # NoId => Holding(K, p) # {}
    BY <1>h
  <2> QED BY <1>3, <2>1, <2>2
<1>20. \A f \in c.entities : \E e \in m.entities : f.id = e.id /\ f.owner = e.owner
  BY <1>2, <1>4
<1>21. \A f \in c.entities : f.owner # NoOne /\ f.id \in Ids(m.entities)
  BY <1>7, <1>20 DEF Ids, Player, NoOne
<1>22. \A e \in c.entities : x[e.slot].status # "none"
  BY <1>7
<1> QED BY <1>1, <1>3, <1>16, <1>18, <1>19, <1>20, <1>21, <1>22 DEF c, P, x

(* Who rides, and the slots they ride in.                                  *)
RidersOf(m)    == {p \in Player : m.mount[p] # NoId}
RiddenSlots(m) == {s \in Slot : \E e \in m.entities : e.slot = s /\ e.flag = "RIDDEN"}

(* There are no more riders than mounts.                                   *)
LEMMA RidersFit ==
  ASSUME RoomAssumption, NEW m, NEW spr, Sound(m, spr)
  PROVE  /\ IsFiniteSet(RidersOf(m)) /\ Cardinality(RidersOf(m)) \in Nat
         /\ Cardinality(RidersOf(m)) <= Cardinality(RiddenSlots(m))
         /\ RiddenSlots(m) \in SUBSET Mounts(spr)
         /\ \A s \in RiddenSlots(m) : spr[s].status = "alive"
<1> DEFINE h == [p \in RidersOf(m) |-> (CHOOSE e \in m.entities : e.id = m.mount[p] /\ e.owner = p
                                                                  /\ e.flag = "RIDDEN").slot]
<1>1. \A e \in m.entities : e \in Record /\ e.slot \in Slot
  BY DEF Sound, Machines, Record
<1>2. RiddenSlots(m) \in SUBSET Mounts(spr) /\ \A s \in RiddenSlots(m) : spr[s].status = "alive"
  BY DEF RiddenSlots, Mounts, Sound, Matched
<1>3. ASSUME NEW p \in RidersOf(m)
      PROVE  \E e \in m.entities : e.slot = h[p] /\ e.owner = p /\ e.flag = "RIDDEN"
  <2> DEFINE e == CHOOSE e \in m.entities : e.id = m.mount[p] /\ e.owner = p /\ e.flag = "RIDDEN"
  <2>1. e \in m.entities /\ e.owner = p /\ e.flag = "RIDDEN"
    BY DEF RidersOf, Sound, MountKnown
  <2>2. h[p] = e.slot
    OBVIOUS
  <2> HIDE DEF e, h
  <2> QED BY <2>1, <2>2
<1>4. h = [p \in RidersOf(m) |-> h[p]]
  OBVIOUS
<1> HIDE DEF h
<1>5. h \in [RidersOf(m) -> RiddenSlots(m)]
  <2>1. \A p \in RidersOf(m) : h[p] \in RiddenSlots(m)
    BY <1>1, <1>3 DEF RiddenSlots
  <2> QED BY <1>4, <2>1
<1>6. \A a, b \in RidersOf(m) : h[a] = h[b] => a = b
  BY <1>3 DEF Sound, Distinct
<1>7. IsFiniteSet(RiddenSlots(m))
  BY SlotsFinite DEF RiddenSlots
<1> QED BY <1>2, <1>5, <1>6, <1>7, Injects

(* The stored mounts of the next room: those ridden and those stored.      *)
LEMMA StoredThere ==
  ASSUME RoomAssumption, NEW m, NEW spr, Sound(m, spr), NEW c,
         \A p \in Player : c.stored[p] = MountOf(m, p)
  PROVE  /\ StoredBy(c) = RidersOf(m) \cup StoredBy(m)
         /\ Cardinality(StoredBy(c)) <= Cardinality(RidersOf(m)) + Cardinality(StoredBy(m))
<1>1. StoredBy(c) = RidersOf(m) \cup StoredBy(m)
  BY DEF StoredBy, RidersOf, MountOf
<1>2. IsFiniteSet(RidersOf(m)) /\ IsFiniteSet(StoredBy(m))
  BY RidersFit, Counts
<1>3. Cardinality(RidersOf(m) \cup StoredBy(m))
        = Cardinality(RidersOf(m)) + Cardinality(StoredBy(m))
          - Cardinality(RidersOf(m) \cap StoredBy(m))
  BY <1>2, FS_Union
<1>4. Cardinality(RidersOf(m) \cap StoredBy(m)) \in Nat /\ Cardinality(RidersOf(m)) \in Nat
      /\ Cardinality(StoredBy(m)) \in Nat
  BY <1>2, FS_Intersection, FS_CardinalityType
<1> QED BY <1>1, <1>3, <1>4

(* The mounts that are stored at a door were among the mounts.             *)
LEMMA CarryCapped ==
  ASSUME RoomAssumption, NEW m, NEW spr, Sound(m, spr), NEW spr2 \in [Slot -> Sprites],
         \A s \in Slot : Made(spr2[s]), Leaving(m, spr, spr2), NEW ok \in BOOLEAN, NEW n,
         Capped(m, spr), NEW c, \A p \in Player : c.stored[p] = MountOf(m, p)
  PROVE  Capped(c, Loaded(spr2, ok, n))
<1> DEFINE x == Loaded(spr2, ok, n)
           A == Mounts(spr2) \cap Carried(spr2)
           B == RiddenSlots(m)
           f == [s \in Mounts(x) |-> Came(spr2, s)]
<1>1. /\ \A s \in Slot : s <= Count(spr2) => x[s] = spr2[Came(spr2, s)] /\ x[s].status = "carried"
      /\ \A s \in Slot : ~(s <= Count(spr2)) =>
           x[s] = Empty \/ x[s] = Sprite("init", "egg", "waiting")
  BY LoadedFields
<1>2. Count(spr2) \in Nat
  BY PlaceTaken
<1> HIDE DEF x
<1>3. ASSUME NEW s \in Mounts(x)
      PROVE  s \in Slot /\ s \in 1 .. Count(spr2) /\ Came(spr2, s) \in A /\ Place(spr2, Came(spr2, s)) = s
  <2>1. s \in Slot /\ s <= Count(spr2)
    BY <1>1 DEF Mounts, Empty, Sprite
  <2>2. s \in 1 .. Count(spr2)
    BY <1>2, <2>1 DEF Slot, RoomAssumption
  <2>3. Came(spr2, s) \in Carried(spr2) /\ Place(spr2, Came(spr2, s)) = s
    BY <2>2, PlaceTaken
  <2>4. x[s] = spr2[Came(spr2, s)] /\ Came(spr2, s) \in Slot
    BY <1>1, <2>1, <2>3 DEF Carried
  <2>5. Came(spr2, s) \in Mounts(spr2)
    BY <2>4 DEF Mounts
  <2> QED BY <2>1, <2>2, <2>3, <2>5
<1>4. f \in [Mounts(x) -> A] /\ \A s \in Mounts(x) : f[s] = Came(spr2, s)
  BY <1>3
<1> HIDE DEF f, A
<1>5. \A a, b \in Mounts(x) : f[a] = f[b] => a = b
  BY <1>3, <1>4
<1>6. A \in SUBSET Mounts(spr) /\ A \cap B = {} /\ A \in SUBSET Slot
  <2>1. CASE \A s \in Slot : spr2[s] = Empty
    BY <2>1 DEF A, Carried, Empty
  <2>2. CASE spr2 = spr
    <3>1. \A s \in B : spr[s].status = "alive"
      BY RidersFit
    <3> QED BY <2>2, <3>1 DEF A, Carried, Mounts
  <2> QED BY <2>1, <2>2 DEF Leaving
<1>7. /\ IsFiniteSet(A) /\ Cardinality(A) \in Nat
      /\ Cardinality(Mounts(x)) <= Cardinality(A) /\ Cardinality(Mounts(x)) \in Nat
  <2>1. IsFiniteSet(A) /\ Cardinality(A) \in Nat
    BY <1>6, SlotsFinite
  <2> QED BY <1>4, <1>5, <2>1, Injects
<1>8. /\ B \in SUBSET Mounts(spr) /\ Cardinality(RidersOf(m)) <= Cardinality(B)
      /\ Cardinality(RidersOf(m)) \in Nat
  BY RidersFit
<1>9. IsFiniteSet(B) /\ Cardinality(B) \in Nat
  BY SlotsFinite DEF RiddenSlots
<1>10. Cardinality(A \cup B) = Cardinality(A) + Cardinality(B)
  <2>1. Cardinality(A \cup B) = Cardinality(A) + Cardinality(B) - Cardinality(A \cap B)
    BY <1>7, <1>9, FS_Union
  <2>2. Cardinality(A \cap B) = 0
    BY <1>6, FS_EmptySet
  <2> QED BY <1>7, <1>9, <2>1, <2>2
<1>11. Cardinality(A \cup B) <= Cardinality(Mounts(spr)) /\ Cardinality(Mounts(spr)) \in Nat
  <2>1. IsFiniteSet(Mounts(spr)) /\ Cardinality(Mounts(spr)) \in Nat /\ A \cup B \in SUBSET Mounts(spr)
    BY <1>6, <1>8, Counts
  <2> QED BY <2>1, FS_Subset
<1>12. Cardinality(StoredBy(c)) <= Cardinality(RidersOf(m)) + Cardinality(StoredBy(m))
       /\ Cardinality(StoredBy(c)) \in Nat /\ Cardinality(StoredBy(m)) \in Nat
  BY StoredThere, Counts
<1>13. Cardinality(Mounts(spr)) + Cardinality(StoredBy(m)) <= PlayerCount
  BY DEF Capped
<1>14. Cardinality(Mounts(x)) + Cardinality(StoredBy(c)) <= PlayerCount
  BY <1>7, <1>8, <1>9, <1>10, <1>11, <1>12, <1>13 DEF RoomAssumption
<1> QED BY <1>14 DEF Capped, x

(* Where mounts may come back, every one of them finds a slot: the guest   *)
(* puts its own egg into a slot only if there is one to spare.             *)
LEMMA SlotsSuffice ==
  ASSUME RoomAssumption, NEW m, NEW spr, Sound(m, spr), NEW spr2 \in [Slot -> Sprites],
         \A s \in Slot : Made(spr2[s]), Leaving(m, spr, spr2), NEW ok \in BOOLEAN,
         NEW c, \A p \in Player : c.stored[p] = MountOf(m, p),
         StoredBy(m) = {} \/ (\A s \in Slot : spr2[s] = Empty)
  PROVE  LET n == Cardinality(StoredBy(c))
             x == Loaded(spr2, ok, n)
         IN  n <= Cardinality(FreeSlots(x)) /\ Cardinality(FreeSlots(x)) \in Nat
<1> DEFINE n == Cardinality(StoredBy(c))
           x == Loaded(spr2, ok, n)
           N == Count(spr2)
           B == RiddenSlots(m)
<1>1. n \in Nat /\ n <= PlayerCount /\ N \in Nat /\ PlayerCount <= SlotCount
      /\ SlotCount \in Nat /\ PlayerCount \in Nat
  BY Counts, PlaceTaken DEF RoomAssumption
<1>2. N + n <= SlotCount
  <2>1. CASE \A s \in Slot : spr2[s] = Empty
    <3>1. Carried(spr2) = {}
      BY <2>1 DEF Carried, Empty
    <3>2. N = 0
      BY <3>1, FS_EmptySet DEF Count
    <3> QED BY <1>1, <3>2
  <2>2. CASE spr2 = spr /\ StoredBy(m) = {}
    <3>1. StoredBy(c) = RidersOf(m)
      BY <2>2, StoredThere
    <3>2. n <= Cardinality(B) /\ \A s \in B : spr[s].status = "alive"
      BY <3>1, RidersFit
    <3>3. Carried(spr2) \cap B = {} /\ Carried(spr2) \cup B \in SUBSET Slot
          /\ Carried(spr2) \in SUBSET Slot /\ B \in SUBSET Slot
      BY <2>2, <3>2 DEF Carried, RiddenSlots
    <3>4. /\ IsFiniteSet(Carried(spr2)) /\ IsFiniteSet(B) /\ Cardinality(B) \in Nat
          /\ Cardinality(Carried(spr2) \cup B) <= SlotCount
      BY <3>3, SlotsFinite
    <3>5. Cardinality(Carried(spr2) \cup B) = N + Cardinality(B) - Cardinality(Carried(spr2) \cap B)
      BY <3>4, FS_Union DEF Count
    <3>6. Cardinality(Carried(spr2) \cap B) = 0
      BY <3>3, FS_EmptySet
    <3> QED BY <1>1, <3>2, <3>4, <3>5, <3>6
  <2> QED BY <2>1, <2>2 DEF Leaving
<1>3. \A s \in Slot : s <= N => x[s].status = "carried"
  BY LoadedFields
<1>4. \A s \in Slot : ~(s <= N) => x[s] = Empty \/ (s = SlotCount /\ N + n < SlotCount)
  BY LoadedFields
<1> HIDE DEF n, x, N
<1>5. FreeSlots(x) \in SUBSET Slot
  BY DEF FreeSlots
<1>6. IsFiniteSet(FreeSlots(x)) /\ Cardinality(FreeSlots(x)) \in Nat
  BY <1>5, SlotsFinite
<1>7. CASE N + n < SlotCount
  <2> DEFINE I == N + 1 .. SlotCount - 1
  <2>1. I \in SUBSET FreeSlots(x)
    BY <1>1, <1>4 DEF FreeSlots, Slot, Empty
  <2>2. Cardinality(I) = IF N + 1 > SlotCount - 1 THEN 0 ELSE SlotCount - 1 - (N + 1) + 1
    BY <1>1, FS_Interval
  <2>3. Cardinality(I) <= Cardinality(FreeSlots(x))
    BY <1>6, <2>1, FS_Subset
  <2>4. n <= Cardinality(I) /\ Cardinality(I) \in Nat
    BY <1>1, <1>7, <2>2
  <2> HIDE DEF I
  <2>5. n <= Cardinality(FreeSlots(x))
    BY <1>1, <1>6, <2>3, <2>4
  <2> QED BY <1>6, <2>5 DEF n, x
<1>8. CASE ~(N + n < SlotCount)
  <2> DEFINE I == N + 1 .. SlotCount
  <2>1. I \in SUBSET FreeSlots(x)
    BY <1>1, <1>4, <1>8 DEF FreeSlots, Slot, Empty
  <2>2. Cardinality(I) = IF N + 1 > SlotCount THEN 0 ELSE SlotCount - (N + 1) + 1
    BY <1>1, FS_Interval
  <2>3. Cardinality(I) <= Cardinality(FreeSlots(x))
    BY <1>6, <2>1, FS_Subset
  <2>4. n <= Cardinality(I) /\ Cardinality(I) \in Nat
    BY <1>1, <1>2, <1>8, <2>2
  <2> HIDE DEF I
  <2>5. n <= Cardinality(FreeSlots(x))
    BY <1>1, <1>6, <2>3, <2>4
  <2> QED BY <1>6, <2>5 DEF n, x
<1> QED BY <1>7, <1>8

-----------------------------------------------------------------------------
(* The mounts come back, one player after another.                         *)

Seated == [Sprite("alive", "yoshi", "none") EXCEPT !.sat = TRUE]
Settled(spr, s) == [spr EXCEPT ![s] = Seated]

(* A stored mount comes back into a free slot.                             *)
LEMMA RespawnSound ==
  ASSUME RoomAssumption, NEW m, NEW spr, Sound(m, spr), Linked(m), NEW s \in Slot,
         spr[s].status = "none", At(m, s) = {}, m.next <= MaxId,
         NEW p \in Player, m.stored[p] # NoId
  PROVE  LET k == Respawn(m, s, p)
             x == Settled(spr, s)
         IN  /\ Sound(k, x) /\ Linked(k)
             /\ \A e \in k.entities : e \in m.entities \/ e.slot = s
             /\ \A q \in Player : k.mount[q] = IF q = p THEN m.stored[p] ELSE m.mount[q]
             /\ \A q \in Player : k.stored[q] = IF q = p THEN NoId ELSE m.stored[q]
             /\ k.next = m.next + 1 /\ k.held = m.held
             /\ k.placed.known = m.placed.known /\ k.placed.uses = m.placed.uses
             /\ x \in [Slot -> Sprites] /\ x[s].status = "alive"
             /\ \A r \in Slot : r # s => x[r] = spr[r]
<1> DEFINE j == Spawn(m, s, "yoshi")
           e == Entity(m, s, "yoshi")
           id == m.stored[p]
           f == [e EXCEPT !.id = id, !.owner = p, !.flag = "RIDDEN"]
           k == Respawn(m, s, p)
           x == Settled(spr, s)
<1>m. /\ m \in Machines /\ spr \in [Slot -> Sprites] /\ m.mount \in [Player -> Id]
      /\ m.stored \in [Player -> Id] /\ m.next \in Nat /\ m.next # 0
      /\ \A g \in m.entities : g \in Record /\ g.id # NoId /\ g.id < m.next /\ g.slot # s
  BY DEF Sound, Machines, Ranged, NoId, At
<1>1. /\ Seated \in Sprites /\ Made(Seated) /\ Seated.status = "alive" /\ Seated.type = "yoshi"
      /\ Seated.sat = TRUE /\ Seated.egg = "none"
  BY DEF Seated, Sprite, Sprites, Made, Types
<1>2. /\ x \in [Slot -> Sprites] /\ x[s] = Seated /\ \A r \in Slot : r # s => x[r] = spr[r]
  BY <1>m, <1>1 DEF Settled
<1> HIDE DEF x
<1>3. /\ j.entities = m.entities \cup {e} /\ In(j, s) = e /\ e \in j.entities
      /\ j.next = m.next + 1 /\ j.stored = m.stored /\ j.uses = m.uses
      /\ j.placed.known = m.placed.known /\ j.placed.uses = m.placed.uses
      /\ j.placed.egg = m.placed.egg /\ j.held = m.held /\ j.mount = m.mount
      /\ j \in Machines
  <2> DEFINE t == "yoshi"
  <2>1. t \in Types /\ x[s].type = t /\ x[s].status \notin {"none", "carried"} /\ Made(x[s])
    BY <1>1, <1>2 DEF Types
  <2>2. LET i == Spawn(m, s, t)
        IN  /\ Sound(i, x)
            /\ i.entities = (m.entities \ At(m, s)) \cup {Entity(m, s, t)}
            /\ Entity(m, s, t) \in i.entities /\ In(i, s) = Entity(m, s, t)
            /\ i.next = m.next + 1 /\ i.stored = m.stored /\ i.uses = m.uses
            /\ i.placed.known = m.placed.known /\ i.placed.uses = m.placed.uses
            /\ At(m, s) = {} => i.placed.egg = m.placed.egg /\ i.held = m.held /\ i.mount = m.mount
    <3> HIDE DEF t
    <3> QED BY <1>2, <2>1, SpawnSound
  <2> QED BY <2>2 DEF Sound
<1> HIDE DEF j
<1>4. /\ e \in Record /\ e.id = m.next /\ e.slot = s /\ e.type = "yoshi" /\ e \notin m.entities
  <2>1. m.next \in Id
    BY <1>m DEF Id
  <2> QED BY <1>m, <2>1 DEF Entity, Record, Types, Flags, NoOne
<1> HIDE DEF e
<1>5. id \in Id /\ id # NoId /\ id < m.next /\ id \notin Ids(m.entities) /\ m.mount[p] = NoId
      /\ id \in Nat
      /\ \A q \in Player : p # q => m.stored[q] # id
  BY <1>m DEF Sound, StoredApart, Id, RoomAssumption
<1> HIDE DEF id
<1>6. /\ f \in Record /\ f.id = id /\ f.slot = s /\ f.type = "yoshi" /\ f.owner = p
      /\ f.flag = "RIDDEN"
  BY <1>4, <1>5 DEF Record, Flags
<1>7. k = [Change(j, e, f) EXCEPT !.mount[p] = id, !.stored[p] = NoId]
  BY <1>3 DEF Respawn, id, j
<1> HIDE DEF f, k
<1>8. /\ k \in Machines /\ k.entities = (j.entities \ {e}) \cup {f} /\ k.next = j.next
      /\ k.held = j.held /\ k.placed = j.placed /\ k.uses = j.uses
      /\ k.mount = [j.mount EXCEPT ![p] = id] /\ k.stored = [j.stored EXCEPT ![p] = NoId]
  <2>1. NoId \in Id
    BY DEF NoId, Id, RoomAssumption
  <2> QED BY <1>3, <1>4, <1>5, <1>6, <1>7, <2>1 DEF Change, Machines
<1>9. /\ k.entities = m.entities \cup {f} /\ k.next = m.next + 1 /\ k.held = m.held
      /\ k.placed.egg = m.placed.egg /\ k.placed.uses = m.placed.uses
      /\ k.placed.known = m.placed.known
      /\ \A q \in Player : k.mount[q] = IF q = p THEN id ELSE m.mount[q]
      /\ \A q \in Player : k.stored[q] = IF q = p THEN NoId ELSE m.stored[q]
  BY <1>m, <1>3, <1>4, <1>8
<1>10. p # NoOne /\ p \in Player
  BY DEF Player, NoOne
<1>11. \A g \in m.entities : g.id # id /\ x[g.slot] = spr[g.slot] /\ g.slot \in Slot
  BY <1>m, <1>2, <1>5 DEF Ids, Record
<1>12. \A g \in m.entities : ~(g.flag = "RIDDEN" /\ g.owner = p)
  BY <1>m, <1>5 DEF Linked
<1>13. Ranged(k)
  <2>1. \A g \in m.entities : g.id \in 1 .. m.next - 1 /\ (g.owner = NoOne <=> g.flag = "none")
    BY DEF Sound, Ranged
  <2>2. f.id \in 1 .. k.next - 1 /\ (f.owner = NoOne <=> f.flag = "none")
    BY <1>m, <1>5, <1>6, <1>9, <1>10 DEF NoId
  <2> QED BY <1>m, <1>9, <2>1, <2>2 DEF Ranged
<1>14. Distinct(k)
  BY <1>m, <1>6, <1>9, <1>11 DEF Sound, Distinct
<1>15. EggKnown(k) /\ HeldKnown(k)
  BY <1>9 DEF Sound, EggKnown, HeldKnown
<1>16. MountKnown(k)
  BY <1>6, <1>9 DEF Sound, MountKnown
<1>17. StoredApart(k)
  <2> SUFFICES ASSUME NEW q \in Player, k.stored[q] # NoId
               PROVE  /\ k.mount[q] = NoId /\ k.stored[q] < k.next /\ k.stored[q] \notin Ids(k.entities)
                      /\ \A r \in Player : q # r => k.stored[r] # k.stored[q]
    BY DEF StoredApart
  <2>1. q # p /\ k.stored[q] = m.stored[q] /\ k.mount[q] = m.mount[q]
    BY <1>9
  <2>2. /\ m.mount[q] = NoId /\ m.stored[q] < m.next /\ m.stored[q] \notin Ids(m.entities)
        /\ \A r \in Player : q # r => m.stored[r] # m.stored[q]
        /\ m.stored[q] \in Nat
    BY <1>m, <2>1 DEF Sound, StoredApart, Id
  <2>3. m.stored[q] \notin Ids(k.entities)
    BY <1>5, <1>6, <1>9, <2>1, <2>2 DEF Ids
  <2> QED BY <1>m, <1>9, <2>1, <2>2, <2>3
<1>18. OneMount(k)
  BY <1>6, <1>9, <1>12 DEF Sound, OneMount
<1>19. Matched(k, x)
  BY <1>1, <1>2, <1>6, <1>9, <1>11 DEF Sound, Matched, Carry
<1>20. CarriedOwned(k, x)
  BY <1>1, <1>2, <1>9 DEF Sound, CarriedOwned
<1>21. Granting(k, x)
  BY <1>1, <1>2, <1>6, <1>9, <1>11 DEF Sound, Granting
<1>22. \A r \in Slot : Made(x[r])
  BY <1>1, <1>2 DEF Sound
<1>23. Sound(k, x)
  BY <1>2, <1>8, <1>13, <1>14, <1>15, <1>16, <1>17, <1>18, <1>19, <1>20, <1>21, <1>22 DEF Sound
<1>24. Linked(k)
  <2>1. \A g \in m.entities : g.flag = "RIDDEN" => g.owner \in Player /\ g.owner # p
    BY <1>m, <1>12 DEF Sound, Ranged, Record, NoOne
  <2> QED BY <1>6, <1>9, <2>1 DEF Linked
<1> QED BY <1>1, <1>2, <1>6, <1>9, <1>23, <1>24 DEF k, x, id

(* The highest free slot, if there is one.                                 *)
LEMMA LastFreeSlot ==
  ASSUME RoomAssumption, NEW spr, FreeSlots(spr) # {}
  PROVE  LastFree(spr) \in FreeSlots(spr)
<1> DEFINE T == {i \in Nat : \E s \in FreeSlots(spr) : i = SlotCount - s}
<1>1. \A s \in FreeSlots(spr) : s \in Int /\ SlotCount - s \in Nat
  BY DEF FreeSlots, Slot, RoomAssumption
<1>2. T # {} /\ T \in SUBSET Nat
  BY <1>1
<1> HIDE DEF T
<1>3. PICK i \in T : \A j \in T : i <= j
  BY <1>2, NatLeast
<1>4. PICK s \in FreeSlots(spr) : i = SlotCount - s
  BY <1>3 DEF T
<1>5. \A r \in FreeSlots(spr) : SlotCount - r \in T
  BY <1>1 DEF T
<1>6. ASSUME NEW r \in FreeSlots(spr) PROVE r <= s
  <2>1. i <= SlotCount - r
    BY <1>3, <1>5
  <2> QED BY <1>1, <1>4, <2>1 DEF RoomAssumption
<1> QED BY <1>6 DEF LastFree

(* What holds once the players 1 to p are served: v, from w.               *)
States == [m : Machines, spr : [Slot -> Sprites], ok : BOOLEAN]

Coming(w, ok, p, v) ==
  /\ v \in States /\ v.ok = TRUE
  /\ Sound(v.m, v.spr) /\ Linked(v.m) /\ Capped(v.m, v.spr)
  /\ \A e \in v.m.entities : v.spr[e.slot].status # "none"
  /\ v.m.next + (PlayerCount - p) <= MaxId + 1
  /\ \A q \in Player : MountOf(v.m, q) = MountOf(w.m, q) /\ v.m.held[q] = w.m.held[q]
  /\ v.m.placed.known = w.m.placed.known /\ v.m.placed.uses = w.m.placed.uses
  /\ ~ok \/ StoredBy(w.m) = {} => v = w
  /\ ok => /\ Cardinality(StoredBy(v.m)) <= Cardinality(FreeSlots(v.spr))
           /\ \A q \in Player : q <= p => v.m.stored[q] = NoId

Served(v, k, s) == [v EXCEPT !.m = k, !.spr[s] = Seated]

(* What a state is once a player has been served.                          *)
LEMMA ServedFields ==
  ASSUME NEW v \in States, NEW k \in Machines, NEW s, Settled(v.spr, s) \in [Slot -> Sprites]
  PROVE  LET u == Served(v, k, s)
         IN  u \in States /\ u.m = k /\ u.spr = Settled(v.spr, s) /\ u.ok = v.ok
BY DEF States, Settled, Served

(* One more player is served: the next step of RespawnAll.                 *)
LEMMA ReturnedComes ==
  ASSUME RoomAssumption, NEW w, NEW ok \in BOOLEAN, NEW p \in 1 .. PlayerCount, NEW v,
         Coming(w, ok, p - 1, v)
  PROVE  Coming(w, ok, p, Returned(v, p, ok))
<1>p. p \in Player /\ p \in Int /\ PlayerCount \in Int /\ \A q \in Player : q <= p => q = p \/ q <= p - 1
  BY DEF Player, RoomAssumption
<1>v. /\ v \in States /\ v.ok = TRUE /\ v.m \in Machines /\ v.m.next \in Int
      /\ Sound(v.m, v.spr) /\ Linked(v.m) /\ Capped(v.m, v.spr)
      /\ \A e \in v.m.entities : v.spr[e.slot].status # "none"
      /\ v.m.next + (PlayerCount - (p - 1)) <= MaxId + 1
      /\ \A q \in Player : MountOf(v.m, q) = MountOf(w.m, q) /\ v.m.held[q] = w.m.held[q]
      /\ v.m.placed.known = w.m.placed.known /\ v.m.placed.uses = w.m.placed.uses
      /\ ~ok \/ StoredBy(w.m) = {} => v = w
      /\ ok => /\ Cardinality(StoredBy(v.m)) <= Cardinality(FreeSlots(v.spr))
               /\ \A q \in Player : q <= p - 1 => v.m.stored[q] = NoId
  BY DEF Coming, States, Machines
<1>i. MaxId \in Int
  BY DEF RoomAssumption
<1>1. CASE v.m.stored[p] = NoId \/ ~ok
  <2>1. Returned(v, p, ok) = v
    BY <1>1 DEF Returned
  <2>2. v.m.next + (PlayerCount - p) <= MaxId + 1
    BY <1>p, <1>v, <1>i
  <2>3. ok => \A q \in Player : q <= p => v.m.stored[q] = NoId
    BY <1>1, <1>p, <1>v
  <2> QED BY <1>v, <2>1, <2>2, <2>3 DEF Coming
<1>2. CASE v.m.stored[p] # NoId /\ ok
  <2> DEFINE s == LastFree(v.spr)
             k == Respawn(v.m, s, p)
             x == Settled(v.spr, s)
             u == Returned(v, p, ok)
  <2>1. StoredBy(w.m) # {}
    BY <1>2, <1>p, <1>v DEF StoredBy
  <2>2. /\ p \in StoredBy(v.m) /\ IsFiniteSet(StoredBy(v.m)) /\ Cardinality(StoredBy(v.m)) \in Nat
        /\ Cardinality(StoredBy(v.m)) # 0
    <3>1. p \in StoredBy(v.m)
      BY <1>2, <1>p DEF StoredBy
    <3> QED BY <3>1, Counts, FS_EmptySet
  <2>3. IsFiniteSet(FreeSlots(v.spr)) /\ Cardinality(FreeSlots(v.spr)) \in Nat
    BY SlotsFinite DEF FreeSlots
  <2>4. FreeSlots(v.spr) # {}
    BY <1>2, <1>v, <2>2, <2>3, FS_EmptySet
  <2>5. s \in FreeSlots(v.spr) /\ s \in Slot /\ v.spr[s].status = "none" /\ At(v.m, s) = {}
    BY <1>v, <2>4, LastFreeSlot DEF FreeSlots, At
  <2>6. u = Served(v, k, s)
    BY <1>2, <2>4 DEF Returned, Seated, Served
  <2>7. v.m.next <= MaxId
    BY <1>v, <1>i, <1>p
  <2> HIDE DEF s
  <2>8. /\ Sound(k, x) /\ Linked(k)
        /\ \A e \in k.entities : e \in v.m.entities \/ e.slot = s
        /\ \A q \in Player : k.mount[q] = IF q = p THEN v.m.stored[p] ELSE v.m.mount[q]
        /\ \A q \in Player : k.stored[q] = IF q = p THEN NoId ELSE v.m.stored[q]
        /\ k.next = v.m.next + 1 /\ k.held = v.m.held
        /\ k.placed.known = v.m.placed.known /\ k.placed.uses = v.m.placed.uses
        /\ x \in [Slot -> Sprites] /\ x[s].status = "alive"
        /\ \A r \in Slot : r # s => x[r] = v.spr[r]
    BY <1>2, <1>p, <1>v, <2>5, <2>7, RespawnSound
  <2> HIDE DEF k, x, u
  <2>9. k \in Machines
    BY <2>8 DEF Sound
  <2>10. u \in States /\ u.m = k /\ u.spr = x /\ u.ok = TRUE
    BY <1>v, <2>6, <2>8, <2>9, ServedFields DEF x
  <2>11. StoredBy(k) = StoredBy(v.m) \ {p}
    BY <2>8 DEF StoredBy
  <2>12. FreeSlots(x) = FreeSlots(v.spr) \ {s}
    BY <2>5, <2>8 DEF FreeSlots
  <2>13. Mounts(x) \subseteq Mounts(v.spr) \cup {s}
    BY <2>8 DEF Mounts
  <2>14. /\ Cardinality(StoredBy(k)) = Cardinality(StoredBy(v.m)) - 1
         /\ Cardinality(FreeSlots(x)) = Cardinality(FreeSlots(v.spr)) - 1
    <3>1. Cardinality(StoredBy(v.m) \ {p}) = Cardinality(StoredBy(v.m)) - 1
      BY <2>2, FS_RemoveElement
    <3>2. Cardinality(FreeSlots(v.spr) \ {s}) = Cardinality(FreeSlots(v.spr)) - 1
      BY <2>3, <2>5, FS_RemoveElement
    <3> QED BY <2>11, <2>12, <3>1, <3>2
  <2>15. Cardinality(Mounts(x)) <= Cardinality(Mounts(v.spr)) + 1
         /\ Cardinality(Mounts(x)) \in Nat /\ Cardinality(Mounts(v.spr)) \in Nat
    <3>1. IsFiniteSet(Mounts(v.spr)) /\ Cardinality(Mounts(v.spr)) \in Nat
          /\ Cardinality(Mounts(x)) \in Nat
      BY Counts
    <3>2. /\ IsFiniteSet(Mounts(v.spr) \cup {s})
          /\ Cardinality(Mounts(v.spr) \cup {s}) \in {Cardinality(Mounts(v.spr)), Cardinality(Mounts(v.spr)) + 1}
      BY <3>1, FS_AddElement
    <3>3. Cardinality(Mounts(x)) <= Cardinality(Mounts(v.spr) \cup {s})
      BY <2>13, <3>2, FS_Subset
    <3> QED BY <3>1, <3>2, <3>3
  <2>16. Capped(k, x)
    BY <1>v, <1>p, <2>2, <2>14, <2>15 DEF Capped
  <2>17. k.next + (PlayerCount - p) <= MaxId + 1
    BY <1>p, <1>v, <1>i, <2>8
  <2>18. ASSUME NEW q \in Player
         PROVE  MountOf(k, q) = MountOf(v.m, q) /\ k.held[q] = v.m.held[q]
    <3>1. v.m.mount[p] = NoId
      BY <1>2, <1>p, <1>v DEF Sound, StoredApart
    <3> QED BY <1>2, <2>8, <3>1 DEF MountOf
  <2>19. Cardinality(StoredBy(k)) <= Cardinality(FreeSlots(x))
    BY <1>2, <1>v, <2>2, <2>3, <2>14
  <2>20. \A q \in Player : q <= p => k.stored[q] = NoId
    BY <1>2, <1>p, <1>v, <2>8
  <2>21. \A e \in k.entities : x[e.slot].status # "none"
    <3>1. \A e \in v.m.entities : e.slot \in Slot
      BY <1>v DEF Machines, Record
    <3> QED BY <1>v, <2>8, <3>1
  <2>22. Coming(w, ok, p, u)
    BY <1>2, <1>v, <2>1, <2>8, <2>10, <2>16, <2>17, <2>18, <2>19, <2>20, <2>21 DEF Coming
  <2> QED BY <2>22 DEF u
<1> QED BY <1>1, <1>2

(* All players are served.                                                 *)
LEMMA RespawnAllComes ==
  ASSUME RoomAssumption, NEW w, NEW ok \in BOOLEAN, Coming(w, ok, 0, w)
  PROVE  Coming(w, ok, PlayerCount, RespawnAll(w, ok))
<1>1. PICK g : Chain(w, ok, PlayerCount, g) /\ RespawnAll(w, ok) = g[PlayerCount]
  BY RespawnEquation
<1>2. PlayerCount \in Nat
  BY DEF RoomAssumption
<1> DEFINE T == {k \in Nat : k <= PlayerCount /\ ~Coming(w, ok, k, g[k])}
<1>3. T = {}
  <2> SUFFICES ASSUME T # {} PROVE FALSE
    OBVIOUS
  <2>1. PICK k \in T : \A j \in T : k <= j
    BY NatLeast
  <2>2. CASE k = 0
    <3>1. g[0] = w
      BY <1>1, <1>2 DEF Chain
    <3> QED BY <2>1, <2>2, <3>1
  <2>3. CASE k # 0
    <3>1. k \in 1 .. PlayerCount /\ k - 1 \in Nat /\ k - 1 <= PlayerCount /\ ~(k <= k - 1)
      BY <1>2, <2>1, <2>3
    <3>2. Coming(w, ok, k - 1, g[k - 1])
      BY <2>1, <3>1
    <3>3. g[k] = Returned(g[k - 1], k, ok)
      BY <1>1, <1>2, <3>1, <2>3 DEF Chain
    <3>4. Coming(w, ok, k, g[k])
      BY <3>1, <3>2, <3>3, ReturnedComes
    <3> QED BY <2>1, <3>4
  <2> QED BY <2>2, <2>3
<1> QED BY <1>1, <1>2, <1>3

(* The next room: the invariant, and nobody's mount or object is lost.     *)
LEMMA LoadRoomKeeps ==
  ASSUME EntityInv, NEW ok \in BOOLEAN, LoadRoom(ok)
  PROVE  /\ EntityInv'
         /\ \A p \in Player : /\ MountOf(machine', p) = MountOf(machine, p)
                              /\ outcome = "CONTINUE" => machine'.held[p] = machine.held[p]
<1> DEFINE cl == [s \in Slot |-> IF outcome = "CLEAR" THEN Empty ELSE sprite[s]]
           P == Park(machine)
           c == CarryThrough(P, cl)
           n == Cardinality(StoredBy(P))
           x == Loaded(cl, ok, n)
           w == [m |-> c, spr |-> x, ok |-> TRUE]
           v == RespawnAll(w, ok)
<1>1. /\ phase = "load" /\ Can(PlayerCount)
      /\ machine' = v.m /\ sprite' = v.spr
      /\ riding' = [p \in Player |-> v.m.mount[p] # NoId]
      /\ aborted' = (\/ aborted \/ ~v.ok
                     \/ \E p \in Player : Ridden(machine, p) # {} /\ machine.stored[p] # NoId
                     \/ \E s \in Carried(cl) : At(P, s) = {} \/ \E e \in At(P, s) : e.owner = NoOne)
      /\ allowed' = ok /\ phase' = "enter" /\ (outcome = "CLEAR" \/ ok = allowed)
      /\ UNCHANGED <<life, outcome, room, granted>>
  BY DEF LoadRoom, StoredBy
<1>2. /\ RoomAssumption /\ Settings /\ Sound(machine, sprite) /\ Capped(machine, sprite)
      /\ sprite \in [Slot -> Sprites] /\ (\A s \in Slot : Made(sprite[s]))
      /\ machine \in Machines /\ machine.next \in Nat
      /\ outcome # "CLEAR" => Linked(machine)
      /\ granted <= machine.placed.uses /\ Barred /\ Cleaned /\ Swept /\ aborted = FALSE
  BY <1>1 DEF EntityInv, Sound, Machines
<1>3. Empty \in Sprites /\ Made(Empty) /\ Empty.type = "none"
  BY DEF Empty, Sprites, Made
<1>4. /\ cl \in [Slot -> Sprites] /\ \A s \in Slot : Made(cl[s])
      /\ outcome # "CLEAR" => cl = sprite
      /\ outcome = "CLEAR" => \A s \in Slot : cl[s] = Empty
  BY <1>2, <1>3
<1>5. Leaving(machine, sprite, cl)
  BY <1>2, <1>4 DEF Leaving
<1> HIDE DEF cl
<1>6. /\ Sound(c, x) /\ Linked(c) /\ (\A e \in c.entities : x[e.slot].status # "none")
      /\ (\A e \in c.entities : e.owner # NoOne)
      /\ (\A p \in Player : c.stored[p] = MountOf(machine, p) /\ c.mount[p] = NoId)
      /\ c.placed.known = machine.placed.known /\ c.placed.uses = machine.placed.uses
      /\ c.next = machine.next
      /\ (\A e \in c.entities : \E f \in machine.entities : e.id = f.id /\ e.owner = f.owner)
      /\ (cl = sprite /\ Linked(machine) /\ (\A e \in machine.entities : sprite[e.slot].status # "none"))
           => \A p \in Player : c.held[p] = machine.held[p]
  BY <1>2, <1>4, <1>5, CarrySound
<1>7. \A p \in Player : P.stored[p] = MountOf(machine, p)
      /\ (Ridden(machine, p) # {} <=> machine.mount[p] # NoId)
  BY <1>2, ParkFields
<1>8. /\ \A e \in Kept(P, cl) : e.owner \in Player
      /\ \A s \in Carried(cl) : \E e \in Kept(P, cl) : e.slot = s
  BY <1>2, <1>5, KeptFacts
<1>9. /\ \A s \in Slot : s <= Count(cl) => x[s] = cl[Came(cl, s)] /\ x[s].status = "carried"
      /\ \A s \in Slot : ~(s <= Count(cl)) =>
           x[s] = Empty \/ (ok /\ x[s] = Sprite("init", "egg", "waiting"))
  BY <1>2, <1>4, LoadedFields
<1>10. n = Cardinality(StoredBy(c))
  <2>1. \A p \in Player : P.stored[p] = c.stored[p]
    BY <1>6, <1>7
  <2> HIDE DEF P, c
  <2>2. StoredBy(P) = StoredBy(c)
    BY <2>1 DEF StoredBy
  <2> QED BY <2>2
<1>11. Capped(c, x)
  BY <1>2, <1>4, <1>5, <1>6, CarryCapped
<1>12. ok => n <= Cardinality(FreeSlots(x))
  <2> SUFFICES ASSUME ok PROVE n <= Cardinality(FreeSlots(x))
    OBVIOUS
  <2>1. StoredBy(machine) = {} \/ \A s \in Slot : cl[s] = Empty
    BY <1>1, <1>2, <1>4 DEF Barred
  <2> DEFINE k == Cardinality(StoredBy(c))
  <2>2. k <= Cardinality(FreeSlots(Loaded(cl, ok, k)))
    BY <1>2, <1>4, <1>5, <1>6, <2>1, SlotsSuffice
  <2> QED BY <1>10, <2>2
<1>14. \A s \in Carried(cl) : At(P, s) # {} /\ \A e \in At(P, s) : e.owner # NoOne
  BY <1>8 DEF At, Kept, Player, NoOne
<1>15. ~\E p \in Player : Ridden(machine, p) # {} /\ machine.stored[p] # NoId
  BY <1>2, <1>7 DEF Sound, StoredApart
<1> HIDE DEF P, c, n, x
<1>16. w \in States /\ w.m = c /\ w.spr = x /\ w.ok = TRUE
  BY <1>6 DEF States, Sound
<1> HIDE DEF w
<1>17. Coming(w, ok, 0, w)
  <2>1. c.next + (PlayerCount - 0) <= MaxId + 1
    BY <1>1, <1>2, <1>6 DEF Can, RoomAssumption
  <2>2. \A q \in Player : ~(q <= 0)
    BY DEF Player
  <2> QED BY <1>6, <1>10, <1>11, <1>12, <1>16, <2>1, <2>2 DEF Coming
<1>18. Coming(w, ok, PlayerCount, v)
  BY <1>2, <1>17, RespawnAllComes
<1> HIDE DEF v
<1>19. /\ v.ok = TRUE /\ Sound(machine', sprite') /\ Linked(machine') /\ Capped(machine', sprite')
       /\ \A q \in Player : MountOf(machine', q) = MountOf(c, q) /\ machine'.held[q] = c.held[q]
       /\ machine'.placed.known = machine.placed.known /\ machine'.placed.uses = machine.placed.uses
       /\ ~ok \/ StoredBy(c) = {} => machine' = c /\ sprite' = x
       /\ ok => \A q \in Player : q <= PlayerCount => machine'.stored[q] = NoId
  BY <1>1, <1>6, <1>16, <1>18 DEF Coming
<1>20. aborted' = FALSE
  BY <1>1, <1>2, <1>14, <1>15, <1>19
<1>21. Settings'
  BY <1>1, <1>2 DEF Settings
<1>22. Riders'
  BY <1>1 DEF Riders
<1>23. Barred'
  <2>1. ok => StoredBy(machine') = {}
    BY <1>19 DEF StoredBy, Player
  <2>2. ASSUME ~ok, NEW s \in Slot PROVE sprite'[s].type \notin {"egg", "baby", "yoshi"}
    <3>1. sprite' = x /\ (outcome # "CLEAR" => ~allowed)
      BY <1>1, <1>19, <2>2
    <3>2. \A r \in Slot : cl[r].type \notin {"egg", "baby", "yoshi"}
      BY <1>2, <1>3, <1>4, <3>1 DEF Barred
    <3>3. s <= Count(cl) => Came(cl, s) \in Slot
      <4> SUFFICES ASSUME s <= Count(cl) PROVE Came(cl, s) \in Slot
        OBVIOUS
      <4>1. Count(cl) \in Nat
        BY <1>2, PlaceTaken
      <4>2. s \in 1 .. Count(cl)
        BY <1>2, <4>1 DEF Slot, RoomAssumption
      <4> QED BY <1>2, <4>2, PlaceTaken DEF Carried
    <3> QED BY <1>3, <1>9, <2>2, <3>1, <3>2, <3>3
  <2>3. ~ok /\ machine'.placed.known => outcome' # "CONTINUE"
    BY <1>1, <1>2, <1>19 DEF Barred
  <2> QED BY <1>1, <2>1, <2>2, <2>3 DEF Barred
<1>24. Cleaned' /\ Swept'
  <2>1. ASSUME outcome = "RETRY"
        PROVE  StoredBy(machine') = {} /\ \A e \in machine'.entities : e.owner = NoOne
    <3>1. StoredBy(machine) = {} /\ \A e \in machine.entities : e.owner = NoOne
      BY <1>1, <1>2, <2>1 DEF Cleaned
    <3>2. \A p \in Player : machine.mount[p] = NoId
      BY <1>2, <3>1 DEF Sound, MountKnown, Player, NoOne
    <3>3. StoredBy(c) = {}
      BY <1>6, <3>1, <3>2 DEF StoredBy, MountOf
    <3>4. c.entities = {}
      BY <1>6, <3>1
    <3> QED BY <1>19, <3>3, <3>4
  <2> QED BY <1>1, <2>1 DEF Cleaned, Swept
<1>25. EntityInv'
  BY <1>1, <1>2, <1>19, <1>20, <1>21, <1>22, <1>23, <1>24 DEF EntityInv
<1>26. ASSUME NEW p \in Player PROVE MountOf(machine', p) = MountOf(machine, p)
  BY <1>6, <1>19 DEF MountOf
<1>27. ASSUME NEW p \in Player, outcome = "CONTINUE" PROVE machine'.held[p] = machine.held[p]
  BY <1>1, <1>2, <1>4, <1>6, <1>19, <1>27 DEF Swept
<1> QED BY <1>25, <1>26, <1>27

-----------------------------------------------------------------------------
(* The theorems.                                                           *)

(* Every step keeps the invariant.                                         *)
LEMMA NextKeeps ==
  ASSUME EntityInv, [Next]_vars PROVE EntityInv'
<1>1. CASE UNCHANGED vars
  BY <1>1 DEF vars, EntityInv, Settings, Riders, Barred, Cleaned, Swept
<1>2. CASE BeginFrame \/ Replenish \/ InitializeRoom
  BY <1>2, BeginFrameKeeps, ReplenishKeeps, InitializeRoomKeeps
<1>3. ASSUME NEW s \in Slot, Vanish(s) \/ RunEmpty(s) \/ HitBlock(s) PROVE EntityInv'
  BY <1>3, VanishKeeps, RunEmptyKeeps, HitBlockKeeps
<1>4. ASSUME NEW s \in Slot, NEW t \in Things, NEW p \in Player \cup {NoOne}, Create(s, t, p)
      PROVE EntityInv'
  BY <1>4, CreateKeeps
<1>5. ASSUME NEW s \in Slot, NEW p \in Player, Pick(s, p) PROVE EntityInv'
  BY <1>5, PickKeeps
<1>6. ASSUME NEW s \in Slot, NEW p \in Player, NEW fate \in {"stay", "mount", "dismount", "lost"},
             RunYoshi(s, p, fate)
      PROVE EntityInv'
  BY <1>6, RunYoshiKeeps
<1>7. ASSUME NEW s \in Slot, NEW fate \in {"wait", "hatch", "open"}, RunEgg(s, fate) PROVE EntityInv'
  BY <1>7, RunEggKeeps
<1>8. ASSUME NEW s \in Slot, NEW fate \in {"stay", "lost", "release", "grow"}, RunThing(s, fate)
      PROVE EntityInv'
  BY <1>8, RunThingKeeps
<1>9. ASSUME NEW D \in SUBSET Player, NEW C \in SUBSET Player, NEW R \in SUBSET Player,
             EndContinue(D, C, R)
      PROVE EntityInv'
  BY <1>9, EndContinueKeeps
<1>10. ASSUME NEW D \in SUBSET Player, EndRoom(D) \/ EndRetry(D) PROVE EntityInv'
  BY <1>10, EndRoomKeeps, EndRetryKeeps
<1>11. ASSUME NEW D \in SUBSET Player, NEW tape \in BOOLEAN, EndClear(D, tape) PROVE EntityInv'
  BY <1>11, EndClearKeeps
<1>12. ASSUME NEW leave \in BOOLEAN, EndOver(leave) PROVE EntityInv'
  BY <1>12, EndOverKeeps
<1>13. ASSUME NEW ok \in BOOLEAN, LoadRoom(ok) PROVE EntityInv'
  BY <1>13, LoadRoomKeeps
<1> QED
  BY <1>1, <1>2, <1>3, <1>4, <1>5, <1>6, <1>7, <1>8, <1>9, <1>10, <1>11, <1>12, <1>13 DEF Next

(* The invariant holds always.                                             *)
LEMMA SpecKeeps ==
  ASSUME RoomAssumption PROVE Spec => []EntityInv
<1>1. Init => EntityInv
  BY InitEntityInv
<1>2. EntityInv /\ [Next]_vars => EntityInv'
  BY NextKeeps
<1> QED BY <1>1, <1>2, PTL DEF Spec

(* What the invariant says of the machine is what entities_valid demands.  *)
LEMMA InvValid ==
  ASSUME EntityInv, outcome # "CLEAR" PROVE Valid(machine)
<1>1. Sound(machine, sprite) /\ Linked(machine)
  BY DEF EntityInv
<1>2. ASSUME NEW e \in machine.entities
      PROVE  /\ e.id \in 1..(machine.next - 1)
             /\ e.owner = NoOne <=> e.flag = "none"
             /\ e.flag = "HELD" => machine.held[e.owner] = e.id
             /\ e.flag = "RIDDEN" => machine.mount[e.owner] = e.id
             /\ \A f \in machine.entities : e # f => e.id # f.id /\ e.slot # f.slot
  BY <1>1 DEF Sound, Ranged, Distinct, Linked
<1>3. EggKnown(machine) /\ HeldKnown(machine) /\ MountKnown(machine) /\ StoredApart(machine)
  BY <1>1 DEF Sound
<1> QED BY <1>2, <1>3 DEF Valid, EggKnown, HeldKnown, MountKnown, StoredApart

(* The invariant implies the type invariant.                               *)
LEMMA InvTypeOK ==
  ASSUME EntityInv PROVE TypeOK
<1>1. machine \in Machines /\ sprite \in [Slot -> Sprites] /\ Settings /\ aborted = FALSE
  BY DEF EntityInv, Sound
<1>2. /\ machine.mount \in [Player -> Id] /\ machine.held \in [Player -> Id]
      /\ machine.stored \in [Player -> Id] /\ machine.next \in 1..(MaxId + 1)
      /\ machine.placed \in Source /\ machine.uses \in 0..PlayerCount
      /\ machine.entities \subseteq Record
  BY <1>1 DEF Machines
<1> QED BY <1>1, <1>2 DEF TypeOK, Settings, Source, Record, Flags, Sprites

(* Riders have mounts, owners have what they hold: all that is promised of *)
(* the identities.                                                         *)
LEMMA InvKept ==
  ASSUME EntityInv PROVE EntitiesKept
<1> QED BY InvValid, InvTypeOK DEF EntitiesKept, EntitiesValid, NeverAborts, EntityInv

(* The invariant bounds the mounts and the grants.                         *)
LEMMA InvBounded ==
  ASSUME EntityInv PROVE YoshisBounded
<1>1. MountCap
  BY DEF EntityInv, Capped, StoredBy, MountCap
<1>2. granted \in Nat /\ granted <= machine.placed.uses /\ machine.placed.uses <= PlayerCount
      /\ machine.placed.uses \in Nat /\ PlayerCount \in Nat
  BY DEF EntityInv, Settings, Sound, Granting, Machines, Source, RoomAssumption
<1>3. GrantsBounded
  BY <1>2 DEF GrantsBounded
<1> QED BY <1>1, <1>3 DEF YoshisBounded

(* Every step out of `load` leaves each player the mount and the object.   *)
LEMMA StepSurvives ==
  ASSUME EntityInv, Next, phase = "load", NEW p \in Player
  PROVE  /\ MountOf(machine', p) = MountOf(machine, p)
         /\ outcome = "CONTINUE" => machine'.held[p] = machine.held[p]
<1>1. PICK ok \in BOOLEAN : LoadRoom(ok)
  BY DEF Next, BeginFrame, Replenish, InitializeRoom, Vanish, RunEmpty, HitBlock, Create, Pick,
         RunYoshi, RunEgg, RunThing, EndContinue, EndRoom, EndRetry, EndClear, EndOver
<1> QED BY <1>1, LoadRoomKeeps

(* Whatever is spawned, claimed, dropped, killed, parked or carried along, *)
(* for any number of players and slots: entities_valid accepts the machine *)
(* wherever it can be saved, and the adapter does not die.                 *)
THEOREM EntitiesAreKept ==
  ASSUME RoomAssumption PROVE Spec => []EntitiesKept
<1>1. EntityInv => EntitiesKept
  BY InvKept
<1> QED BY <1>1, SpecKeeps, PTL

(* Eggs, babies, Yoshis and stored mounts together are never more than the *)
(* players, and a placed egg's source grants no more than one for each,    *)
(* whatever hatches at the same time and whatever rooms are visited.       *)
THEOREM YoshisAreBounded ==
  ASSUME RoomAssumption PROVE Spec => []YoshisBounded
<1>1. EntityInv => YoshisBounded
  BY InvBounded
<1> QED BY <1>1, SpecKeeps, PTL

(* A room change, with every mount parked and spawned again and every      *)
(* carried sprite moved, leaves each player the mount it had, and within   *)
(* the course the object it held.                                          *)
THEOREM IdentitiesDoSurvive ==
  ASSUME RoomAssumption PROVE Spec => IdentitiesSurviveRooms
<1>1. ASSUME EntityInv, [Next]_vars
      PROVE  [phase = "load" => \A p \in Player :
                /\ MountOf(machine', p) = MountOf(machine, p)
                /\ outcome = "CONTINUE" => machine'.held[p] = machine.held[p]]_vars
  BY <1>1, StepSurvives
<1> QED BY <1>1, SpecKeeps, PTL DEF Spec, IdentitiesSurviveRooms
=============================================================================
