------------------------------ MODULE CoopFire ------------------------------
(* Fireballs of the co-op players (coop_simulation.c:269-365, 1684-1727).  *)
(* The guest keeps two shots, in two extended-sprite slots; here every     *)
(* player has two of their own, which are put into those slots for as long *)
(* as a native routine works on them and taken out again.  Whatever the    *)
(* slots hold besides, a shot of an older save state, is shared.           *)
EXTENDS Integers, FiniteSets

CONSTANTS Players,     \* in the order of precedence
          Foes,        \* enemy slots
          MaxShots,    \* shots fired in a behaviour
          MaxLife      \* hits a foe takes

VARIABLES at,          \* stage of the frame and who is next in it
          native,      \* the two slots of the guest
          bank,        \* player -> their two slots
          adopted,     \* fireballs_initialized
          fired,       \* shots fired so far
          next,        \* next identity of the machine
          foe,         \* slot -> identity and life of the foe in it
          damaged,     \* damaged_entity: the identity that was hit in a slot
          struck,      \* foe identities hit in this frame, in their number
          ended        \* shots that hit something

vars == <<at, native, bank, adopted, fired, next, foe, damaged, struck, ended>>

Both == {8, 9}
None == [kind |-> "none", shot |-> 0]
Unused == [kind |-> "none", shot |-> 0, id |-> 0, pending |-> FALSE, visible |-> FALSE]
Held(f) == [kind |-> f.kind, shot |-> f.shot]             \* coop_fireball_bind
Last == Cardinality(Players)

Stage(name, p) == [name |-> name, next |-> p]

(* An older save state may be resumed with a shot in one of the slots.     *)
Init ==
  /\ at = Stage("begin", 1)
  /\ bank = [p \in Players |-> [j \in Both |-> Unused]]
  /\ native \in [Both -> {None, [kind |-> "shot", shot |-> 1]}]
  /\ adopted = \A j \in Both : native[j] = None
  /\ fired = Cardinality({j \in Both : native[j] # None}) /\ next = Cardinality(Foes) + 1
  /\ foe = [e \in Foes |-> [id |-> e, life |-> MaxLife]]
  /\ damaged = [e \in Foes |-> 0] /\ struck = [e \in Foes |-> 0] /\ ended = {}
  /\ fired <= 1

----------------------------------------------------------------------------
(* SmwCoopSimulationBegin: nobody was hit yet in this frame; the banks of  *)
(* an older save state are taken over as they are.                         *)
Begin ==
  /\ at.name = "begin" /\ at' = Stage("players", 1)
  /\ damaged' = [e \in Foes |-> 0] /\ struck' = [e \in Foes |-> 0]
  /\ adopted' = TRUE
  /\ UNCHANGED <<native, bank, fired, next, foe, ended>>

(* Mutant: what the guest's slots held is not put back.                    *)
PutBackNothing(a) == [j \in Both |-> Held(bank'[a][j])]

PutBack(a) == native

(* A player's routine may fire: the guest finds the last free slot of the  *)
(* two, where a player's own count if nothing shared is in their place.    *)
Slots(a) == [j \in Both |-> IF native[j].kind # "none" THEN native[j] ELSE Held(bank[a][j])]

Following(n) == n + 1

spawn_owned_fireball(a) ==
  LET guest == Slots(a)
      free == {j \in Both : guest[j].kind = "none"}
      j == CHOOSE k \in free : \A i \in free : i <= k
  IN  IF free = {} THEN UNCHANGED <<native, bank, fired, next>>
      ELSE /\ fired' = fired + 1 /\ next' = Following(next)
           /\ bank' = [bank EXCEPT ![a][j] = [@ EXCEPT !.kind = "shot", !.shot = fired + 1,
                                                       !.id = next]]
           /\ native' = PutBack(a)

Players_ == at.name = "players"
After(name, p, then) == IF p < Last THEN Stage(name, p + 1) ELSE Stage(then, 1)

PlayerFires ==
  /\ Players_ /\ fired < MaxShots
  /\ at' = After("players", at.next, "bosses")
  /\ spawn_owned_fireball(at.next)
  /\ UNCHANGED <<adopted, foe, damaged, struck, ended>>

PlayerMoves ==
  /\ Players_ /\ at' = After("players", at.next, "bosses")
  /\ UNCHANGED <<native, bank, adopted, fired, next, foe, damaged, struck, ended>>

----------------------------------------------------------------------------
(* A shot that meets a foe: the foe answers once a frame, whichever shots  *)
(* meet it; every shot ends in a puff all the same.                        *)

Answered(e) == damaged[e] = foe[e].id

Hit(e) ==
  /\ damaged' = [damaged EXCEPT ![e] = foe[e].id]
  /\ IF Answered(e) THEN UNCHANGED <<foe, struck>>
     ELSE /\ foe' = [foe EXCEPT ![e].life = @ - 1]
          /\ struck' = [struck EXCEPT ![e] = @ + 1]

Puff(s) == [s EXCEPT !.kind = "puff"]
Miss == UNCHANGED <<foe, damaged, struck>>

(* boss_fireball_contacts: a boss looks for shots in the two slots; the    *)
(* banks are put there one after the other, and what is shared last.       *)
Passes(then) == Miss /\ UNCHANGED <<native, bank, ended>> /\ at' = then

MeetsOwned(p) ==
  \E e \in Foes, j \in Both :
    /\ foe[e].life > 0 /\ bank[p][j].kind = "shot"
    /\ bank' = [bank EXCEPT ![p][j] = Puff(@)]
    /\ ended' = ended \union {bank[p][j].shot} /\ Hit(e)
    /\ UNCHANGED <<at, native>>

MeetsShared ==
  \E e \in Foes, j \in Both :
    /\ foe[e].life > 0 /\ native[j].kind = "shot"
    /\ native' = [native EXCEPT ![j] = Puff(@)]
    /\ ended' = ended \union {native[j].shot} /\ Hit(e)
    /\ UNCHANGED <<at, bank>>

BossMeetsOwned ==
  /\ at.name = "bosses"
  /\ MeetsOwned(at.next) \/ Passes(After("bosses", at.next, "boss, shared"))
  /\ UNCHANGED <<adopted, fired, next>>

BossMeetsShared ==
  /\ at.name = "boss, shared"
  /\ MeetsShared \/ Passes(Stage("foes", 1))
  /\ UNCHANGED <<adopted, fired, next>>

(* A foe that has no life left leaves its slot, which another may take in  *)
(* the same frame.                                                         *)
FoeLeaves ==
  /\ at.name = "foes"
  /\ at' = Stage("shots", 1)
  /\ \E e \in Foes :
       /\ foe[e].life = 0
       /\ foe' = [foe EXCEPT ![e] = [id |-> next, life |-> MaxLife]]
       /\ struck' = [struck EXCEPT ![e] = 0]
  /\ next' = Following(next)
  /\ UNCHANGED <<native, bank, adopted, fired, damaged, ended>>

FoesStay ==
  /\ at.name = "foes" /\ at' = Stage("shots", 1)
  /\ UNCHANGED <<native, bank, adopted, fired, next, foe, damaged, struck, ended>>

----------------------------------------------------------------------------
(* run_owned_fireballs: slot 9 of a bank before slot 8; a shot moves, or   *)
(* meets a foe, or ends; its picture is taken while it is in the slot.     *)
Moved(f, ends) == [f EXCEPT !.pending = TRUE,
                            !.kind = IF ends = "gone" THEN "none"
                                     ELSE IF ends = "puff" THEN "puff" ELSE @]

Flown(f, its, ends) == IF its /\ f.kind # "none" THEN Moved(f, ends)
                       ELSE [f EXCEPT !.pending = @ /\ ~its]

Flies(p, j, ends) ==
  bank' = [bank EXCEPT ![p] = [k \in Both |-> Flown(bank[p][k], k = j, ends)]]

ShotFlies(j, then) ==
  /\ at' = then
  /\ \/ \E ends \in {"no", "gone"} :
          /\ Flies(at.next, j, ends) /\ Miss
          /\ ended' = IF ends = "gone" /\ bank[at.next][j].kind # "none"
                      THEN ended \union {bank[at.next][j].shot} ELSE ended
     \/ \E e \in Foes :
          /\ bank[at.next][j].kind = "shot" /\ foe[e].life > 0
          /\ Flies(at.next, j, "puff") /\ Hit(e)
          /\ ended' = ended \union {bank[at.next][j].shot}
  /\ UNCHANGED <<native, adopted, fired, next>>

FirstFlies == at.name = "shots" /\ ShotFlies(9, Stage("second shots", at.next))

SecondFlies ==
  at.name = "second shots" /\ ShotFlies(8, After("shots", at.next, "shared shots"))

(* The pool of the guest itself runs once.                                 *)
SharedMeet ==
  at.name = "shared shots" /\ MeetsShared /\ UNCHANGED <<adopted, fired, next>>

SharedFly ==
  /\ at.name = "shared shots" /\ at' = Stage("nmi", 1)
  /\ \E gone \in SUBSET {j \in Both : native[j].kind # "none"} :
       /\ native' = [j \in Both |-> IF j \in gone THEN None ELSE native[j]]
       /\ ended' = ended \union {native[j].shot : j \in gone}
  /\ UNCHANGED <<bank, adopted, fired, next, foe, damaged, struck>>

(* SmwCoopPresentationLatch: what was drawn is shown.                      *)
Latch ==
  /\ at.name = "nmi" /\ at' = Stage("begin", 1)
  /\ bank' = [p \in Players |-> [j \in Both |-> [bank[p][j] EXCEPT !.visible = bank[p][j].pending]]]
  /\ UNCHANGED <<native, adopted, fired, next, foe, damaged, struck, ended>>

(* initialize_room: a new room has no shots.                               *)
EnterRoom ==
  /\ at.name = "begin"
  /\ bank' = [p \in Players |-> [j \in Both |-> Unused]]
  /\ native' = [j \in Both |-> None] /\ adopted' = TRUE
  /\ ended' = 1 .. fired
  /\ UNCHANGED <<at, fired, next, foe, damaged, struck>>

Next ==
  \/ Begin \/ PlayerFires \/ PlayerMoves \/ BossMeetsOwned \/ BossMeetsShared
  \/ FoeLeaves \/ FoesStay \/ FirstFlies \/ SecondFlies \/ SharedMeet \/ SharedFly \/ Latch
  \/ EnterRoom

Spec == Init /\ [][Next]_vars

----------------------------------------------------------------------------
Places(n) ==
  {s \in Players \X Both : /\ bank[s[1]][s[2]].kind # "none"
                           /\ bank[s[1]][s[2]].shot = n}
Shared(n) == {j \in Both : native[j].kind # "none" /\ native[j].shot = n}

(* Putting shots in and out of the guest's slots neither loses nor doubles *)
(* one: a shot that was fired is in one place until it hits or goes.       *)
ShotsAreKept ==
  \A n \in 1 .. fired :
    LET places == Cardinality(Places(n)) + Cardinality(Shared(n))
    IN  places <= 1 /\ (places = 0 => n \in ended)

(* A foe answers one shot a frame, and the first that meets it: not fewer  *)
(* for another foe having been there (coop_simulation.c:1705-1708).        *)
OneAnswerAFrame ==
  /\ \A e \in Foes : struck[e] <= 1
  /\ \A e \in Foes : damaged[e] = foe[e].id => struck[e] = 1

(* What a snapshot demands of the banks (coop_machine.c:292-302): nothing  *)
(* is shot or pictured without an identity, and no two share one.          *)
BanksValid ==
  \A p \in Players, j \in Both :
    LET f == bank[p][j]
    IN  /\ f.id < next
        /\ f.id = 0 \/ ~adopted => f.kind = "none" /\ ~f.pending /\ ~f.visible
        /\ f.id # 0 =>
             /\ \A e \in Foes : foe[e].id # f.id
             /\ \A q \in Players, k \in Both : bank[q][k].id = f.id => p = q /\ j = k

(* All of it: the shots, what they hit, and what a snapshot says of them.  *)
FireKept == ShotsAreKept /\ OneAnswerAFrame /\ BanksValid
=============================================================================
