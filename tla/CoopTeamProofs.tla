--------------------------- MODULE CoopTeamProofs ---------------------------
(* The session and the team.  First CoopSession's properties for any roster, *)
(* event set and clock rate, and CoopContacts' for any number of actors;   *)
(* then what the team has between two frames, for any roster, any number of *)
(* lives, any course and any guest: CoopTeam's TeamKept and CheckpointKept. *)
(* What the rooms of CoopRooms have is taken from CoopEntitiesProofs.      *)
EXTENDS CoopFrame, CoopRooms, TLAPS, WellFoundedInduction

-----------------------------------------------------------------------------
(* Least elements                                                          *)

(* A non-empty set of naturals has a least element.                        *)
LEMMA NatLeast ==
  ASSUME NEW T \in SUBSET Nat, T # {}
  PROVE  \E m \in T : \A n \in T : m <= n
<1> DEFINE R == OpToRel(<, Nat)
<1>1. IsWellFoundedOn(R, Nat)
  BY NatLessThanWellFounded
<1>2. ASSUME NEW x \in Nat, NEW y \in Nat, x < y PROVE <<x, y>> \in R
  BY <1>2 DEF OpToRel
<1> HIDE DEF R
<1>3. PICK m \in T : \A n \in T : ~(<<n, m>> \in R)
  BY <1>1, WFMin
<1>4. ASSUME NEW n \in T PROVE m <= n
  <2>1. m \in Nat /\ n \in Nat
    OBVIOUS
  <2>2. ~(n < m)
    BY <1>2, <1>3, <2>1
  <2> QED BY <2>1, <2>2
<1> QED BY <1>4

(* A non-empty set of naturals below a bound has a greatest element.       *)
LEMMA NatGreatest ==
  ASSUME NEW T \in SUBSET Nat, T # {}, NEW b \in Nat, \A n \in T : n <= b
  PROVE  \E m \in T : \A n \in T : n <= m
<1> DEFINE U == {u \in Nat : \A n \in T : n <= u}
<1>1. PICK m \in U : \A u \in U : m <= u
  BY NatLeast
<1>2. CASE m \in T
  BY <1>1, <1>2
<1>3. CASE m \notin T
  <2>1. \A n \in T : n < m
    BY <1>1, <1>3
  <2>2. m > 0
    <3>1. PICK n \in T : TRUE
      OBVIOUS
    <3> QED BY <2>1, <3>1, <1>1
  <2>3. m - 1 \in U
    BY <2>1, <2>2, <1>1
  <2> QED BY <2>3, <1>1
<1> QED BY <1>2, <1>3

(* A player is a natural number below PlayerCount.                         *)
LEMMA PlayerNat ==
  /\ Player \subseteq Nat /\ Player # {}
  /\ \A p \in Player : p <= PlayerCount
  /\ NoPlayer \in Nat /\ NoPlayer \notin Player
BY SessionAssumption DEF Player

(* compare_event orders the events of one kind: one of them comes first.   *)
LEMMA EarliestExists ==
  ASSUME NEW S \in SUBSET AnyEvent, S # {}, NEW k, \A e \in S : e.kind = k
  PROVE  \E e \in S : \A d \in S \ {e} : Earlier(e, d)
<1> USE PlayerNat DEF AnyEvent
<1>0. \A e \in S : e.player \in Nat /\ e.entity \in Nat /\ e.value \in Nat
                   /\ e.flags \in Nat /\ e.distance \in Nat
  <2> SUFFICES ASSUME NEW e \in AnyEvent
               PROVE  e.player \in Nat /\ e.entity \in Nat /\ e.value \in Nat
                      /\ e.flags \in Nat /\ e.distance \in Nat
    OBVIOUS
  <2>1. e.player \in Player \cup {NoPlayer} /\ e.flags \in 0..7
    OBVIOUS
  <2>2. e.player \in Nat
    BY <2>1
  <2>3. e.flags \in Nat
    BY <2>1
  <2> QED BY <2>2, <2>3
<1>1. PICK a \in S : \A d \in S : a.entity <= d.entity
  <2>1. PICK m \in {e.entity : e \in S} : \A n \in {e.entity : e \in S} : m <= n
    BY NatLeast, {e.entity : e \in S} # {}, {e.entity : e \in S} \subseteq Nat
  <2> QED BY <2>1
<1> DEFINE S1 == {e \in S : e.entity = a.entity}
<1>2. PICK b \in S1 : \A d \in S1 : b.player <= d.player
  <2>1. PICK m \in {e.player : e \in S1} : \A n \in {e.player : e \in S1} : m <= n
    BY NatLeast, a \in S1, {e.player : e \in S1} # {}, {e.player : e \in S1} \subseteq Nat
  <2> QED BY <2>1
<1> DEFINE S2 == {e \in S1 : e.player = b.player}
<1>3. PICK c \in S2 : \A d \in S2 : c.value <= d.value
  <2>1. PICK m \in {e.value : e \in S2} : \A n \in {e.value : e \in S2} : m <= n
    BY NatLeast, b \in S2, {e.value : e \in S2} # {}, {e.value : e \in S2} \subseteq Nat
  <2> QED BY <2>1
<1> DEFINE S3 == {e \in S2 : e.value = c.value}
<1>4. PICK f \in S3 : \A d \in S3 : f.flags <= d.flags
  <2>1. PICK m \in {e.flags : e \in S3} : \A n \in {e.flags : e \in S3} : m <= n
    BY NatLeast, c \in S3, {e.flags : e \in S3} # {}, {e.flags : e \in S3} \subseteq Nat
  <2> QED BY <2>1
<1> DEFINE S4 == {e \in S3 : e.flags = f.flags}
<1>5. PICK g \in S4 : \A d \in S4 : g.distance <= d.distance
  <2>1. PICK m \in {e.distance : e \in S4} : \A n \in {e.distance : e \in S4} : m <= n
    BY NatLeast, f \in S4, {e.distance : e \in S4} # {}, {e.distance : e \in S4} \subseteq Nat
  <2> QED BY <2>1
<1>6. ASSUME NEW d \in S \ {g} PROVE Earlier(g, d)
  <2>1. CASE d \notin S1
    BY <1>0, <1>1, <1>5, <2>1 DEF Earlier
  <2>2. CASE d \in S1 \ S2
    BY <1>0, <1>2, <1>5, <2>2 DEF Earlier
  <2>3. CASE d \in S2 \ S3
    BY <1>0, <1>3, <1>5, <2>3 DEF Earlier
  <2>4. CASE d \in S3 \ S4
    BY <1>0, <1>4, <1>5, <2>4 DEF Earlier
  <2>5. CASE d \in S4
    <3>1. d.distance # g.distance
      <4>1. d.entity = g.entity /\ d.player = g.player /\ d.value = g.value /\ d.flags = g.flags
        BY <2>5, <1>5
      <4>2. d.kind = g.kind
        BY <2>5, <1>5
      <4>3. ASSUME d.distance = g.distance PROVE FALSE
        <5>1. d = g
          BY <4>1, <4>2, <4>3, d \in AnyEvent, g \in AnyEvent
        <5> QED BY <5>1, <1>6
      <4> QED BY <4>3
    <3> QED BY <3>1, <1>5, <2>5 DEF Earlier
  <2> QED BY <2>1, <2>2, <2>3, <2>4, <2>5
<1> QED BY <1>5, <1>6

(* Of some players one comes first: the primary, or the lowest id.         *)
LEMMA FirstPlayer ==
  ASSUME NEW P \in SUBSET Player, P # {}
  PROVE  \E p \in P : \A q \in P \ {p} : Precedes(p, q)
<1>1. CASE Primary \in P
  <2>1. \A q \in P \ {Primary} : Precedes(Primary, q)
    BY DEF Precedes
  <2> QED BY <1>1, <2>1
<1>2. CASE Primary \notin P
  <2>1. P \subseteq Nat
    BY PlayerNat
  <2>2. PICK p \in P : \A q \in P : p <= q
    BY <2>1, NatLeast
  <2>3. ASSUME NEW q \in P \ {p} PROVE Precedes(p, q)
    <3>1. p < q
      BY <2>1, <2>2, <2>3
    <3> QED BY <3>1, <1>2, <2>3 DEF Precedes
  <2> QED BY <2>3
<1> QED BY <1>1, <1>2

(* The contacts of players with one entity have a nearest one.             *)
LEMMA NearestExists ==
  ASSUME NEW S \in SUBSET AnyEvent, S # {}, NEW k,
         \A e \in S : e.kind = k /\ e.player \in Player
  PROVE  Nearest(S) \in S
<1>0. \A e \in S : e.distance \in Nat
  BY DEF AnyEvent
<1>1. PICK a \in S : \A d \in S : a.distance <= d.distance
  <2>1. PICK m \in {e.distance : e \in S} : \A n \in {e.distance : e \in S} : m <= n
    BY <1>0, NatLeast, {e.distance : e \in S} # {}, {e.distance : e \in S} \subseteq Nat
  <2> QED BY <2>1
<1> DEFINE S1 == {e \in S : e.distance = a.distance}
<1>2. PICK b \in S1 : \A d \in S1 : d.player # b.player => Precedes(b.player, d.player)
  <2> DEFINE P == {e.player : e \in S1}
  <2>1. P \subseteq Player /\ P # {}
    BY a \in S1
  <2> HIDE DEF P
  <2>2. PICK p \in P : \A q \in P \ {p} : Precedes(p, q)
    BY <2>1, FirstPlayer
  <2> QED BY <2>2 DEF P
<1> DEFINE S2 == {e \in S1 : e.player = b.player}
<1>3. PICK c \in S2 : \A d \in S2 \ {c} : Earlier(c, d)
  <2>1. S2 \in SUBSET AnyEvent /\ S2 # {} /\ \A e \in S2 : e.kind = k
    BY b \in S2
  <2> HIDE DEF S2
  <2> QED BY <2>1, EarliestExists
<1>4. c \in S /\ c.distance = a.distance /\ c.player = b.player
  OBVIOUS
<1>5. ASSUME NEW d \in S \ {c}
      PROVE  \/ c.distance < d.distance
             \/ c.distance = d.distance /\ \/ Precedes(c.player, d.player)
                                           \/ c.player = d.player /\ Earlier(c, d)
  <2>1. CASE d \notin S1
    BY <1>0, <1>1, <1>4, <2>1
  <2>2. CASE d \in S1 \ S2
    BY <1>2, <1>4, <2>2
  <2>3. CASE d \in S2
    BY <1>3, <1>4, <2>3
  <2> QED BY <2>1, <2>2, <2>3
<1> QED BY <1>4, <1>5 DEF Nearest

-----------------------------------------------------------------------------
(* What the helpers do to a record                                         *)

LEMMA DieRecord ==
  ASSUME NEW r \in PlayerRecord
  PROVE  /\ Die(r) \in PlayerRecord /\ Die(r).life = "DYING"
         /\ Die(r).held = NoEntity /\ Die(r).mount = NoEntity
BY SessionAssumption DEF Die, PlayerRecord, Life, Power

LEMMA UpgradeRecord ==
  ASSUME NEW r \in PlayerRecord
  PROVE  /\ Upgrade(r) \in PlayerRecord /\ Upgrade(r).life = r.life
         /\ Upgrade(r).held = r.held /\ Upgrade(r).mount = r.mount
<1>2. PICK x \in Power : x = IF r.power = "SMALL" THEN "BIG" ELSE r.power
  BY DEF PlayerRecord, Power
<1>3. PICK y \in BOOLEAN : y = (r.upgrade \/ r.life # "PLAYING")
  OBVIOUS
<1> DEFINE u == [r EXCEPT !.power = x, !.upgrade = y]
<1>4. Upgrade(r) = u
  BY <1>2, <1>3 DEF Upgrade
<1>5. u \in PlayerRecord /\ u.life = r.life /\ u.held = r.held /\ u.mount = r.mount
  BY DEF PlayerRecord
<1> HIDE DEF u
<1> QED BY <1>4, <1>5

LEMMA DamageRecord ==
  ASSUME NEW r \in PlayerRecord
  PROVE  /\ Damage(r) \in PlayerRecord /\ Damage(r).life = r.life
         /\ Damage(r).held = r.held /\ Damage(r).mount = r.mount
<1>1. 2 * TicksPerSecond \in Nat
  BY SessionAssumption
<1> QED BY <1>1 DEF Damage, PlayerRecord, Power

LEMMA CatchUpRecord ==
  ASSUME NEW r \in PlayerRecord
  PROVE  /\ CatchUp(r) \in PlayerRecord /\ CatchUp(r).life = "CATCHUP_BUBBLE"
         /\ CatchUp(r).held = NoEntity /\ CatchUp(r).mount = r.mount
<1>1. TicksPerSecond \div 2 \in Nat
  BY SessionAssumption
<1> QED BY <1>1 DEF CatchUp, PlayerRecord, Life

LEMMA ReturnRecord ==
  ASSUME NEW r \in PlayerRecord
  PROVE  /\ Return(r) \in PlayerRecord /\ Return(r).life = "PLAYING"
         /\ Return(r).held = r.held /\ Return(r).mount = r.mount
<1>1. PICK t \in Nat : t = 2 * TicksPerSecond
  BY SessionAssumption
<1>2. PICK x \in Power : x = IF r.life # "DEATH_BUBBLE" THEN r.power
                            ELSE IF r.upgrade THEN "BIG" ELSE "SMALL"
  BY DEF PlayerRecord, Power
<1>3. PICK y \in Nat : y = IF r.life = "DEATH_BUBBLE" THEN t ELSE r.protection
  BY DEF PlayerRecord
<1>4. Return(r) = [r EXCEPT !.life = "PLAYING", !.upgrade = FALSE, !.power = x,
                            !.protection = y]
  BY <1>1, <1>2, <1>3 DEF Return
<1> QED BY <1>4 DEF PlayerRecord, Life

LEMMA FreshRecord ==
  ASSUME NEW r \in PlayerRecord
  PROVE  /\ Fresh(r) \in PlayerRecord /\ Fresh(r).life = "PLAYING"
         /\ Fresh(r).held = NoEntity /\ Fresh(r).mount = NoEntity
BY SessionAssumption DEF Fresh, PlayerRecord, Life, Power

LEMMA TickRecord ==
  ASSUME NEW r \in PlayerRecord
  PROVE  LET u == [r EXCEPT !.star = Tick(@), !.protection = Tick(@), !.recovery = Tick(@)]
         IN  u \in PlayerRecord /\ u.life = r.life /\ u.held = r.held /\ u.mount = r.mount
<1>1. \A n \in Nat : Tick(n) \in Nat
  BY DEF Tick
<1> HIDE DEF Tick
<1> QED BY <1>1 DEF PlayerRecord

(* coop_session_resolve changes a life only by death and by its end, and   *)
(* takes from the dead what they carried and rode.                         *)
LEMMA ResolvedRecord ==
  ASSUME TypeOK, NEW p \in Player
  PROVE  /\ Resolved(p) \in PlayerRecord
         /\ p \in Doomed => /\ Resolved(p).life \in {"DYING", "DEATH_BUBBLE"}
                            /\ Resolved(p).held = NoEntity /\ Resolved(p).mount = NoEntity
         /\ p \notin Doomed =>
              /\ Resolved(p).held = players[p].held /\ Resolved(p).mount = players[p].mount
              /\ \/ Resolved(p).life = players[p].life
                 \/ players[p].life = "DYING" /\ Resolved(p).life = "DEATH_BUBBLE"
<1> DEFINE died == IF p \in Doomed THEN Die(players[p]) ELSE players[p]
           up   == IF Of("CHECKPOINT") # {} THEN Upgrade(died) ELSE died
           hurt == IF p \in Hurt THEN Damage(up) ELSE up
           last == [hurt EXCEPT !.life = "DEATH_BUBBLE", !.recovery = 3 * TicksPerSecond]
<1>0. players[p] \in PlayerRecord
  BY DEF TypeOK
<1>1. /\ died \in PlayerRecord
      /\ p \in Doomed => died.life = "DYING" /\ died.held = NoEntity /\ died.mount = NoEntity
      /\ p \notin Doomed => died = players[p]
  BY <1>0, DieRecord
<1> HIDE DEF died
<1>2. up \in PlayerRecord /\ up.life = died.life /\ up.held = died.held /\ up.mount = died.mount
  BY <1>1, UpgradeRecord
<1> HIDE DEF up
<1>3. hurt \in PlayerRecord /\ hurt.life = up.life /\ hurt.held = up.held /\ hurt.mount = up.mount
  BY <1>2, DamageRecord
<1> HIDE DEF hurt
<1>4. 3 * TicksPerSecond \in Nat
  BY SessionAssumption
<1>5. /\ last \in PlayerRecord /\ last.life = "DEATH_BUBBLE"
      /\ last.held = hurt.held /\ last.mount = hurt.mount
  BY <1>3, <1>4 DEF PlayerRecord, Life
<1>6. Resolved(p) = IF hurt.life = "DYING" /\ Told("DEATH_FINISHED", p) THEN last ELSE hurt
  BY DEF Resolved, died, up, hurt
<1> HIDE DEF last
<1>7. CASE hurt.life = "DYING" /\ Told("DEATH_FINISHED", p)
  <2>1. Resolved(p) = last
    BY <1>6, <1>7
  <2> QED BY <1>1, <1>2, <1>3, <1>5, <1>7, <2>1
<1>8. CASE ~(hurt.life = "DYING" /\ Told("DEATH_FINISHED", p))
  <2>1. Resolved(p) = hurt
    BY <1>6, <1>8
  <2> QED BY <1>1, <1>2, <1>3, <1>8, <2>1
<1> QED BY <1>7, <1>8

(* coop_camera_check_separation leaves a record in play, or moves it to a  *)
(* catch-up bubble without the object it carried.                          *)
LEMMA SeparatedRecord ==
  ASSUME TypeOK, NEW p \in Player, NEW outside, NEW leader, NEW resized
  PROVE  LET u == Separated(p, outside, leader, resized) IN
         /\ u \in PlayerRecord /\ u.mount = players[p].mount
         /\ \/ u.life = players[p].life /\ u.held = players[p].held
            \/ /\ p \in Active /\ u.life = "CATCHUP_BUBBLE" /\ u.held = NoEntity
               /\ Ripe(p, outside, leader, resized) /\ ~LastActive(p, outside, leader, resized)
<1> DEFINE r == players[p]
           zero == [r EXCEPT !.separation = 0]
           more == [r EXCEPT !.separation = @ + 1]
<1>1. r \in PlayerRecord
  BY DEF TypeOK
<1> HIDE DEF r
<1>2. /\ zero \in PlayerRecord /\ zero.life = r.life /\ zero.held = r.held /\ zero.mount = r.mount
      /\ more \in PlayerRecord /\ more.life = r.life /\ more.held = r.held /\ more.mount = r.mount
  BY <1>1 DEF PlayerRecord
<1>3. /\ CatchUp(r) \in PlayerRecord /\ CatchUp(r).life = "CATCHUP_BUBBLE"
      /\ CatchUp(r).held = NoEntity /\ CatchUp(r).mount = r.mount
  BY <1>1, CatchUpRecord
<1>4. \/ Separated(p, outside, leader, resized) \in {r, zero, more}
      \/ /\ Separated(p, outside, leader, resized) = CatchUp(r)
         /\ p \in Active
         /\ Ripe(p, outside, leader, resized) /\ ~LastActive(p, outside, leader, resized)
  BY DEF Separated, r
<1> HIDE DEF zero, more
<1> QED BY <1>1, <1>2, <1>3, <1>4 DEF r

LEMMA EventsTyped ==
  ASSUME TypeOK, NEW k
  PROVE  /\ Of(k) \in SUBSET AnyEvent
         /\ \A e \in Of(k) : e.kind = k
BY SessionAssumption DEF TypeOK, Of

LEMMA CheckpointNat ==
  ASSUME TypeOK PROVE CheckpointAfter \in Nat
<1>1. CASE Of("CHECKPOINT") = {}
  BY <1>1 DEF CheckpointAfter, TypeOK
<1>2. CASE Of("CHECKPOINT") # {}
  <2>1. Earliest(Of("CHECKPOINT")) \in Of("CHECKPOINT")
    BY <1>2, EventsTyped, EarliestExists DEF Earliest
  <2>2. Earliest(Of("CHECKPOINT")) \in AnyEvent
    BY <2>1, EventsTyped
  <2> QED BY <1>2, <2>2 DEF CheckpointAfter, AnyEvent
<1> QED BY <1>1, <1>2

-----------------------------------------------------------------------------
(* Types                                                                   *)

LEMMA InitType == Init => TypeOK
<1> SUFFICES ASSUME Init PROVE TypeOK
  OBVIOUS
<1>1. players \in [Player -> PlayerRecord]
  BY SessionAssumption DEF Init, PlayerRecord, Life, Power
<1>2. advancing \in BOOLEAN /\ blocked \in BOOLEAN /\ resolved \in BOOLEAN
  BY DEF Init
<1> QED BY <1>1, <1>2, SessionAssumption DEF Init, TypeOK

(* A step gives every player a record, and leaves life, object and mount   *)
(* alone unless it resolves, separates, recovers, restarts, carries or     *)
(* rides.                                                                  *)
LEMMA BeginFrameRecords ==
  ASSUME TypeOK, NEW advances \in BOOLEAN, BeginFrame(advances)
  PROVE  /\ players' \in [Player -> PlayerRecord]
         /\ \A p \in Player : /\ players'[p].life = players[p].life
                               /\ players'[p].held = players[p].held
                               /\ players'[p].mount = players[p].mount
<1>1. players \in [Player -> PlayerRecord]
  BY DEF TypeOK
<1>2. CASE advancing'
  <2> DEFINE f == [p \in Player |-> [players[p] EXCEPT
                     !.star = Tick(@), !.protection = Tick(@), !.recovery = Tick(@)]]
  <2>1. players' = f
    BY <1>2 DEF BeginFrame
  <2>2. \A p \in Player : /\ f[p] \in PlayerRecord /\ f[p].life = players[p].life
                          /\ f[p].held = players[p].held /\ f[p].mount = players[p].mount
    BY <1>1, TickRecord
  <2>3. f \in [Player -> PlayerRecord]
    BY <2>2
  <2> HIDE DEF f
  <2> QED BY <2>1, <2>2, <2>3
<1>3. CASE ~advancing'
  BY <1>1, <1>3 DEF BeginFrame
<1> QED BY <1>2, <1>3

LEMMA ResizeRecords ==
  ASSUME TypeOK, Resize
  PROVE  /\ players' \in [Player -> PlayerRecord]
         /\ \A p \in Player : /\ players'[p].life = players[p].life
                               /\ players'[p].held = players[p].held
                               /\ players'[p].mount = players[p].mount
BY DEF TypeOK, Resize, PlayerRecord

LEMMA EquipRecords ==
  ASSUME TypeOK, NEW i \in Player, NEW q \in Equipment, Equip(i, q)
  PROVE  /\ players' \in [Player -> PlayerRecord]
         /\ \A p \in Player : /\ players'[p].life = players[p].life
                               /\ players'[p].held = players[p].held
                               /\ players'[p].mount = players[p].mount
<1>1. q.power \in Power /\ q.reserve \in Nat /\ q.star \in Nat
  BY SessionAssumption
<1> DEFINE r == players[i]
           u == [r EXCEPT !.power = q.power, !.reserve = q.reserve, !.star = q.star]
<1>2. r \in PlayerRecord /\ players \in [Player -> PlayerRecord]
  BY DEF TypeOK
<1>3. players' = [players EXCEPT ![i] = u]
  BY <1>2 DEF Equip
<1> HIDE DEF r
<1>4. u \in PlayerRecord /\ u.life = r.life /\ u.held = r.held /\ u.mount = r.mount
  BY <1>1, <1>2 DEF PlayerRecord
<1> HIDE DEF u
<1> QED BY <1>2, <1>3, <1>4 DEF r

LEMMA ConnectionRecords ==
  ASSUME TypeOK, NEW i \in Player, Connection(i)
  PROVE  /\ players' \in [Player -> PlayerRecord]
         /\ \A p \in Player : /\ players'[p].life = players[p].life
                               /\ players'[p].held = players[p].held
                               /\ players'[p].mount = players[p].mount
<1>1. PICK c \in BOOLEAN : c = ~players[i].connected
  OBVIOUS
<1>2. players' = [players EXCEPT ![i].connected = c]
  BY <1>1 DEF Connection
<1> QED BY <1>2 DEF TypeOK, PlayerRecord

LEMMA CarryRecords ==
  ASSUME TypeOK, NEW i \in Player, NEW e \in Object \cup {NoEntity}, Carry(i, e)
  PROVE  /\ players' \in [Player -> PlayerRecord]
         /\ \A p \in Player : /\ players'[p].life = players[p].life
                               /\ players'[p].mount = players[p].mount
                               /\ p # i => players'[p].held = players[p].held
BY DEF TypeOK, Carry, PlayerRecord

LEMMA RideRecords ==
  ASSUME TypeOK, NEW i \in Player, NEW e \in Mount \cup {NoEntity}, Ride(i, e)
  PROVE  /\ players' \in [Player -> PlayerRecord]
         /\ \A p \in Player : /\ players'[p].life = players[p].life
                               /\ players'[p].held = players[p].held
                               /\ p # i => players'[p].mount = players[p].mount
BY DEF TypeOK, Ride, PlayerRecord

LEMMA RecoverRecords ==
  ASSUME TypeOK, NEW anchor, DOMAIN anchor \subseteq Waiting, Recover(anchor)
  PROVE  /\ players' \in [Player -> PlayerRecord]
         /\ \A p \in Player : /\ players'[p].life \in {"PLAYING", players[p].life}
                               /\ players'[p].held = players[p].held
                               /\ players'[p].mount = players[p].mount
<1> DEFINE f == [p \in Player |-> IF p \in DOMAIN anchor THEN Return(players[p])
                                                         ELSE players[p]]
<1>1. \A p \in Player : players[p] \in PlayerRecord
  BY DEF TypeOK
<1>2. \A p \in Player : /\ f[p] \in PlayerRecord /\ f[p].life \in {"PLAYING", players[p].life}
                        /\ f[p].held = players[p].held /\ f[p].mount = players[p].mount
  BY <1>1, ReturnRecord
<1>3. f \in [Player -> PlayerRecord]
  BY <1>2
<1>4. players' = f
  BY DEF Recover
<1> HIDE DEF f
<1> QED BY <1>2, <1>3, <1>4

LEMMA RestartRecords ==
  ASSUME TypeOK, Restart
  PROVE  /\ players' \in [Player -> PlayerRecord]
         /\ \A p \in Player : /\ players'[p].life = "PLAYING"
                               /\ players'[p].held = NoEntity
                               /\ players'[p].mount = NoEntity
<1> DEFINE f == [p \in Player |-> Fresh(players[p])]
<1>1. \A p \in Player : players[p] \in PlayerRecord
  BY DEF TypeOK
<1>2. \A p \in Player : /\ f[p] \in PlayerRecord /\ f[p].life = "PLAYING"
                        /\ f[p].held = NoEntity /\ f[p].mount = NoEntity
  BY <1>1, FreshRecord
<1>3. f \in [Player -> PlayerRecord]
  BY <1>2
<1>4. players' = f
  BY DEF Restart
<1> HIDE DEF f
<1> QED BY <1>2, <1>3, <1>4

LEMMA SeparateRecords ==
  ASSUME TypeOK, NEW outside, NEW leader, NEW resized, Separate(outside, leader, resized)
  PROVE  /\ players' \in [Player -> PlayerRecord]
         /\ \A p \in Player :
              /\ players'[p].mount = players[p].mount
              /\ \/ players'[p].life = players[p].life /\ players'[p].held = players[p].held
                 \/ /\ p \in Active
                    /\ players'[p].life = "CATCHUP_BUBBLE" /\ players'[p].held = NoEntity
                    /\ Ripe(p, outside, leader, resized)
                    /\ ~LastActive(p, outside, leader, resized)
<1>1. players' = [p \in Player |-> Separated(p, outside, leader, resized)]
  BY DEF Separate
<1>2. \A p \in Player : Separated(p, outside, leader, resized) \in PlayerRecord
  BY SeparatedRecord
<1>3. players' \in [Player -> PlayerRecord]
  BY <1>1, <1>2
<1>4. ASSUME NEW p \in Player
      PROVE  /\ players'[p].mount = players[p].mount
             /\ \/ players'[p].life = players[p].life /\ players'[p].held = players[p].held
                \/ /\ p \in Active
                   /\ players'[p].life = "CATCHUP_BUBBLE" /\ players'[p].held = NoEntity
                   /\ Ripe(p, outside, leader, resized)
                   /\ ~LastActive(p, outside, leader, resized)
  <2>1. players'[p] = Separated(p, outside, leader, resized)
    BY <1>1
  <2> QED BY <2>1, SeparatedRecord
<1> QED BY <1>3, <1>4

LEMMA ResolveRecords ==
  ASSUME TypeOK, Resolve
  PROVE  /\ players' \in [Player -> PlayerRecord]
         /\ \A p \in Player : players'[p] = Resolved(p)
<1>1. \A p \in Player : Resolved(p) \in PlayerRecord
  BY ResolvedRecord
<1> QED BY <1>1 DEF Resolve

(* The session's step, action by action, with the players' records it      *)
(* leaves behind.                                                          *)
LEMMA StepCases ==
  ASSUME TypeOK, [Next]_vars
  PROVE  /\ players' \in [Player -> PlayerRecord]
         /\ \/ \E advances \in BOOLEAN : BeginFrame(advances)
            \/ \E e \in Event : Report(e)
            \/ Resolve
            \/ Resize
            \/ \E outside, leader, resized : Separate(outside, leader, resized)
            \/ \E anchor : /\ DOMAIN anchor \subseteq Waiting
                           /\ \A p \in DOMAIN anchor : anchor[p] \in Active
                           /\ Recover(anchor)
            \/ Restart
            \/ \E p \in Player, q \in Equipment : Equip(p, q)
            \/ \E p \in Player, e \in Object \cup {NoEntity} : Carry(p, e)
            \/ \E p \in Player, e \in Mount \cup {NoEntity} : Ride(p, e)
            \/ \E p \in Player : Connection(p)
            \/ UNCHANGED vars
<1> DEFINE Good == players' \in [Player -> PlayerRecord]
<1>0. players \in [Player -> PlayerRecord]
  BY DEF TypeOK
<1>1. CASE \E advances \in BOOLEAN : BeginFrame(advances)
  <2>1. Good
    BY <1>1, BeginFrameRecords
  <2> QED BY <1>1, <2>1
<1>2. CASE \E e \in Event : Report(e)
  <2>1. Good
    BY <1>0, <1>2 DEF Report
  <2> QED BY <1>2, <2>1
<1>3. CASE Resolve
  <2>1. Good
    BY <1>3, ResolveRecords
  <2> QED BY <1>3, <2>1
<1>4. CASE Resize
  <2>1. Good
    BY <1>4, ResizeRecords
  <2> QED BY <1>4, <2>1
<1>5. CASE \E outside \in SUBSET Active, leader \in Active \cup {NoPlayer}, resized \in BOOLEAN :
             Separate(outside, leader, resized)
  <2>1. PICK outside, leader, resized : Separate(outside, leader, resized)
    BY <1>5
  <2>2. Good
    BY <2>1, SeparateRecords
  <2> QED BY <2>1, <2>2
<1>6. CASE \E returning \in SUBSET Waiting :
             \E anchor \in [returning -> Anchors(returning)] : Recover(anchor)
  <2>0. PICK returning \in SUBSET Waiting :
          \E anchor \in [returning -> Anchors(returning)] : Recover(anchor)
    BY <1>6
  <2>1. PICK anchor \in [returning -> Anchors(returning)] : Recover(anchor)
    BY <2>0
  <2>2. DOMAIN anchor \subseteq Waiting /\ \A p \in DOMAIN anchor : anchor[p] \in Active
    BY DEF Anchors
  <2>3. Good
    BY <2>1, <2>2, RecoverRecords
  <2> QED BY <2>1, <2>2, <2>3
<1>7. CASE Restart
  <2>1. Good
    BY <1>7, RestartRecords
  <2> QED BY <1>7, <2>1
<1>8. CASE \E p \in Player, q \in Equipment : Equip(p, q)
  <2>1. Good
    BY <1>8, EquipRecords
  <2> QED BY <1>8, <2>1
<1>9. CASE \E p \in Player, e \in Object \cup {NoEntity} : Carry(p, e)
  <2>1. Good
    BY <1>9 DEF Carry, TypeOK, PlayerRecord
  <2> QED BY <1>9, <2>1
<1>10. CASE \E p \in Player, e \in Mount \cup {NoEntity} : Ride(p, e)
  <2>1. Good
    BY <1>10 DEF Ride, TypeOK, PlayerRecord
  <2> QED BY <1>10, <2>1
<1>11. CASE \E p \in Unpluggable : Connection(p)
  <2>1. PICK p \in Player : Connection(p)
    BY <1>11, SessionAssumption
  <2>2. Good
    BY <2>1, ConnectionRecords
  <2> QED BY <2>1, <2>2
<1>12. CASE UNCHANGED vars
  BY <1>0, <1>12 DEF vars
<1> QED BY <1>1, <1>2, <1>3, <1>4, <1>5, <1>6, <1>7, <1>8, <1>9, <1>10, <1>11, <1>12 DEF Next

LEMMA TypeStep == TypeOK /\ [Next]_vars => TypeOK'
<1> SUFFICES ASSUME TypeOK, [Next]_vars PROVE TypeOK'
  OBVIOUS
<1> USE DEF TypeOK
<1>0. players' \in [Player -> PlayerRecord]
  BY StepCases
<1>1. ASSUME NEW advances \in BOOLEAN, BeginFrame(advances) PROVE TypeOK'
  <2>1. advancing' \in BOOLEAN /\ blocked' \in BOOLEAN /\ resolved' \in BOOLEAN
    BY <1>1 DEF BeginFrame
  <2> QED BY <1>0, <1>1, <2>1 DEF BeginFrame
<1>2. ASSUME NEW e \in Event, Report(e) PROVE TypeOK'
  BY <1>0, <1>2 DEF Report, frame
<1>3. CASE Resolve
  <2>1. checkpoint' \in Nat
    BY <1>3, CheckpointNat DEF Resolve
  <2>2. LivesAfter \in Nat /\ lives - LivesAfter \in Nat
    BY DEF LivesAfter, Tick
  <2>3. lives' \in Nat /\ charged' \in Nat
    BY <1>3, <2>2 DEF Resolve
  <2>4. outcome' \in {"CONTINUE", "RETRY", "GAME_OVER", "CLEAR"}
    BY <1>3 DEF Resolve, OutcomeAfter
  <2>5. resolved' \in BOOLEAN /\ advancing' \in BOOLEAN /\ blocked' \in BOOLEAN
    BY <1>3 DEF Resolve, frame
  <2>6. events' \subseteq Event
    BY <1>3 DEF Resolve
  <2> QED BY <1>0, <2>1, <2>3, <2>4, <2>5, <2>6
<1>4. CASE Resize
  BY <1>0, <1>4 DEF Resize, frame
<1>5. ASSUME NEW outside, NEW leader, NEW resized, Separate(outside, leader, resized)
      PROVE TypeOK'
  BY <1>0, <1>5 DEF Separate, frame
<1>6. ASSUME NEW anchor, Recover(anchor) PROVE TypeOK'
  BY <1>0, <1>6 DEF Recover, frame
<1>7. CASE Restart
  BY <1>0, <1>7 DEF Restart, frame
<1>8. ASSUME NEW p \in Player, NEW q \in Equipment, Equip(p, q) PROVE TypeOK'
  BY <1>0, <1>8 DEF Equip, frame
<1>9. ASSUME NEW p \in Player, NEW e \in Object \cup {NoEntity}, Carry(p, e) PROVE TypeOK'
  BY <1>0, <1>9 DEF Carry, frame
<1>10. ASSUME NEW p \in Player, NEW e \in Mount \cup {NoEntity}, Ride(p, e) PROVE TypeOK'
  BY <1>0, <1>10 DEF Ride, frame
<1>11. ASSUME NEW p \in Player, Connection(p) PROVE TypeOK'
  BY <1>0, <1>11 DEF Connection, frame
<1>12. CASE UNCHANGED vars
  BY <1>12 DEF vars, frame
<1> HIDE DEF TypeOK
<1> QED BY <1>1, <1>2, <1>3, <1>4, <1>5, <1>6, <1>7, <1>8, <1>9, <1>10, <1>11, <1>12, StepCases

-----------------------------------------------------------------------------
(* Somebody plays                                                          *)

LEMMA ActiveStep == TypeOK /\ SomeoneActive /\ [Next]_vars => SomeoneActive'
<1> SUFFICES ASSUME TypeOK, SomeoneActive, [Next]_vars, outcome' = "CONTINUE"
             PROVE  \E p \in Player : players'[p].life = "PLAYING"
  BY DEF SomeoneActive, Active
<1>0. outcome = "CONTINUE" => \E p \in Player : players[p].life = "PLAYING"
  BY DEF SomeoneActive, Active
<1>1. ASSUME NEW advances \in BOOLEAN, BeginFrame(advances)
      PROVE  \E p \in Player : players'[p].life = "PLAYING"
  <2>1. outcome = "CONTINUE"
    BY <1>1 DEF BeginFrame
  <2> QED BY <1>0, <1>1, <2>1, BeginFrameRecords
<1>2. ASSUME NEW e \in Event, Report(e)
      PROVE  \E p \in Player : players'[p].life = "PLAYING"
  BY <1>0, <1>2 DEF Report
<1>3. CASE Resolve
  <2>1. ~Failed /\ ~Cleared
    BY <1>3 DEF Resolve, OutcomeAfter
  <2>2. PICK p \in Survivors : TRUE
    BY <2>1 DEF Failed
  <2>3. p \in Player /\ p \notin Doomed /\ players[p].life = "PLAYING"
    BY <2>2 DEF Survivors, Active
  <2>4. players'[p].life = "PLAYING"
    BY <1>3, <2>3, ResolveRecords, ResolvedRecord
  <2> QED BY <2>3, <2>4
<1>4. CASE Resize
  <2>1. outcome = "CONTINUE"
    BY <1>4 DEF Resize
  <2> QED BY <1>0, <1>4, <2>1, ResizeRecords
<1>5. ASSUME NEW outside, NEW leader, NEW resized, Separate(outside, leader, resized)
      PROVE  \E p \in Player : players'[p].life = "PLAYING"
  <2>1. Active # {} /\ Active \subseteq Nat /\ \A p \in Active : p <= PlayerCount
    BY <1>0, <1>5, PlayerNat DEF Separate, Active
  <2>2. PICK m \in Active : \A p \in Active : p <= m
    BY <2>1, NatGreatest, SessionAssumption
  <2>3. \A p \in Active : p \in Player /\ players[p].life = "PLAYING"
    BY DEF Active
  <2>4. CASE players'[m].life = "PLAYING"
    BY <2>3, <2>4
  <2>5. CASE players'[m].life # "PLAYING"
    <3>1. Ripe(m, outside, leader, resized) /\ ~LastActive(m, outside, leader, resized)
      BY <1>5, <2>3, <2>5, SeparateRecords
    <3>2. PICK q \in Active \ {m} : ~(q < m /\ Ripe(q, outside, leader, resized))
      BY <3>1 DEF LastActive
    <3>3. q < m
      BY <2>1, <2>2, <3>2
    <3>4. players'[q].life = "PLAYING"
      BY <1>5, <2>3, <3>2, <3>3, SeparateRecords
    <3> QED BY <2>3, <3>4
  <2> QED BY <2>4, <2>5
<1>6. ASSUME NEW anchor, DOMAIN anchor \subseteq Waiting, Recover(anchor)
      PROVE  \E p \in Player : players'[p].life = "PLAYING"
  <2>1. outcome = "CONTINUE"
    BY <1>6 DEF Recover
  <2>2. PICK p \in Player : players[p].life = "PLAYING"
    BY <1>0, <2>1
  <2>3. players'[p].life = "PLAYING"
    BY <1>6, <2>2, RecoverRecords
  <2> QED BY <2>3
<1>7. CASE Restart
  BY <1>7, RestartRecords, PlayerNat
<1>8. ASSUME NEW i \in Player, NEW q \in Equipment, Equip(i, q)
      PROVE  \E p \in Player : players'[p].life = "PLAYING"
  <2>1. outcome = "CONTINUE"
    BY <1>8 DEF Equip
  <2> QED BY <1>0, <1>8, <2>1, EquipRecords
<1>9. ASSUME NEW i \in Player, NEW e \in Object \cup {NoEntity}, Carry(i, e)
      PROVE  \E p \in Player : players'[p].life = "PLAYING"
  <2>1. outcome = "CONTINUE"
    BY <1>9 DEF Carry
  <2>2. \A p \in Player : players'[p].life = players[p].life
    BY <1>9 DEF Carry, TypeOK, PlayerRecord
  <2> QED BY <1>0, <2>1, <2>2
<1>10. ASSUME NEW i \in Player, NEW e \in Mount \cup {NoEntity}, Ride(i, e)
       PROVE  \E p \in Player : players'[p].life = "PLAYING"
  <2>1. outcome = "CONTINUE"
    BY <1>10 DEF Ride
  <2>2. \A p \in Player : players'[p].life = players[p].life
    BY <1>10 DEF Ride, TypeOK, PlayerRecord
  <2> QED BY <1>0, <2>1, <2>2
<1>11. ASSUME NEW i \in Player, Connection(i)
       PROVE  \E p \in Player : players'[p].life = "PLAYING"
  <2>1. outcome = "CONTINUE"
    BY <1>11 DEF Connection
  <2> QED BY <1>0, <1>11, <2>1, ConnectionRecords
<1>12. CASE UNCHANGED vars
  BY <1>0, <1>12 DEF vars
<1> QED BY <1>1, <1>2, <1>3, <1>4, <1>5, <1>6, <1>7, <1>8, <1>9, <1>10, <1>11, <1>12, StepCases

-----------------------------------------------------------------------------
(* Lives and possessions                                                   *)

LEMMA LivesStep == TypeOK /\ OneLifePerAttempt /\ [Next]_vars => OneLifePerAttempt'
<1> SUFFICES ASSUME TypeOK, OneLifePerAttempt, [Next]_vars PROVE OneLifePerAttempt'
  OBVIOUS
<1>1. CASE Resolve
  <2>1. lives \in Nat /\ charged \in Nat /\ outcome = "CONTINUE"
    BY <1>1 DEF TypeOK, Resolve
  <2>2. charged = 0
    BY <2>1 DEF OneLifePerAttempt
  <2>3. charged' = lives - LivesAfter /\ lives' = LivesAfter /\ outcome' = OutcomeAfter
    BY <1>1, <2>1, <2>2 DEF Resolve, LivesAfter, Tick
  <2>4. CASE Failed
    <3>1. ~Cleared
      BY <2>4 DEF Failed
    <3>2. LivesAfter = IF lives > 0 THEN lives - 1 ELSE 0
      BY <2>4 DEF LivesAfter, Tick
    <3>3. outcome' = IF LivesAfter > 0 THEN "RETRY" ELSE "GAME_OVER"
      BY <2>3, <2>4, <3>1 DEF OutcomeAfter
    <3> QED BY <2>1, <2>3, <3>2, <3>3 DEF OneLifePerAttempt
  <2>5. CASE ~Failed
    <3>1. LivesAfter = lives /\ outcome' \in {"CLEAR", "CONTINUE"}
      BY <2>3, <2>5 DEF LivesAfter, OutcomeAfter
    <3> QED BY <2>1, <2>3, <3>1 DEF OneLifePerAttempt
  <2> QED BY <2>4, <2>5
<1>2. CASE Restart
  BY <1>2 DEF Restart, OneLifePerAttempt
<1>3. CASE UNCHANGED <<lives, outcome, charged>>
  BY <1>3 DEF OneLifePerAttempt
<1>4. \/ Resolve \/ Restart \/ UNCHANGED <<lives, outcome, charged>>
  BY StepCases DEF BeginFrame, Report, Resize, Separate, Recover, Equip, Carry, Ride,
                   Connection, vars
<1> QED BY <1>1, <1>2, <1>3, <1>4

LEMMA OwnStep == TypeOK /\ OutOfPlayOwnsNothing /\ [Next]_vars => OutOfPlayOwnsNothing'
<1> SUFFICES ASSUME TypeOK, OutOfPlayOwnsNothing, [Next]_vars, NEW p \in Player
             PROVE  /\ players'[p].life # "PLAYING" => players'[p].held = NoEntity
                    /\ players'[p].life \in {"DYING", "DEATH_BUBBLE"} =>
                         players'[p].mount = NoEntity
  BY DEF OutOfPlayOwnsNothing
<1> DEFINE Kept == /\ players'[p].life # "PLAYING" => players'[p].held = NoEntity
                   /\ players'[p].life \in {"DYING", "DEATH_BUBBLE"} =>
                        players'[p].mount = NoEntity
<1>0. /\ players[p].life # "PLAYING" => players[p].held = NoEntity
      /\ players[p].life \in {"DYING", "DEATH_BUBBLE"} => players[p].mount = NoEntity
  BY DEF OutOfPlayOwnsNothing
<1>1. ASSUME NEW advances \in BOOLEAN, BeginFrame(advances) PROVE Kept
  BY <1>0, <1>1, BeginFrameRecords
<1>2. ASSUME NEW e \in Event, Report(e) PROVE Kept
  BY <1>0, <1>2 DEF Report
<1>3. CASE Resolve
  BY <1>0, <1>3, ResolveRecords, ResolvedRecord
<1>4. CASE Resize
  BY <1>0, <1>4, ResizeRecords
<1>5. ASSUME NEW outside, NEW leader, NEW resized, Separate(outside, leader, resized)
      PROVE  Kept
  BY <1>0, <1>5, SeparateRecords
<1>6. ASSUME NEW anchor, DOMAIN anchor \subseteq Waiting, Recover(anchor) PROVE Kept
  BY <1>0, <1>6, RecoverRecords
<1>7. CASE Restart
  BY <1>7, RestartRecords
<1>8. ASSUME NEW i \in Player, NEW q \in Equipment, Equip(i, q) PROVE Kept
  BY <1>0, <1>8, EquipRecords
<1>9. ASSUME NEW i \in Player, NEW e \in Object \cup {NoEntity}, Carry(i, e) PROVE Kept
  BY <1>0, <1>9 DEF Carry, Active, TypeOK, PlayerRecord
<1>10. ASSUME NEW i \in Player, NEW e \in Mount \cup {NoEntity}, Ride(i, e) PROVE Kept
  BY <1>0, <1>10 DEF Ride, Active, TypeOK, PlayerRecord
<1>11. ASSUME NEW i \in Player, Connection(i) PROVE Kept
  BY <1>0, <1>11, ConnectionRecords
<1>12. CASE UNCHANGED vars
  BY <1>0, <1>12 DEF vars
<1> QED BY <1>1, <1>2, <1>3, <1>4, <1>5, <1>6, <1>7, <1>8, <1>9, <1>10, <1>11, <1>12, StepCases

-----------------------------------------------------------------------------
(* Actions                                                                 *)

(* What an award is: the nearest surviving contact of its entity.          *)
LEMMA AwardFacts ==
  ASSUME TypeOK, NEW k, NEW kind, NEW a \in Awards(k, kind)
  PROVE  LET w == Nearest(Contacts(k, a.entity)) IN
         /\ a = Action(kind, w.player, w.entity, w.value)
         /\ a.kind = kind /\ a.player \in Survivors
<1>1. PICK e \in Of(k) : /\ e.player \in Survivors
                         /\ LET w == Nearest(Contacts(k, e.entity))
                            IN  a = Action(kind, w.player, w.entity, w.value)
  BY DEF Awards
<1> DEFINE C == Contacts(k, e.entity)
           w == Nearest(C)
<1>2. C \in SUBSET AnyEvent /\ C # {} /\ \A d \in C : d.kind = k /\ d.player \in Player
  BY <1>1, EventsTyped DEF Contacts, Survivors, Active
<1> HIDE DEF C
<1>3. w \in C
  BY <1>2, NearestExists
<1>4. w.entity = e.entity /\ w.player \in Survivors
  BY <1>3 DEF C, Contacts
<1>5. a = Action(kind, w.player, w.entity, w.value)
  BY <1>1 DEF C
<1> HIDE DEF w
<1>6. a.entity = e.entity /\ a.kind = kind /\ a.player = w.player
  BY <1>4, <1>5 DEF Action
<1>7. w = Nearest(Contacts(k, a.entity))
  BY <1>6 DEF w, C
<1> QED BY <1>4, <1>5, <1>6, <1>7

(* Who an action of coop_session_resolve is about.                         *)
LEMMA DecisionFacts ==
  ASSUME TypeOK, NEW a \in Decisions
  PROVE  \/ a.kind \in {"DEATH", "DROP_OBJECT", "DETACH_MOUNT"} /\ a.player \in Doomed
         \/ a.kind \in {"DAMAGE", "DROP_RESERVE", "STOMP_BOUNCE"} /\ a.player \in Survivors
         \/ a.kind = "PICKUP" /\ a \in Awards("PICKUP", "PICKUP")
         \/ a.kind = "ENEMY_DAMAGE" /\ a \in Awards("ENEMY_CONTACT", "ENEMY_DAMAGE")
         \/ a.kind \in {"ON_OFF", "CHECKPOINT", "EXIT", "RETRY", "GAME_OVER"}
<1>1. CASE a \in Deaths
  BY <1>1 DEF Deaths, Action
<1>2. CASE a \in Injuries
  <2>1. Hurt \subseteq Survivors
    BY DEF Hurt
  <2>2. a.kind \in {"DAMAGE", "DROP_RESERVE"} /\ a.player \in Hurt
    BY <1>2 DEF Injuries, Action
  <2> QED BY <2>1, <2>2
<1>3. CASE a \in Bounces
  BY <1>3 DEF Bounces, Action
<1>4. CASE a \in Awards("PICKUP", "PICKUP")
  BY <1>4, AwardFacts
<1>5. CASE a \in Awards("ENEMY_CONTACT", "ENEMY_DAMAGE")
  BY <1>5, AwardFacts
<1>6. CASE a \in FirstOf("ON_OFF", LAMBDA e : 0)
  BY <1>6 DEF FirstOf, Action
<1>7. CASE a \in FirstOf("CHECKPOINT", LAMBDA e : e.value)
  BY <1>7 DEF FirstOf, Action
<1>8. CASE Cleared /\ a = Action("EXIT", ExitWinner.player, ExitWinner.entity,
                                 Secret(ExitWinner) + 256 * GoalStars)
  BY <1>8 DEF Action
<1>9. CASE ~Cleared /\ Failed /\ a = Action(OutcomeAfter, NoPlayer, NoEntity, CheckpointAfter)
  <2>1. OutcomeAfter \in {"RETRY", "GAME_OVER"}
    BY <1>9 DEF OutcomeAfter
  <2>2. a.kind = OutcomeAfter
    BY <1>9 DEF Action
  <2> QED BY <2>1, <2>2
<1> QED BY <1>1, <1>2, <1>3, <1>4, <1>5, <1>6, <1>7, <1>8, <1>9 DEF Decisions

(* Outside coop_session_resolve a step adds only drops and recoveries.     *)
LEMMA NewActions ==
  ASSUME TypeOK, [Next]_vars, ~Resolve, NEW a \in actions' \ actions
  PROVE  a.kind \in {"DROP_OBJECT", "RECOVER"}
<1>1. ASSUME NEW outside, NEW leader, NEW resized, Separate(outside, leader, resized)
      PROVE  a.kind = "DROP_OBJECT"
  BY <1>1 DEF Separate, Drops, Action
<1>2. ASSUME NEW anchor, Recover(anchor) PROVE a.kind = "RECOVER"
  BY <1>2 DEF Recover, Action
<1>3. \/ \E outside, leader, resized : Separate(outside, leader, resized)
      \/ \E anchor : Recover(anchor)
      \/ actions' = {} \/ actions' = actions
  BY StepCases DEF BeginFrame, Report, Resize, Restart, Equip, Carry, Ride, Connection, vars
<1> QED BY <1>1, <1>2, <1>3

LEMMA DisciplineStep == TypeOK /\ FrameDiscipline /\ [Next]_vars => FrameDiscipline'
<1> SUFFICES ASSUME TypeOK, FrameDiscipline, [Next]_vars PROVE FrameDiscipline'
  OBVIOUS
<1>1. blocked' => ~advancing' /\ events' = {}
  <2>1. ASSUME NEW advances \in BOOLEAN, BeginFrame(advances)
        PROVE  blocked' => ~advancing' /\ events' = {}
    BY <2>1 DEF BeginFrame
  <2>2. ASSUME NEW e \in Event, Report(e) PROVE blocked' => ~advancing' /\ events' = {}
    BY <2>2 DEF Report, frame
  <2>3. CASE Restart
    BY <2>3 DEF Restart, frame, FrameDiscipline
  <2>4. CASE UNCHANGED <<frame, events>>
    BY <2>4 DEF frame, FrameDiscipline
  <2>5. \/ \E advances \in BOOLEAN : BeginFrame(advances)
        \/ \E e \in Event : Report(e)
        \/ Restart
        \/ UNCHANGED <<frame, events>>
    BY StepCases DEF Resolve, Resize, Separate, Recover, Equip, Carry, Ride, Connection,
                     vars, frame
  <2> QED BY <2>1, <2>2, <2>3, <2>4, <2>5
<1>2. ASSUME ~resolved', NEW a \in actions' PROVE a.kind \in {"DROP_OBJECT", "RECOVER"}
  <2>1. ~Resolve
    BY <1>2 DEF Resolve
  <2>2. CASE a \notin actions
    BY <1>2, <2>1, <2>2, NewActions
  <2>3. CASE a \in actions
    <3>1. actions' = {} \/ resolved' = resolved
      BY <2>1, StepCases DEF BeginFrame, Report, Resize, Separate, Recover, Restart, Equip,
                             Carry, Ride, Connection, vars
    <3> QED BY <1>2, <2>3, <3>1 DEF FrameDiscipline
  <2> QED BY <2>2, <2>3
<1> QED BY <1>1, <1>2 DEF FrameDiscipline

(* Two awards of one kind for one entity are the same award.               *)
LEMMA AwardUnique ==
  ASSUME TypeOK, NEW k, NEW kind, NEW a \in Awards(k, kind), NEW b \in Awards(k, kind),
         a.entity = b.entity
  PROVE  a = b
BY AwardFacts

LEMMA WinnerStep ==
  TypeOK /\ FrameDiscipline /\ OneWinner /\ [Next]_vars => OneWinner'
<1> SUFFICES ASSUME TypeOK, FrameDiscipline, OneWinner, [Next]_vars,
                    NEW a \in actions', NEW b \in actions',
                    a.kind \in {"PICKUP", "ENEMY_DAMAGE"}, a.kind = b.kind,
                    a.entity = b.entity
             PROVE  a = b
  BY DEF OneWinner
<1>1. CASE Resolve
  <2>1. a \in Decisions /\ b \in Decisions
    BY <1>1 DEF Resolve, FrameDiscipline
  <2>2. CASE a.kind = "PICKUP"
    <3>1. a \in Awards("PICKUP", "PICKUP") /\ b \in Awards("PICKUP", "PICKUP")
      BY <2>1, <2>2, DecisionFacts
    <3> QED BY <3>1, AwardUnique
  <2>3. CASE a.kind = "ENEMY_DAMAGE"
    <3>1. /\ a \in Awards("ENEMY_CONTACT", "ENEMY_DAMAGE")
          /\ b \in Awards("ENEMY_CONTACT", "ENEMY_DAMAGE")
      BY <2>1, <2>3, DecisionFacts
    <3> QED BY <3>1, AwardUnique
  <2> QED BY <2>2, <2>3
<1>2. CASE ~Resolve
  <2>1. a \in actions /\ b \in actions
    BY <1>2, NewActions
  <2> QED BY <2>1 DEF OneWinner
<1> QED BY <1>1, <1>2

LEMMA LethalStep ==
  TypeOK /\ FrameDiscipline /\ LethalFirst /\ [Next]_vars => LethalFirst'
<1> SUFFICES ASSUME TypeOK, FrameDiscipline, LethalFirst, [Next]_vars,
                    NEW a \in actions', NEW b \in actions',
                    a.kind = "DEATH", b.player = a.player
             PROVE  b.kind \notin {"PICKUP", "ENEMY_DAMAGE", "STOMP_BOUNCE", "DAMAGE",
                                   "DROP_RESERVE"}
  BY DEF LethalFirst
<1>1. CASE Resolve
  <2>1. a \in Decisions
    BY <1>1 DEF Resolve, FrameDiscipline
  <2>2. a.player \in Doomed
    BY <2>1, DecisionFacts
  <2>3. b.player \notin Survivors
    BY <2>2 DEF Survivors
  <2>4. CASE b \in Decisions
    <3>1. b \notin Awards("PICKUP", "PICKUP") /\ b \notin Awards("ENEMY_CONTACT", "ENEMY_DAMAGE")
      BY <2>3, AwardFacts
    <3> QED BY <2>3, <2>4, <3>1, DecisionFacts
  <2>5. CASE b \in actions
    BY <1>1, <2>5 DEF Resolve, FrameDiscipline
  <2> QED BY <1>1, <2>4, <2>5 DEF Resolve
<1>2. CASE ~Resolve
  <2>1. a \in actions
    BY <1>2, NewActions
  <2>2. CASE b \in actions
    BY <2>1, <2>2 DEF LethalFirst
  <2>3. CASE b \notin actions
    BY <1>2, <2>3, NewActions
  <2> QED BY <2>2, <2>3
<1> QED BY <1>1, <1>2

-----------------------------------------------------------------------------
(* Theorems                                                                *)

LEMMA InitSession == Init => SessionInv
<1> SUFFICES ASSUME Init PROVE SessionInv
  OBVIOUS
<1>1. \A p \in Player : /\ players[p].life = "PLAYING" /\ players[p].held = NoEntity
                        /\ players[p].mount = NoEntity
  BY DEF Init
<1>2. SomeoneActive /\ OutOfPlayOwnsNothing
  BY <1>1, PlayerNat DEF SomeoneActive, Active, OutOfPlayOwnsNothing
<1>3. OneLifePerAttempt
  BY DEF Init, OneLifePerAttempt
<1>4. FrameDiscipline /\ OneWinner /\ LethalFirst
  BY DEF Init, FrameDiscipline, OneWinner, LethalFirst
<1> QED BY <1>2, <1>3, <1>4, InitType DEF SessionInv

(* The inductive invariant of coop_session.c, whatever the roster and in   *)
(* whatever order the adapter calls the session's functions.               *)
THEOREM SessionInvariant == Spec => []SessionInv
<1>1. SessionInv /\ [Next]_vars => SessionInv'
  BY TypeStep, ActiveStep, LivesStep, OwnStep, DisciplineStep, WinnerStep, LethalStep
     DEF SessionInv
<1> QED BY InitSession, <1>1, PTL DEF Spec

(* An attempt that goes on has somebody in play.                           *)
THEOREM SomeoneAlwaysPlays == Spec => []SomeoneActive
<1>1. SessionInv => SomeoneActive
  BY DEF SessionInv
<1> QED BY SessionInvariant, <1>1, PTL

(* An attempt costs the team one life at most, and none if it was cleared. *)
THEOREM AttemptsCostOneLife == Spec => []OneLifePerAttempt
<1>1. SessionInv => OneLifePerAttempt
  BY DEF SessionInv
<1> QED BY SessionInvariant, <1>1, PTL

(* A player out of play owns no object, and a dead one no mount.           *)
THEOREM OwnershipEnds == Spec => []OutOfPlayOwnsNothing
<1>1. SessionInv => OutOfPlayOwnsNothing
  BY DEF SessionInv
<1> QED BY SessionInvariant, <1>1, PTL

(* One entity, one award per frame; the dead win nothing.                  *)
THEOREM ContactsAreArbitrated == Spec => [](OneWinner /\ LethalFirst)
<1>1. SessionInv => OneWinner /\ LethalFirst
  BY DEF SessionInv
<1> QED BY SessionInvariant, <1>1, PTL

(* A step takes a player out of play by a death or by being left behind.   *)
LEMMA LeavingPlay ==
  ASSUME TypeOK, [Next]_vars, NEW p \in Player,
         players[p].life = "PLAYING", players'[p].life # "PLAYING"
  PROVE  \/ Resolve /\ p \in Doomed
         \/ \E outside, leader, resized :
              Separate(outside, leader, resized) /\ players'[p].mount = players[p].mount
<1>1. ASSUME NEW advances \in BOOLEAN, BeginFrame(advances) PROVE FALSE
  BY <1>1, BeginFrameRecords
<1>2. ASSUME NEW e \in Event, Report(e) PROVE FALSE
  BY <1>2 DEF Report
<1>3. CASE Resolve
  BY <1>3, ResolveRecords, ResolvedRecord
<1>4. ASSUME Resize PROVE FALSE
  BY <1>4, ResizeRecords
<1>5. ASSUME NEW outside, NEW leader, NEW resized, Separate(outside, leader, resized)
      PROVE  players'[p].mount = players[p].mount
  BY <1>5, SeparateRecords
<1>6. ASSUME NEW anchor, DOMAIN anchor \subseteq Waiting, Recover(anchor) PROVE FALSE
  BY <1>6, RecoverRecords
<1>7. ASSUME Restart PROVE FALSE
  BY <1>7, RestartRecords
<1>8. ASSUME NEW i \in Player, NEW q \in Equipment, Equip(i, q) PROVE FALSE
  BY <1>8, EquipRecords
<1>9. ASSUME NEW i \in Player, NEW e \in Object \cup {NoEntity}, Carry(i, e) PROVE FALSE
  BY <1>9 DEF Carry, TypeOK, PlayerRecord
<1>10. ASSUME NEW i \in Player, NEW e \in Mount \cup {NoEntity}, Ride(i, e) PROVE FALSE
  BY <1>10 DEF Ride, TypeOK, PlayerRecord
<1>11. ASSUME NEW i \in Player, Connection(i) PROVE FALSE
  BY <1>11, ConnectionRecords
<1>12. ASSUME UNCHANGED vars PROVE FALSE
  BY <1>12 DEF vars
<1> QED BY <1>1, <1>2, <1>3, <1>4, <1>5, <1>6, <1>7, <1>8, <1>9, <1>10, <1>11, <1>12, StepCases

(* What a player loses with the life is handed to the world in that frame. *)
THEOREM PossessionsReturn == Spec => NothingVanishes
<1> DEFINE Returned ==
      \A p \in Player : players[p].life = "PLAYING" /\ players'[p].life # "PLAYING" =>
        /\ players[p].held # NoEntity =>
             Action("DROP_OBJECT", p, players[p].held, 0) \in actions'
        /\ players[p].mount \notin {NoEntity, players'[p].mount} =>
             Action("DETACH_MOUNT", p, players[p].mount, 0) \in actions'
<1>1. TypeOK /\ [Next]_vars => [Returned]_vars
  <2> SUFFICES ASSUME TypeOK, [Next]_vars, NEW p \in Player,
                      players[p].life = "PLAYING", players'[p].life # "PLAYING"
               PROVE  /\ players[p].held # NoEntity =>
                           Action("DROP_OBJECT", p, players[p].held, 0) \in actions'
                      /\ players[p].mount \notin {NoEntity, players'[p].mount} =>
                           Action("DETACH_MOUNT", p, players[p].mount, 0) \in actions'
    OBVIOUS
  <2>1. CASE Resolve /\ p \in Doomed
    <3>1. /\ players[p].held # NoEntity =>
               Action("DROP_OBJECT", p, players[p].held, 0) \in Deaths
          /\ players[p].mount # NoEntity =>
               Action("DETACH_MOUNT", p, players[p].mount, 0) \in Deaths
      BY <2>1 DEF Deaths
    <3>2. Deaths \subseteq actions'
      BY <2>1 DEF Resolve, Decisions
    <3> QED BY <3>1, <3>2
  <2>2. ASSUME NEW outside, NEW leader, NEW resized, Separate(outside, leader, resized),
               players'[p].mount = players[p].mount
        PROVE  players[p].held # NoEntity =>
                 Action("DROP_OBJECT", p, players[p].held, 0) \in actions'
    BY <2>2 DEF Separate, Drops, Active
  <2> QED BY <2>1, <2>2, LeavingPlay
<1>2. Spec => []TypeOK
  BY SessionInvariant, PTL DEF SessionInv
<1> QED BY <1>1, <1>2, PTL DEF Spec, NothingVanishes

(* A player returns to one who was in play before the call.                *)
THEOREM AnchorsAreSnapshots == Spec => AnchorsWereActive
<1> DEFINE Anchored == \A a \in actions' \ actions : a.kind = "RECOVER" =>
                         a.value \in Active /\ players[a.player].life # "PLAYING"
<1>1. TypeOK /\ [Next]_vars => [Anchored]_vars
  <2> SUFFICES ASSUME TypeOK, [Next]_vars, NEW a \in actions' \ actions, a.kind = "RECOVER"
               PROVE  a.value \in Active /\ players[a.player].life # "PLAYING"
    OBVIOUS
  <2>1. ~Resolve
    BY DecisionFacts DEF Resolve
  <2>2. ASSUME NEW anchor, DOMAIN anchor \subseteq Waiting,
               \A p \in DOMAIN anchor : anchor[p] \in Active, Recover(anchor)
        PROVE  a.value \in Active /\ players[a.player].life # "PLAYING"
    <3>1. PICK p \in DOMAIN anchor : a = Action("RECOVER", p, NoEntity, anchor[p])
      BY <2>2 DEF Recover
    <3>2. a.value = anchor[p] /\ a.player = p
      BY <3>1 DEF Action
    <3>3. players[p].life \in {"DEATH_BUBBLE", "CATCHUP_BUBBLE"}
      BY <2>2 DEF Waiting, Bubbles
    <3> QED BY <2>2, <3>2, <3>3
  <2>3. ASSUME NEW outside, NEW leader, NEW resized, Separate(outside, leader, resized)
        PROVE  FALSE
    BY <2>3 DEF Separate, Drops, Action
  <2>4. \/ \E outside, leader, resized : Separate(outside, leader, resized)
        \/ \E anchor : /\ DOMAIN anchor \subseteq Waiting
                       /\ \A p \in DOMAIN anchor : anchor[p] \in Active
                       /\ Recover(anchor)
        \/ actions' = {} \/ actions' = actions
    BY <2>1, StepCases
       DEF BeginFrame, Report, Resize, Restart, Equip, Carry, Ride, Connection, vars
  <2> QED BY <2>2, <2>3, <2>4
<1>2. Spec => []TypeOK
  BY SessionInvariant, PTL DEF SessionInv
<1> QED BY <1>1, <1>2, PTL DEF Spec, AnchorsWereActive

(* With a controller missing the team waits: nothing is gained or lost.    *)
THEOREM BlockedTeamWaits == Spec => FrozenWhileBlocked
<1> DEFINE Frozen == blocked /\ blocked' =>
      /\ lives' = lives /\ checkpoint' = checkpoint /\ events' = {}
      /\ outcome' # outcome => outcome' = "CONTINUE"
      /\ outcome' = outcome => \A p \in Player : players'[p].life = players[p].life
<1>1. SessionInv /\ [Next]_vars => [Frozen]_vars
  <2> SUFFICES ASSUME SessionInv, [Next]_vars, blocked, blocked' PROVE Frozen
    OBVIOUS
  <2>0. TypeOK /\ ~advancing /\ events = {}
    BY DEF SessionInv, FrameDiscipline
  <2>1. ASSUME NEW advances \in BOOLEAN, BeginFrame(advances) PROVE Frozen
    BY <2>0, <2>1, BeginFrameRecords DEF BeginFrame
  <2>2. CASE Resize
    BY <2>0, <2>2, ResizeRecords DEF Resize
  <2>3. CASE Restart
    BY <2>3 DEF Restart
  <2>4. ASSUME NEW i \in Player, Connection(i) PROVE Frozen
    BY <2>0, <2>4, ConnectionRecords DEF Connection
  <2>5. CASE UNCHANGED vars
    BY <2>0, <2>5 DEF vars
  <2>6. \/ \E advances \in BOOLEAN : BeginFrame(advances)
        \/ Resize \/ Restart
        \/ \E p \in Player : Connection(p)
        \/ UNCHANGED vars
    BY <2>0, StepCases DEF Report, Resolve, Separate, Recover, Equip, Carry, Ride
  <2> QED BY <2>1, <2>2, <2>3, <2>4, <2>5, <2>6
<1> QED BY <1>1, SessionInvariant, PTL DEF Spec, FrozenWhileBlocked

-----------------------------------------------------------------------------
(* The contacts of a frame, for any number of actors, whoever is primary   *)
(* and whatever distances the guest reports.                               *)

Crew == Contact!Player

ContactKinds ==
  {"NONE", "STAR", "SLIDE", "SIDE", "BOUNCE", "SPIN", "STOMP", "PICKUP", "LOOSE", "POWERUP", "COIN"}

ContactTypes ==
  /\ c_stage \in {"idle", "query", "side", "winner", "rest"}
  /\ c_sprite \in [kind : Contact!Kinds, status : {"alive", "stunned", "carried", "gone"},
                   id : Nat \ {0}]
  /\ c_owner \in {0} \cup Crew /\ c_winner \in {0} \cup Crew
  /\ c_held \in [Crew -> Nat]
  /\ c_asked \in Nat
  /\ c_contacts \in [Crew -> [kind : ContactKinds, distance : Nat]]
  /\ c_due \subseteq Crew
  /\ c_hurt \in [Crew -> Nat] /\ c_bounced \in [Crew -> Nat]
  /\ c_awards \in Nat /\ c_hits \in Nat /\ c_aborted \in BOOLEAN

(* The contact c of p comes before the contact d of q.                     *)
Over(c, p, d, q) ==
  \/ Contact!Grab(c) /\ ~Contact!Grab(d)
  \/ /\ Contact!Grab(c) <=> Contact!Grab(d)
     /\ c.distance < d.distance \/ (c.distance = d.distance /\ Contact!Precedes(p, q))

(* The winner contends, and comes before every contender found so far.     *)
BestSoFar ==
  /\ c_winner # 0 => Contact!Contends(c_contacts[c_winner])
  /\ \A p \in Crew : Contact!Contends(c_contacts[p]) =>
       c_winner \in Crew /\ (p = c_winner \/ Over(c_contacts[c_winner], c_winner, c_contacts[p], p))

(* Nobody has a contact before the guest has answered for him, and the     *)
(* guest answers what it can answer for the sprite as it still is.         *)
GuestAnswered ==
  /\ \A p \in Crew : p > c_asked => c_contacts[p] = Contact!None
  /\ c_stage \in {"idle", "query"} => c_due = {}
  /\ c_stage = "idle" => c_asked = 0
  /\ c_stage \in {"query", "side", "winner"} =>
       /\ c_sprite.status \in {"alive", "stunned"}
       /\ \A p \in Crew : c_contacts[p].kind \in {"NONE"} \cup Contact!Answers

(* Each pass has served those it owes, but for who is still due.           *)
SideServed ==
  /\ c_stage \in {"idle", "query"} => \A p \in Crew : c_hurt[p] = 0
  /\ c_stage = "side" =>
       /\ c_due \subseteq Contact!Pass("side")
       /\ \A p \in Crew : c_hurt[p] = IF p \in Contact!Pass("side") \ c_due THEN 1 ELSE 0
  /\ c_stage \in {"winner", "rest"} =>
       \A p \in Crew : c_hurt[p] = IF p \in Contact!Pass("side") THEN 1 ELSE 0

RestServed ==
  /\ c_stage # "rest" => c_awards = 0 /\ \A p \in Crew : c_bounced[p] = 0
  /\ c_stage = "rest" =>
       /\ c_awards <= 1 /\ c_due \subseteq Contact!Pass("rest")
       /\ \A p \in Crew : c_bounced[p] =
            IF c_contacts[p].kind \in Contact!Bouncing /\ p \notin c_due THEN 1 ELSE 0

(* A Chuck that was not hit in this frame has no hit counted.              *)
ChuckOnce ==
  c_sprite.kind = "chuck" => c_hits <= 1 /\ (c_damaged # c_sprite.id => c_hits = 0)

(* A carried sprite has one carrier.  While somebody is left to serve he   *)
(* is the one whose grab has won, and the first one served after a grab    *)
(* ends the program.                                                       *)
Won == c_winner # 0 /\ Contact!Grab(c_contacts[c_winner])

OneCarrier ==
  /\ c_sprite.status = "carried" <=> c_owner # 0
  /\ \A p \in Crew :
       c_held[p] = IF p = c_owner /\ c_sprite.kind # "balloon" THEN c_sprite.id ELSE 0
  /\ c_stage = "rest" /\ c_sprite.status = "carried" /\ c_due # {} => Won
  /\ c_stage = "rest" /\ Won =>
       /\ c_sprite.status = "carried" /\ c_owner = c_winner
       /\ ~c_aborted => c_due = Contact!Pass("rest")
  /\ c_aborted => c_stage = "rest" /\ Contact!Quarrel

ContactInv ==
  ContactTypes /\ BestSoFar /\ GuestAnswered /\ SideServed /\ RestServed /\ ChuckOnce /\ OneCarrier

LEMMA CrewNat == Crew \subseteq Nat \ {0}
BY ActorsAssumption DEF Crew, Contact!Player

LEMMA OverTransitive ==
  ASSUME NEW c, NEW d, NEW e, NEW p \in Nat, NEW q \in Nat, NEW r \in Nat,
         c.distance \in Nat, d.distance \in Nat, e.distance \in Nat,
         Over(c, p, d, q), Over(d, q, e, r), p # r
  PROVE  Over(c, p, e, r)
BY DEF Over, Contact!Grab, Contact!Precedes

LEMMA OverTotal ==
  ASSUME NEW c, NEW d, NEW p \in Nat, NEW q \in Nat, c.distance \in Nat, d.distance \in Nat,
         p # q, ~Over(c, p, d, q)
  PROVE  Over(d, q, c, p)
BY DEF Over, Contact!Grab, Contact!Precedes

(* What no longer runs leaves the invariant alone; so does a new frame,    *)
(* which has no contact yet.                                               *)
LEMMA ContactStutter == ASSUME ContactInv, UNCHANGED contact PROVE ContactInv'
BY DEF contact, ContactInv, ContactTypes, BestSoFar, GuestAnswered, SideServed, RestServed,
       ChuckOnce, OneCarrier, Won, Over, Contact!Grab, Contact!Answers, Contact!NativeAnswers,
       Contact!ExtendedAnswers, Contact!Pass, Contact!Quarrel

LEMMA InitContact == Contact!Init => ContactInv
<1> SUFFICES ASSUME Contact!Init PROVE ContactInv
  OBVIOUS
<1>1. /\ c_stage = "idle" /\ c_asked = 0 /\ c_winner = 0 /\ c_owner = 0 /\ c_due = {}
      /\ c_sprite \in [kind : Contact!Kinds, status : {"alive"}, id : {1}]
      /\ c_awards = 0 /\ c_hits = 0 /\ c_aborted = FALSE
      /\ c_held = [p \in Crew |-> 0] /\ c_hurt = [p \in Crew |-> 0]
      /\ c_bounced = [p \in Crew |-> 0] /\ c_contacts = [p \in Crew |-> Contact!None]
  BY DEF Contact!Init, Contact!Nobody, Crew
<1>2. Contact!None \in [kind : ContactKinds, distance : Nat] /\ ~Contact!Contends(Contact!None)
  BY DEF Contact!None, ContactKinds, Contact!Contends
<1>3. ContactTypes
  <2>1. c_sprite \in [kind : Contact!Kinds, status : {"alive", "stunned", "carried", "gone"},
                      id : Nat \ {0}]
    BY <1>1
  <2>2. c_contacts \in [Crew -> [kind : ContactKinds, distance : Nat]]
    BY <1>1, <1>2
  <2>3. /\ c_held \in [Crew -> Nat] /\ c_hurt \in [Crew -> Nat]
        /\ c_bounced \in [Crew -> Nat]
    BY <1>1
  <2> QED BY <1>1, <2>1, <2>2, <2>3 DEF ContactTypes
<1>4. BestSoFar
  <2>1. \A p \in Crew : ~Contact!Contends(c_contacts[p])
    BY <1>1, <1>2
  <2> QED BY <1>1, <2>1 DEF BestSoFar
<1>5. GuestAnswered /\ SideServed /\ RestServed /\ ChuckOnce /\ OneCarrier
  BY <1>1, CrewNat DEF GuestAnswered, SideServed, RestServed, ChuckOnce, OneCarrier
<1> QED BY <1>3, <1>4, <1>5 DEF ContactInv

LEMMA NewFrameContact ==
  ASSUME NEW P, ContactInv, Contact!NewFrame(P) PROVE ContactInv'
BY DEF Contact!NewFrame, Contact!query, Contact!served, ContactInv, ContactTypes, BestSoFar,
   GuestAnswered, SideServed, RestServed, ChuckOnce, OneCarrier, Over

LEMMA RespawnContact ==
  ASSUME NEW k \in Contact!Kinds, ContactInv, Contact!Respawn(k) PROVE ContactInv'
<1>1. /\ c_sprite' = [kind |-> k, status |-> "alive", id |-> c_sprite.id + 1] /\ c_hits' = 0
      /\ c_stage = "idle" /\ c_sprite.status = "gone"
      /\ UNCHANGED <<c_playing, c_owner, c_held, c_damaged, c_stage, c_asked, c_contacts,
                     c_winner, c_due, c_hurt, c_bounced, c_awards, c_visited, c_aborted>>
  BY DEF Contact!Respawn, Contact!query, Contact!served
<1>2. c_sprite.id + 1 \in Nat \ {0} /\ c_owner = 0
  BY <1>1 DEF ContactInv, ContactTypes, OneCarrier
<1>3. ContactTypes'
  BY <1>1, <1>2 DEF ContactInv, ContactTypes
<1>4. OneCarrier'
  BY <1>1, <1>2, CrewNat DEF ContactInv, OneCarrier
<1>5. BestSoFar' /\ GuestAnswered' /\ SideServed' /\ RestServed' /\ ChuckOnce'
  BY <1>1 DEF ContactInv, BestSoFar, GuestAnswered, SideServed, RestServed, ChuckOnce, Over
<1> QED BY <1>3, <1>4, <1>5 DEF ContactInv

LEMMA ReleaseContact == ASSUME ContactInv, Contact!Release PROVE ContactInv'
<1>1. /\ c_sprite' = [c_sprite EXCEPT !.status =
                      IF c_sprite.kind = "balloon" THEN "gone" ELSE "stunned"]
      /\ c_held' = [c_held EXCEPT ![c_owner] = 0]
      /\ c_owner' = 0 /\ c_stage = "idle" /\ c_sprite.status = "carried"
      /\ UNCHANGED <<c_playing, c_damaged, c_stage, c_asked, c_contacts, c_winner, c_due, c_hurt,
                     c_bounced, c_awards, c_hits, c_visited, c_aborted>>
  BY DEF Contact!Release, Contact!ReleasedOwner, Contact!query, Contact!served
<1>2. /\ c_sprite'.status # "carried" /\ c_sprite'.kind = c_sprite.kind /\ c_sprite'.id = c_sprite.id
      /\ c_sprite' \in [kind : Contact!Kinds, status : {"alive", "stunned", "carried", "gone"},
                        id : Nat \ {0}]
  BY <1>1 DEF ContactInv, ContactTypes
<1>3. c_owner \in Crew
  BY <1>1 DEF ContactInv, ContactTypes, OneCarrier
<1>4. ContactTypes'
  BY <1>1, <1>2, <1>3 DEF ContactInv, ContactTypes
<1>5. OneCarrier'
  BY <1>1, <1>2, <1>3, CrewNat DEF ContactInv, ContactTypes, OneCarrier
<1>6. BestSoFar' /\ GuestAnswered' /\ SideServed' /\ RestServed' /\ ChuckOnce'
  BY <1>1, <1>2 DEF ContactInv, BestSoFar, GuestAnswered, SideServed, RestServed, ChuckOnce, Over
<1> QED BY <1>4, <1>5, <1>6 DEF ContactInv

LEMMA StrikeContact ==
  ASSUME NEW after \in {"alive", "stunned", "gone"}, ContactInv, Contact!Strike(after)
  PROVE  ContactInv'
<1>1. /\ c_stage = "idle" /\ c_sprite.status = "alive"
      /\ UNCHANGED <<c_playing, c_owner, c_held, c_stage, c_asked, c_contacts, c_winner, c_due,
                     c_hurt, c_bounced, c_awards, c_visited, c_aborted>>
  BY DEF Contact!Strike, Contact!query, Contact!served
<1>2. CASE Contact!Admitted
  <2>1. /\ c_damaged' = c_sprite.id /\ c_hits' = c_hits + 1
        /\ c_sprite' = [c_sprite EXCEPT !.status = after]
    BY <1>2 DEF Contact!Strike
  <2>2. /\ c_sprite'.status = after /\ c_sprite'.kind = c_sprite.kind /\ c_sprite'.id = c_sprite.id
        /\ c_sprite' \in [kind : Contact!Kinds, status : {"alive", "stunned", "carried", "gone"},
                          id : Nat \ {0}]
    BY <2>1 DEF ContactInv, ContactTypes
  <2>3. ContactTypes'
    BY <1>1, <2>1, <2>2 DEF ContactInv, ContactTypes
  <2>4. OneCarrier'
    BY <1>1, <2>2 DEF ContactInv, OneCarrier
  <2>5. ChuckOnce'
    BY <1>2, <2>1, <2>2 DEF ContactInv, ContactTypes, ChuckOnce, Contact!Admitted
  <2>6. BestSoFar' /\ GuestAnswered' /\ SideServed' /\ RestServed'
    BY <1>1, <2>2 DEF ContactInv, BestSoFar, GuestAnswered, SideServed, RestServed, Over
  <2> QED BY <2>3, <2>4, <2>5, <2>6 DEF ContactInv
<1>3. CASE ~Contact!Admitted
  BY <1>1, <1>3, ContactStutter DEF Contact!Strike, contact
<1> QED BY <1>2, <1>3

LEMMA StartQueryContact == ASSUME ContactInv, Contact!StartQuery PROVE ContactInv'
<1>1. /\ c_stage = "idle" /\ c_stage' \in {"query", "idle"} /\ c_sprite.status \in {"alive", "stunned"}
      /\ UNCHANGED <<c_playing, c_sprite, c_owner, c_held, c_damaged, c_asked, c_contacts,
                     c_winner, c_due, c_hurt, c_bounced, c_awards, c_hits, c_aborted>>
  BY DEF Contact!StartQuery, Contact!query, Contact!served
<1>2. \A p \in Crew : c_contacts[p].kind = "NONE"
  BY <1>1, CrewNat DEF ContactInv, GuestAnswered, Contact!None
<1>3. GuestAnswered'
  BY <1>1, <1>2 DEF ContactInv, GuestAnswered
<1>4. ContactTypes' /\ BestSoFar' /\ SideServed' /\ RestServed' /\ ChuckOnce' /\ OneCarrier'
  BY <1>1 DEF ContactInv, ContactTypes, BestSoFar, SideServed, RestServed, ChuckOnce, OneCarrier,
              Over
<1> QED BY <1>3, <1>4 DEF ContactInv

(* The winner is the best of those asked: a better contact takes its place *)
(* and comes before all that came after it.                                *)
LEMMA AskContact ==
  ASSUME NEW k \in ContactKinds, NEW d \in Nat, ContactInv, Contact!Ask(k, d)
  PROVE  ContactInv'
<1> DEFINE p == c_asked + 1
           c == [kind |-> k, distance |-> IF k = "NONE" THEN 0 ELSE d]
<1>1. /\ c_stage = "query" /\ c_asked < Actors /\ c_asked' = p
      /\ k \in {"NONE"} \cup (IF p \in c_playing THEN Contact!Answers ELSE {})
      /\ c_contacts' = [c_contacts EXCEPT ![p] = c]
      /\ c_winner' = IF Contact!Contends(c) /\ Contact!Beats(p, c) THEN p ELSE c_winner
      /\ UNCHANGED <<c_playing, c_sprite, c_owner, c_held, c_damaged, c_stage, c_due, c_hurt,
                     c_bounced, c_awards, c_hits, c_visited, c_aborted>>
  BY DEF Contact!Ask, Contact!served
<1>2. p \in Crew /\ p \in Nat /\ c_asked \in Nat
  BY <1>1, ActorsAssumption DEF ContactInv, ContactTypes, Crew, Contact!Player
<1>3. c \in [kind : ContactKinds, distance : Nat] /\ c.kind = k /\ c.distance \in Nat
  OBVIOUS
<1>4. c_contacts[p] = Contact!None
  BY <1>2 DEF ContactInv, GuestAnswered
<1>5. /\ c_contacts \in [Crew -> [kind : ContactKinds, distance : Nat]]
      /\ c_contacts' \in [Crew -> [kind : ContactKinds, distance : Nat]]
      /\ c_contacts'[p] = c /\ \A q \in Crew : q # p => c_contacts'[q] = c_contacts[q]
  BY <1>1, <1>2, <1>3 DEF ContactInv, ContactTypes
<1>6. c_winner \in {0} \cup Crew /\ c_winner # p /\ c_winner \in Nat
  BY <1>2, <1>4, CrewNat DEF ContactInv, ContactTypes, BestSoFar, Contact!Contends, Contact!None
<1>7. \A q \in Crew : c_contacts[q].distance \in Nat /\ c_contacts'[q].distance \in Nat /\ q \in Nat
  BY <1>5, CrewNat
<1>8. Contact!Beats(p, c) <=> c_winner = 0 \/ Over(c, p, c_contacts[c_winner], c_winner)
  BY DEF Contact!Beats, Over, Contact!Grab
<1> HIDE DEF p, c
<1>9. BestSoFar'
  <2>1. CASE Contact!Contends(c) /\ Contact!Beats(p, c)
    <3>1. c_winner' = p /\ c_contacts'[c_winner'] = c
      BY <1>1, <1>5, <2>1
    <3>2. ASSUME NEW q \in Crew, q # p, Contact!Contends(c_contacts'[q])
          PROVE  Over(c, p, c_contacts'[q], q)
      <4>1. /\ c_contacts'[q] = c_contacts[q] /\ c_winner \in Crew
            /\ q = c_winner \/ Over(c_contacts[c_winner], c_winner, c_contacts[q], q)
        BY <1>5, <3>2 DEF ContactInv, BestSoFar
      <4>2. Over(c, p, c_contacts[c_winner], c_winner)
        BY <1>8, <2>1, <4>1, CrewNat
      <4>3. CASE q = c_winner
        BY <4>1, <4>2, <4>3
      <4>4. CASE Over(c_contacts[c_winner], c_winner, c_contacts[q], q)
        BY <1>2, <1>3, <1>6, <1>7, <3>2, <4>1, <4>2, <4>4, OverTransitive
      <4> QED BY <4>1, <4>3, <4>4
    <3>3. Contact!Contends(c_contacts'[c_winner'])
      BY <2>1, <3>1
    <3>4. \A q \in Crew : Contact!Contends(c_contacts'[q]) =>
            c_winner' \in Crew
              /\ (q = c_winner' \/ Over(c_contacts'[c_winner'], c_winner', c_contacts'[q], q))
      BY <1>2, <3>1, <3>2
    <3> QED BY <3>3, <3>4 DEF BestSoFar, Over, Contact!Contends, Contact!Grab
  <2>2. CASE ~(Contact!Contends(c) /\ Contact!Beats(p, c))
    <3>1. c_winner' = c_winner
      BY <1>1, <2>2
    <3>2. c_winner # 0 => c_contacts'[c_winner] = c_contacts[c_winner]
      BY <1>5, <1>6
    <3>3. ASSUME Contact!Contends(c)
          PROVE  c_winner \in Crew /\ Over(c_contacts[c_winner], c_winner, c, p)
      <4>1. c_winner # 0 /\ ~Over(c, p, c_contacts[c_winner], c_winner)
        BY <1>8, <2>2, <3>3
      <4> QED BY <1>2, <1>3, <1>6, <1>7, <4>1, OverTotal
    <3>4. ASSUME NEW q \in Crew, Contact!Contends(c_contacts'[q])
          PROVE  c_winner \in Crew
                   /\ (q = c_winner \/ Over(c_contacts[c_winner], c_winner, c_contacts'[q], q))
      <4>1. CASE q = p
        BY <1>5, <3>3, <3>4, <4>1
      <4>2. CASE q # p
        BY <1>5, <3>4, <4>2 DEF ContactInv, BestSoFar
      <4> QED BY <4>1, <4>2
    <3>5. c_winner # 0 => Contact!Contends(c_contacts'[c_winner])
      BY <3>2 DEF ContactInv, BestSoFar
    <3>6. \A q \in Crew : Contact!Contends(c_contacts'[q]) =>
            c_winner' \in Crew
              /\ (q = c_winner' \/ Over(c_contacts'[c_winner'], c_winner', c_contacts'[q], q))
      BY <3>1, <3>2, <3>4, CrewNat
    <3> QED BY <3>1, <3>5, <3>6 DEF BestSoFar, Over, Contact!Contends, Contact!Grab
  <2> QED BY <2>1, <2>2
<1>10. GuestAnswered'
  <2>1. \A q \in Crew : q > c_asked' => c_contacts'[q] = Contact!None
    BY <1>1, <1>2, <1>5, CrewNat DEF ContactInv, GuestAnswered, p
  <2>2. Contact!Answers' = Contact!Answers
    BY <1>1 DEF Contact!Answers, Contact!NativeAnswers, Contact!ExtendedAnswers
  <2>3. \A q \in Crew : c_contacts'[q].kind \in {"NONE"} \cup Contact!Answers'
    BY <1>1, <1>3, <1>5, <2>2 DEF ContactInv, GuestAnswered
  <2> QED BY <1>1, <2>1, <2>3 DEF ContactInv, GuestAnswered
<1>11. ContactTypes'
  BY <1>1, <1>2, <1>5, <1>6 DEF ContactInv, ContactTypes
<1>12. SideServed' /\ RestServed' /\ ChuckOnce' /\ OneCarrier'
  BY <1>1 DEF ContactInv, SideServed, RestServed, ChuckOnce, OneCarrier
<1> QED BY <1>9, <1>10, <1>11, <1>12 DEF ContactInv

LEMMA StartCommitContact == ASSUME ContactInv, Contact!StartCommit PROVE ContactInv'
<1>1. /\ c_stage = "query" /\ c_stage' = "side" /\ c_due' = Contact!Pass("side")
      /\ UNCHANGED <<c_playing, c_sprite, c_owner, c_held, c_damaged, c_asked, c_contacts,
                     c_winner, c_hurt, c_bounced, c_awards, c_hits, c_visited, c_aborted>>
  BY DEF Contact!StartCommit, Contact!query, Contact!served
<1>2. Contact!Pass("side")' = Contact!Pass("side") /\ Contact!Pass("side") \subseteq Crew
  BY <1>1 DEF Contact!Pass, Crew
<1>3. SideServed'
  BY <1>1, <1>2 DEF ContactInv, SideServed
<1>4. Contact!Answers' = Contact!Answers
  BY <1>1 DEF Contact!Answers, Contact!NativeAnswers, Contact!ExtendedAnswers
<1>5. GuestAnswered'
  BY <1>1, <1>4 DEF ContactInv, GuestAnswered
<1>6. ContactTypes' /\ BestSoFar' /\ RestServed' /\ ChuckOnce' /\ OneCarrier'
  BY <1>1, <1>2 DEF ContactInv, ContactTypes, BestSoFar, RestServed, ChuckOnce, OneCarrier, Over,
              GuestAnswered
<1> QED BY <1>3, <1>5, <1>6 DEF ContactInv

LEMMA SidedContact == ASSUME ContactInv, Contact!Sided PROVE ContactInv'
<1>1. /\ c_stage = "side" /\ c_due = {} /\ c_stage' = "winner"
      /\ UNCHANGED <<c_playing, c_sprite, c_owner, c_held, c_damaged, c_asked, c_contacts, c_due,
                     c_winner, c_hurt, c_bounced, c_awards, c_hits, c_visited, c_aborted>>
  BY DEF Contact!Sided, Contact!query, Contact!served
<1>2. Contact!Pass("side")' = Contact!Pass("side")
  BY <1>1 DEF Contact!Pass
<1>3. SideServed'
  BY <1>1, <1>2 DEF ContactInv, SideServed
<1>4. Contact!Answers' = Contact!Answers
  BY <1>1 DEF Contact!Answers, Contact!NativeAnswers, Contact!ExtendedAnswers
<1>5. GuestAnswered'
  BY <1>1, <1>4 DEF ContactInv, GuestAnswered
<1>6. ContactTypes' /\ BestSoFar' /\ RestServed' /\ ChuckOnce' /\ OneCarrier'
  BY <1>1 DEF ContactInv, ContactTypes, BestSoFar, RestServed, ChuckOnce, OneCarrier, Over
<1> QED BY <1>3, <1>5, <1>6 DEF ContactInv

(* Who bounces contends, unless the bounce is a safe one.                  *)
LEMMA NoWinnerContact == ASSUME ContactInv, Contact!NoWinner PROVE ContactInv'
<1>1. /\ c_stage = "winner" /\ c_winner = 0 /\ c_stage' = "rest" /\ c_due' = Contact!Pass("rest")
      /\ UNCHANGED <<c_playing, c_sprite, c_owner, c_held, c_damaged, c_asked, c_contacts,
                     c_winner, c_hurt, c_bounced, c_awards, c_hits, c_visited, c_aborted>>
  BY DEF Contact!NoWinner, Contact!query, Contact!served
<1>2. /\ Contact!Pass("side")' = Contact!Pass("side") /\ Contact!Pass("rest")' = Contact!Pass("rest")
      /\ Contact!Pass("rest") = {p \in Crew : c_contacts[p].kind \in Contact!Bouncing}
  BY <1>1, CrewNat DEF Contact!Pass, Crew
<1>3. SideServed'
  BY <1>1, <1>2 DEF ContactInv, SideServed
<1>4. RestServed'
  BY <1>1, <1>2 DEF ContactInv, RestServed
<1>5. OneCarrier'
  BY <1>1 DEF ContactInv, OneCarrier, GuestAnswered, Won
<1>6. ContactTypes' /\ BestSoFar' /\ GuestAnswered' /\ ChuckOnce'
  BY <1>1, <1>2 DEF ContactInv, ContactTypes, BestSoFar, GuestAnswered, ChuckOnce, Over
<1> QED BY <1>3, <1>4, <1>5, <1>6 DEF ContactInv

(* A balloon is collected, and nobody bounces off it.                      *)
LEMMA NoBounceOffBalloons ==
  ASSUME ContactInv, c_stage = "winner", c_sprite.kind = "balloon"
  PROVE  Contact!Pass("rest") = {}
<1>1. Contact!Answers = {"POWERUP"}
  BY DEF Contact!Answers, Contact!NativeAnswers
<1> QED BY <1>1 DEF ContactInv, GuestAnswered, Contact!Pass, Contact!Bouncing, Crew

LEMMA WinContact ==
  ASSUME NEW after \in {"alive", "stunned", "carried", "gone"}, ContactInv, Contact!Win(after)
  PROVE  ContactInv'
<1> DEFINE k == c_contacts[c_winner].kind
           stomps == k \in {"STOMP", "SPIN"}
           counts == k \in {"STAR", "SLIDE", "SPIN", "STOMP"} /\ c_sprite.kind \in {"plain", "chuck"}
<1>1. /\ c_stage = "winner" /\ c_winner # 0 /\ c_stage' = "rest" /\ c_due' = Contact!Pass("rest")
      /\ after \in IF Contact!Duplicate THEN {c_sprite.status} ELSE Contact!Outcomes(k)
      /\ c_sprite' = [c_sprite EXCEPT !.status = after]
      /\ c_damaged' = IF counts THEN c_sprite.id ELSE c_damaged
      /\ c_bounced' = [c_bounced EXCEPT ![c_winner] = IF stomps THEN c_bounced[c_winner] + 1
                                                      ELSE c_bounced[c_winner]]
      /\ c_awards' = IF Contact!Duplicate THEN c_awards ELSE c_awards + 1
      /\ c_hits' = IF Contact!Duplicate THEN c_hits ELSE c_hits + 1
      /\ UNCHANGED <<c_playing, c_asked, c_contacts, c_winner, c_hurt, c_visited>>
  BY DEF Contact!Win, Contact!query
<1>2. Contact!Claim(c_winner, after)
  BY DEF Contact!Win
<1>3. c_winner \in Crew /\ Contact!Contends(c_contacts[c_winner]) /\ c_owner = 0
      /\ c_sprite.status \in {"alive", "stunned"} /\ k \in {"NONE"} \cup Contact!Answers
      /\ \A p \in Crew : c_held[p] = 0
  BY <1>1, CrewNat DEF ContactInv, ContactTypes, BestSoFar, GuestAnswered, OneCarrier
<1>4. /\ after = "carried" => k = "PICKUP" \/ c_sprite.kind = "balloon"
      /\ k = "PICKUP" => after = "carried"
  <2>1. k = "PICKUP" => ~Contact!Duplicate
    BY <1>3 DEF Contact!Duplicate, Contact!Answers, Contact!ChuckAnswers
  <2> QED BY <1>1, <1>3, <2>1 DEF Contact!Outcomes
<1>5. /\ c_sprite'.status = after /\ c_sprite'.kind = c_sprite.kind /\ c_sprite'.id = c_sprite.id
      /\ c_sprite' \in [kind : Contact!Kinds, status : {"alive", "stunned", "carried", "gone"},
                        id : Nat \ {0}]
      /\ c_sprite.id \in Nat \ {0}
  BY <1>1 DEF ContactInv, ContactTypes
<1>6. /\ c_held \in [Crew -> Nat] /\ c_bounced \in [Crew -> Nat] /\ \A p \in Crew : c_bounced[p] = 0
      /\ c_awards = 0
  BY <1>1 DEF ContactInv, ContactTypes, RestServed
<1>7. IF after = "carried"
      THEN /\ c_owner' = c_winner /\ c_aborted' = c_aborted
           /\ c_held' = IF c_sprite.kind = "balloon" THEN c_held
                        ELSE [c_held EXCEPT ![c_winner] = c_sprite.id]
      ELSE UNCHANGED <<c_owner, c_held, c_aborted>>
  BY <1>2, <1>3, CrewNat DEF Contact!Claim
<1>8. /\ Contact!Pass("side")' = Contact!Pass("side") /\ Contact!Pass("rest")' = Contact!Pass("rest")
      /\ Contact!Pass("rest") = {p \in Crew \ {c_winner} : c_contacts[p].kind \in Contact!Bouncing}
  BY <1>1 DEF Contact!Pass, Crew
<1>9. OneCarrier'
  <2>1. c_sprite.kind = "balloon" => Contact!Pass("rest") = {}
    BY <1>1, NoBounceOffBalloons
  <2>2. Won' <=> k = "PICKUP"
    BY <1>1 DEF Won, Contact!Grab
  <2>3. ~c_aborted'
    BY <1>1, <1>7 DEF ContactInv, OneCarrier
  <2> HIDE DEF k, stomps, counts
  <2>4. CASE after = "carried"
    <3>1. c_owner' = c_winner
          /\ \A p \in Crew : c_held'[p] =
               IF p = c_winner /\ c_sprite.kind # "balloon" THEN c_sprite.id ELSE 0
      BY <1>3, <1>6, <1>7, <2>4
    <3> QED BY <1>1, <1>3, <1>4, <1>5, <1>8, <2>1, <2>2, <2>3, <2>4, <3>1 DEF OneCarrier
  <2>5. CASE after # "carried"
    <3>1. c_owner' = 0 /\ c_held' = c_held
      BY <1>3, <1>7, <2>5
    <3> QED BY <1>1, <1>3, <1>4, <1>5, <2>2, <2>3, <2>5, <3>1, CrewNat DEF OneCarrier
  <2> QED BY <2>4, <2>5
<1>10. SideServed'
  BY <1>1, <1>8 DEF ContactInv, SideServed
<1>11. RestServed'
  <2>1. stomps <=> k \in Contact!Bouncing
    BY <1>3 DEF Contact!Contends, Contact!Bouncing
  <2> HIDE DEF stomps, k, counts
  <2>2. /\ c_bounced'[c_winner] = IF stomps THEN 1 ELSE 0
        /\ \A p \in Crew : p # c_winner => c_bounced'[p] = 0
    BY <1>1, <1>3, <1>6
  <2>3. \A p \in Crew : c_bounced'[p] =
          IF c_contacts[p].kind \in Contact!Bouncing /\ p \notin Contact!Pass("rest") THEN 1 ELSE 0
    BY <1>3, <1>8, <2>1, <2>2 DEF k
  <2>4. c_awards' <= 1
    BY <1>1, <1>6
  <2> QED BY <1>1, <1>8, <2>3, <2>4 DEF RestServed
<1>12. ChuckOnce'
  <2> SUFFICES ASSUME c_sprite.kind = "chuck"
               PROVE  c_hits' <= 1 /\ (c_damaged' # c_sprite.id => c_hits' = 0)
    BY <1>5 DEF ChuckOnce
  <2>1. k \in {"STAR", "STOMP"}
    BY <1>3 DEF Contact!Answers, Contact!ChuckAnswers, Contact!Contends
  <2>2. c_damaged' = c_sprite.id
    BY <1>1, <2>1
  <2>3. c_hits <= 1 /\ (c_damaged # c_sprite.id => c_hits = 0)
    BY DEF ContactInv, ChuckOnce
  <2>4. c_hits' <= 1
    BY <1>1, <2>3 DEF Contact!Duplicate, Contact!Admitted
  <2> QED BY <2>2, <2>4
<1>13. GuestAnswered'
  BY <1>1 DEF ContactInv, GuestAnswered
<1>14. BestSoFar'
  BY <1>1 DEF ContactInv, BestSoFar, Over
<1>15. ContactTypes'
  <2> HIDE DEF k, stomps, counts
  <2>1. c_bounced' \in [Crew -> Nat]
    BY <1>1, <1>3, <1>6
  <2>2. c_held' \in [Crew -> Nat] /\ c_owner' \in {0} \cup Crew
    BY <1>3, <1>5, <1>6, <1>7
  <2>3. c_awards' \in Nat /\ c_hits' \in Nat /\ c_due' \subseteq Crew /\ c_aborted' \in BOOLEAN
    BY <1>1, <1>6, <1>7, <1>8 DEF ContactInv, ContactTypes
  <2> QED BY <1>1, <1>5, <2>1, <2>2, <2>3 DEF ContactInv, ContactTypes
<1> QED BY <1>9, <1>10, <1>11, <1>12, <1>13, <1>14, <1>15 DEF ContactInv

LEMMA CommitContact ==
  ASSUME NEW p \in Crew, ContactInv, Contact!Commit(p) PROVE ContactInv'
<1>1. /\ c_stage \in {"side", "rest"} /\ p \in c_due /\ c_due' = c_due \ {p}
      /\ Contact!Claim(p, c_sprite.status)
      /\ UNCHANGED <<c_playing, c_sprite, c_damaged, c_stage, c_asked, c_contacts, c_winner,
                     c_awards, c_hits, c_visited>>
  BY DEF Contact!Commit, Contact!query
<1>2. /\ UNCHANGED <<c_owner, c_held>>
      /\ c_aborted' = (c_aborted \/ c_sprite.status = "carried")
      /\ c_sprite.status = "carried" => c_stage = "rest" /\ Won /\ p # c_winner
  <2>1. c_aborted \in BOOLEAN
    BY DEF ContactInv, ContactTypes
  <2>2. CASE c_sprite.status # "carried"
    BY <1>1, <2>1, <2>2 DEF Contact!Claim
  <2>3. CASE c_sprite.status = "carried"
    <3>1. c_stage = "rest" /\ Won /\ c_owner = c_winner
      BY <1>1, <2>3 DEF ContactInv, GuestAnswered, OneCarrier
    <3>2. p # c_winner
      BY <1>1, <3>1 DEF ContactInv, RestServed, Contact!Pass
    <3>3. c_owner \notin {0, p}
      BY <3>1, <3>2 DEF Won
    <3> QED BY <1>1, <2>1, <2>3, <3>1, <3>2, <3>3 DEF Contact!Claim
  <2> QED BY <2>2, <2>3
<1>3. /\ Contact!Pass("side")' = Contact!Pass("side") /\ Contact!Pass("rest")' = Contact!Pass("rest")
      /\ Contact!Pass("side") = {q \in Crew : c_contacts[q].kind = "SIDE"}
      /\ \A q \in Contact!Pass("rest") : c_contacts[q].kind \in Contact!Bouncing
  BY <1>1 DEF Contact!Pass, Crew
<1>4. c_hurt \in [Crew -> Nat] /\ c_bounced \in [Crew -> Nat]
  BY DEF ContactInv, ContactTypes
<1>5. Contact!Answers' = Contact!Answers
  BY <1>1, <1>2 DEF Contact!Answers, Contact!NativeAnswers, Contact!ExtendedAnswers
<1>6. /\ SideServed' /\ RestServed' /\ c_hurt' \in [Crew -> Nat] /\ c_bounced' \in [Crew -> Nat]
  <2>1. CASE c_stage = "side"
    <3>1. c_contacts[p].kind = "SIDE" /\ c_due \subseteq Contact!Pass("side")
      BY <1>1, <1>3, <2>1 DEF ContactInv, SideServed
    <3>2. c_hurt' = [c_hurt EXCEPT ![p] = c_hurt[p] + 1] /\ c_bounced' = c_bounced
      BY <3>1 DEF Contact!Commit
    <3>3. c_hurt[p] = 0
      BY <1>1, <2>1 DEF ContactInv, SideServed
    <3>4. c_hurt'[p] = 1 /\ \A q \in Crew : q # p => c_hurt'[q] = c_hurt[q]
      BY <1>4, <3>2, <3>3
    <3>5. \A q \in Crew : c_hurt'[q] = IF q \in Contact!Pass("side") \ c_due' THEN 1 ELSE 0
      BY <1>1, <1>3, <2>1, <3>1, <3>4 DEF ContactInv, SideServed
    <3>6. SideServed'
      BY <1>1, <1>3, <2>1, <3>1, <3>5 DEF SideServed
    <3>7. RestServed'
      BY <1>1, <2>1, <3>2 DEF ContactInv, RestServed
    <3>8. c_hurt' \in [Crew -> Nat]
      BY <1>4, <3>2
    <3> QED BY <1>4, <3>2, <3>6, <3>7, <3>8
  <2>2. CASE c_stage = "rest"
    <3>1. c_contacts[p].kind \in Contact!Bouncing /\ c_due \subseteq Contact!Pass("rest")
      BY <1>1, <1>3, <2>2 DEF ContactInv, RestServed
    <3>2. c_bounced' = [c_bounced EXCEPT ![p] = c_bounced[p] + 1] /\ c_hurt' = c_hurt
      BY <3>1 DEF Contact!Commit, Contact!Bouncing
    <3>3. c_bounced[p] = 0
      BY <1>1, <2>2 DEF ContactInv, RestServed
    <3>4. c_bounced'[p] = 1 /\ \A q \in Crew : q # p => c_bounced'[q] = c_bounced[q]
      BY <1>4, <3>2, <3>3
    <3>5. \A q \in Crew : c_bounced'[q] =
            IF c_contacts[q].kind \in Contact!Bouncing /\ q \notin c_due' THEN 1 ELSE 0
      BY <1>1, <2>2, <3>1, <3>4 DEF ContactInv, RestServed
    <3>6. RestServed'
      BY <1>1, <1>3, <2>2, <3>1, <3>5 DEF ContactInv, RestServed
    <3>7. SideServed'
      BY <1>1, <1>3, <2>2, <3>2 DEF ContactInv, SideServed
    <3>8. c_bounced' \in [Crew -> Nat]
      BY <1>4, <3>2
    <3> QED BY <1>4, <3>2, <3>6, <3>7, <3>8
  <2> QED BY <1>1, <2>1, <2>2
<1>7. ContactTypes'
  <2>1. c_aborted' \in BOOLEAN
    BY <1>2
  <2> QED BY <1>1, <1>2, <1>6, <2>1 DEF ContactInv, ContactTypes
<1>8. BestSoFar' /\ ChuckOnce'
  BY <1>1 DEF ContactInv, BestSoFar, ChuckOnce, Over
<1>9. GuestAnswered'
  BY <1>1, <1>5 DEF ContactInv, GuestAnswered
<1>10. Won' = Won /\ Contact!Quarrel' = Contact!Quarrel
  BY <1>1 DEF Won, Contact!Quarrel
<1>11. c_sprite.status = "carried" => Contact!Quarrel
  <2> SUFFICES ASSUME c_sprite.status = "carried" PROVE Contact!Quarrel
    BY DEF Contact!Quarrel
  <2>1. c_stage = "rest" /\ Won /\ p \in Contact!Player \ {c_winner}
    BY <1>2 DEF Crew
  <2>2. p \in Contact!Pass("rest")
    BY <1>1, <2>1 DEF ContactInv, RestServed
  <2>3. c_contacts[p].kind \in Contact!Bouncing
    BY <1>3, <2>2
  <2> QED BY <2>1, <2>3 DEF Won, Contact!Quarrel
<1>12. OneCarrier'
  <2>1. CASE c_sprite.status = "carried"
    <3>1. c_aborted' /\ c_stage' = "rest" /\ Contact!Quarrel' /\ Won'
      BY <1>1, <1>2, <1>10, <1>11, <2>1
    <3>2. c_owner = c_winner
      BY <1>2, <2>1 DEF ContactInv, OneCarrier
    <3> QED BY <1>1, <1>2, <2>1, <3>1, <3>2 DEF ContactInv, OneCarrier
  <2>2. CASE c_sprite.status # "carried"
    <3>1. c_aborted' = c_aborted
      BY <1>2, <2>2 DEF ContactInv, ContactTypes
    <3>2. c_stage = "rest" => ~Won
      BY <2>2 DEF ContactInv, OneCarrier
    <3> QED BY <1>1, <1>2, <1>10, <2>2, <3>1, <3>2 DEF ContactInv, OneCarrier
  <2> QED BY <2>1, <2>2
<1> QED BY <1>6, <1>7, <1>8, <1>9, <1>12 DEF ContactInv

LEMMA FinishContact ==
  ASSUME ContactInv, ~c_aborted, Contact!Finish PROVE ContactInv'
<1>1. /\ c_stage = "rest" /\ c_due = {} /\ c_stage' = "idle" /\ c_asked' = 0
      /\ c_contacts' = [q \in Crew |-> Contact!None] /\ c_winner' = 0
      /\ c_hurt' = [q \in Crew |-> 0] /\ c_bounced' = [q \in Crew |-> 0] /\ c_awards' = 0
      /\ UNCHANGED <<c_playing, c_sprite, c_owner, c_held, c_damaged, c_due, c_hits, c_visited,
                     c_aborted>>
  BY DEF Contact!Finish, Contact!Nobody, Crew
<1>2. Contact!None \in [kind : ContactKinds, distance : Nat] /\ ~Contact!Contends(Contact!None)
  BY DEF Contact!None, ContactKinds, Contact!Contends
<1>3. \A q \in Crew : c_contacts'[q] = Contact!None /\ c_hurt'[q] = 0 /\ c_bounced'[q] = 0
  BY <1>1
<1>4. ContactTypes'
  BY <1>1, <1>2 DEF ContactInv, ContactTypes
<1>5. BestSoFar'
  <2>1. \A q \in Crew : ~Contact!Contends(c_contacts'[q])
    BY <1>2, <1>3
  <2> QED BY <1>1, <2>1 DEF BestSoFar, Contact!Contends
<1>6. GuestAnswered' /\ SideServed' /\ RestServed' /\ ChuckOnce' /\ OneCarrier'
  BY <1>1, <1>3 DEF ContactInv, GuestAnswered, SideServed, RestServed, ChuckOnce, OneCarrier
<1> QED BY <1>4, <1>5, <1>6 DEF ContactInv

LEMMA ContactStep == ContactInv /\ Contact!Next => ContactInv'
<1> SUFFICES ASSUME ContactInv, Contact!Next PROVE ContactInv'
  OBVIOUS
<1>0. ~c_aborted
  BY DEF Contact!Next
<1>1. \/ \E P \in SUBSET Contact!Player : Contact!NewFrame(P)
      \/ \E k \in Contact!Kinds : Contact!Respawn(k)
      \/ \E after \in {"alive", "stunned", "gone"} : Contact!Strike(after)
      \/ \E k \in ContactKinds, d \in 0 .. MaxDistance : Contact!Ask(k, d)
      \/ \E after \in {"alive", "stunned", "carried", "gone"} : Contact!Win(after)
      \/ \E p \in Crew : Contact!Commit(p)
      \/ Contact!Release \/ Contact!StartQuery \/ Contact!StartCommit \/ Contact!Sided
      \/ Contact!NoWinner \/ Contact!Finish
  BY DEF Contact!Next, ContactKinds, Crew
<1>2. 0 .. MaxDistance \subseteq Nat
  OBVIOUS
<1>3. ASSUME NEW k \in ContactKinds, NEW d \in 0 .. MaxDistance, Contact!Ask(k, d)
      PROVE  ContactInv'
  BY <1>2, <1>3, AskContact
<1> QED BY <1>0, <1>1, <1>3, NewFrameContact, RespawnContact, StrikeContact, WinContact, CommitContact,
           ReleaseContact, StartQueryContact, StartCommitContact, SidedContact, NoWinnerContact,
           FinishContact

(* The winner of a frame's contacts is the best of those who contend.      *)
LEMMA BestIsWinner == ContactInv => Contact!WinnerIsBest
<1> SUFFICES ASSUME ContactInv PROVE Contact!WinnerIsBest
  OBVIOUS
<1> DEFINE field  == {p \in Crew : Contact!Contends(c_contacts[p])}
           grabs  == {p \in field : Contact!Grab(c_contacts[p])}
           choice == IF grabs = {} THEN field ELSE grabs
<1>1. CASE field = {}
  <2>1. c_winner = 0
    BY <1>1 DEF ContactInv, ContactTypes, BestSoFar
  <2> QED BY <1>1, <2>1 DEF Contact!WinnerIsBest, Crew
<1>2. CASE field # {}
  <2>1. c_winner \in field
    BY <1>2, CrewNat DEF ContactInv, BestSoFar
  <2>2. \A p \in field : p = c_winner \/ Over(c_contacts[c_winner], c_winner, c_contacts[p], p)
    BY DEF ContactInv, BestSoFar
  <2>3. c_winner \in choice
    <3>1. ASSUME NEW p \in grabs PROVE Contact!Grab(c_contacts[c_winner])
      BY <2>2 DEF Over
    <3> QED BY <2>1, <3>1
  <2>4. \A p \in choice \ {c_winner} :
          \/ c_contacts[c_winner].distance < c_contacts[p].distance
          \/ /\ c_contacts[c_winner].distance = c_contacts[p].distance
             /\ Contact!Precedes(c_winner, p)
    BY <2>2, <2>3 DEF Over
  <2> QED BY <1>2, <2>3, <2>4 DEF Contact!WinnerIsBest, Crew
<1> QED BY <1>1, <1>2

LEMMA InvIsArbitrated == ContactInv => Contact!ContactsArbitrated
<1> SUFFICES ASSUME ContactInv PROVE Contact!ContactsArbitrated
  OBVIOUS
<1>1. Contact!OneResponse
  BY DEF Contact!OneResponse, ContactInv, ContactTypes, RestServed, ChuckOnce
<1>2. Contact!EveryoneServed
  BY DEF Contact!EveryoneServed, ContactInv, SideServed, RestServed, Contact!Pass, Crew
<1>3. Contact!CarriedIsOwned
  BY DEF Contact!CarriedIsOwned, ContactInv, OneCarrier, Crew
<1>4. Contact!EndsOnlyOnAQuarrel
  <2>1. c_aborted => c_stage = "rest" /\ Contact!Quarrel
    BY DEF ContactInv, OneCarrier
  <2>2. ASSUME c_stage = "rest", c_due = {}, Contact!Quarrel PROVE c_aborted
    <3>1. Won
      BY <2>2 DEF Contact!Quarrel, Won
    <3>2. Contact!Pass("rest") # {}
      BY <2>2 DEF Contact!Quarrel, Contact!Pass
    <3> QED BY <2>2, <3>1, <3>2 DEF ContactInv, OneCarrier
  <2>3. c_aborted \in BOOLEAN /\ Contact!Quarrel \in BOOLEAN
    BY DEF ContactInv, ContactTypes, Contact!Quarrel
  <2> QED BY <2>1, <2>2, <2>3 DEF Contact!EndsOnlyOnAQuarrel
<1> QED BY BestIsWinner, <1>1, <1>2, <1>3, <1>4 DEF Contact!ContactsArbitrated

(* One winner, everyone served once, one carrier (collect_native_contacts, *)
(* commit_contact), and claim_carried ends the program when, and only when, *)
(* one actor grabs what another one bounces off: for any number of actors, *)
(* any primary, any distances and whatever the guest answers.              *)
THEOREM ActorsAreArbitrated == BenchSpec => []ContactsArbitrated
<1> DEFINE Inv == part = "contacts" => ContactInv
<1>1. BenchInit => Inv
  BY InitContact DEF BenchInit
<1>2. Inv /\ [BenchNext]_<<part, vars, loops, contact>> => Inv'
  <2> SUFFICES ASSUME Inv, part' = "contacts", [BenchNext]_<<part, vars, loops, contact>>
               PROVE  ContactInv'
    OBVIOUS
  <2>1. part = "contacts" /\ ContactInv
    BY DEF BenchNext
  <2>2. Contact!Next \/ UNCHANGED contact
    BY <2>1 DEF BenchNext
  <2> QED BY <2>1, <2>2, ContactStep, ContactStutter
<1>3. Inv => ContactsArbitrated
  BY InvIsArbitrated DEF ContactsArbitrated
<1> QED BY <1>1, <1>2, <1>3, PTL DEF BenchSpec

-----------------------------------------------------------------------------
(* The inductive invariant.                                                *)

(* A failed attempt, or a new room, waits for the loader.                  *)
Reloading == mode = "fade" \/ ~entered

(* The part of a frame before its events are resolved.                     *)
Undecided == {"stage", "routines", "end", "resolve"}

(* Which outcomes each screen has.  A frame that has left for the map may  *)
(* still clear the course, by a scripted end, but no longer fail it.       *)
PlaceInv ==
  /\ phase # "idle" => entered
  /\ phase \in Undecided \cup {"apply", "separate", "recover"} => mode \in {"level", "map"}
  /\ mode = "gameover" => outcome = "GAME_OVER"
  /\ mode = "fade" => outcome # "GAME_OVER"
  /\ mode = "map" => ~TeamDeath
  /\ mode = "map" /\ outcome = "CONTINUE" /\ phase \in {"end", "resolve"} =>
       ~advancing /\ \A e \in events : e.kind = "EXIT"

(* What the frame may still report, and what it has decided.               *)
FrameInv ==
  /\ ~aborted /\ ~blocked /\ \A p \in Player : players[p].connected
  /\ phase \in Undecided => ~resolved /\ (advancing => outcome = "CONTINUE")
  /\ phase = "stage" => ~advancing /\ events = {} /\ mode = "level"
  /\ phase = "routines" => ~paused /\ mode = "level"
  /\ phase = "end" /\ paused => ~advancing /\ events = {}
  /\ phase # "idle" /\ JustFailed => TeamDeath

(* Where the guest's counter, the session's lives and what the team is     *)
(* entitled to agree: the guest learns of a lost life only at the end of   *)
(* the frame, the session of a one-up only when the counter is read back.  *)
LivesInv ==
  /\ ledger \in 0..MaxLives /\ lives \in 0..MaxLives
  /\ ~TeamDeath \/ ~entered => ledger > 0 /\ counter = ledger - 1
  /\ TeamDeath /\ phase \in Undecided \cup {"idle"} => counter = (ledger + 255) % 256
  /\ phase \in {"resolve", "apply", "separate", "recover", "close"} => lives = ledger
  /\ TeamDeath /\ entered => lives = ledger

(* A clear that is not yet applied is about to be.                         *)
ClearInv ==
  outcome = "CLEAR" =>
    Active = Player \/ (phase = "apply" /\ \E a \in actions : a.kind = "EXIT")

(* A checkpoint of the running course stands in the guest's midway flag or *)
(* in the overworld's; a retry that waits for the loader has it there.     *)
TapeInv ==
  /\ checkpoint \in {0, Tape}
  /\ \A e \in events : e.kind = "CHECKPOINT" => e.value = Tape /\ (phase # "idle" => midway)
  /\ checkpoint = Tape /\ (entered \/ sublevel) => midway \/ flag
  /\ outcome = "RETRY" /\ Reloading => ~sublevel /\ (checkpoint = Tape => flag)

TeamInv ==
  /\ TeamTypeOK /\ SomeoneActive /\ OneLifePerAttempt
  /\ PlaceInv /\ FrameInv /\ LivesInv /\ ClearInv /\ TapeInv

-----------------------------------------------------------------------------
(* What every step takes from the session.                                 *)

(* A step of the session keeps its part of the invariant.                  *)
LEMMA SessionPart ==
  ASSUME TypeOK, SomeoneActive, OneLifePerAttempt, [Next]_vars
  PROVE  TypeOK' /\ SomeoneActive' /\ OneLifePerAttempt'
  BY TypeStep, ActiveStep, LivesStep

(* The lives of a team fit the guest's byte.                               *)
LEMMA Amounts ==
  /\ DeathTicks \in Nat /\ DeathTicks > 0
  /\ InitialLives \in Nat /\ InitialLives > 0
  /\ MaxLives \in Nat /\ InitialLives <= MaxLives /\ MaxLives <= 100
  /\ Tape \in Nat /\ Tape # 0
BY TeamAssumption

LEMMA Modulo ==
  /\ \A n \in 1..100 : (n + 255) % 256 = n - 1
  /\ (0 + 255) % 256 = 255
OBVIOUS

(* The loader's images, the same for every actor.                          *)
LEMMA Images ==
  ASSUME NEW pose \in {"free", "scene"}
  PROVE  /\ [p \in Player |-> pose] \in [Player -> Poised]
         /\ [p \in Player |-> 0] \in [Player -> 0..DeathTicks]
BY Amounts DEF Poised

(* A step of the guest or of the frame that the session does not see.      *)
LEMMA Unseen ==
  ASSUME TeamInv, UNCHANGED vars
  PROVE  /\ TypeOK' /\ SomeoneActive' /\ OneLifePerAttempt'
         /\ UNCHANGED <<players, lives, outcome, checkpoint, advancing, blocked, resolved, events,
                        actions, charged>>
         /\ Active' = Active /\ TeamDeath' = TeamDeath /\ JustFailed' = JustFailed
<1>1. UNCHANGED <<players, lives, outcome, checkpoint, advancing, blocked, resolved, events,
                  actions, charged>>
  BY DEF vars, frame
<1>2. TypeOK' /\ SomeoneActive' /\ OneLifePerAttempt'
  BY SessionPart DEF TeamInv, TeamTypeOK
<1> QED BY <1>1, <1>2 DEF Active, TeamDeath, JustFailed

LEMMA TeamStarts == TeamInit => TeamInv
<1> SUFFICES ASSUME TeamInit PROVE TeamInv
  OBVIOUS
<1> USE DEF TeamInit, Init
<1>1. TypeOK /\ SomeoneActive /\ OneLifePerAttempt
  <2>1. Init
    OBVIOUS
  <2> QED BY <2>1, InitSession DEF SessionInv
<1>2. TeamTypeOK
  <2>1. counter \in 0..255 /\ ledger \in Nat
    BY Amounts
  <2>2. animation \in [Player -> Poised] /\ timer \in [Player -> 0..DeathTicks]
    BY Images
  <2> QED BY <1>1, <2>1, <2>2 DEF TeamTypeOK
<1>3. PlaceInv /\ FrameInv /\ ClearInv /\ TapeInv
  BY DEF PlaceInv, FrameInv, ClearInv, TapeInv, TeamDeath, JustFailed, Undecided, Reloading
<1>4. LivesInv
  BY TeamAssumption DEF LivesInv, TeamDeath, Undecided
<1> QED BY <1>1, <1>2, <1>3, <1>4 DEF TeamInv

-----------------------------------------------------------------------------
(* The steps the session does not see.                                     *)

LEMMA PauseStep ==
  ASSUME TeamInv, NEW start \in BOOLEAN, Paused(start) PROVE TeamInv'
<1> USE DEF TeamInv
<1>1. UNCHANGED vars
  BY DEF Paused
<1>2. TeamTypeOK'
  BY <1>1, Unseen DEF Paused, TeamTypeOK, place, images, guest
<1> QED BY <1>1, <1>2, Unseen DEF Paused, PlaceInv, FrameInv, LivesInv, ClearInv, TapeInv,
           Undecided, Reloading, place, images, guest

LEMMA RoutinesDoneStep ==
  ASSUME TeamInv, RoutinesDone PROVE TeamInv'
<1> USE DEF TeamInv
<1>1. UNCHANGED vars
  BY DEF RoutinesDone
<1>2. TeamTypeOK'
  BY <1>1, Unseen DEF RoutinesDone, TeamTypeOK, place, images, guest
<1> QED BY <1>1, <1>2, Unseen DEF RoutinesDone, PlaceInv, FrameInv, LivesInv, ClearInv, TapeInv,
           Undecided, Reloading, place, images, guest

LEMMA LeaveCourseStep ==
  ASSUME TeamInv, LeaveCourse PROVE TeamInv'
<1> USE DEF TeamInv
<1>1. UNCHANGED vars
  BY DEF LeaveCourse
<1>2. TeamTypeOK'
  BY <1>1, Unseen DEF LeaveCourse, TeamTypeOK, images, guest
<1> QED BY <1>1, <1>2, Unseen DEF LeaveCourse, PlaceInv, FrameInv, LivesInv, ClearInv, TapeInv,
           Undecided, Reloading, images, guest, TeamDeath

LEMMA ChangeRoomStep ==
  ASSUME TeamInv, ChangeRoom PROVE TeamInv'
<1> USE DEF TeamInv
<1>1. UNCHANGED vars
  BY DEF ChangeRoom
<1>2. TeamTypeOK'
  BY <1>1, Unseen DEF ChangeRoom, TeamTypeOK, images, guest
<1> QED BY <1>1, <1>2, Unseen DEF ChangeRoom, PlaceInv, FrameInv, LivesInv, ClearInv, TapeInv,
           Undecided, Reloading, images, guest, TeamDeath

LEMMA ProceedStep ==
  ASSUME TeamInv, Proceed PROVE TeamInv'
<1> USE DEF TeamInv
<1>1. UNCHANGED vars
  BY DEF Proceed
<1>2. animation' \in [Player -> Poised]
  BY DEF Proceed, Poses, TeamTypeOK, Poised
<1>3. TeamTypeOK'
  BY <1>1, <1>2, Unseen DEF Proceed, TeamTypeOK, place, guest
<1> QED BY <1>1, <1>3, Unseen DEF Proceed, PlaceInv, FrameInv, LivesInv, ClearInv, TapeInv,
           Undecided, Reloading, place, guest, TeamDeath

LEMMA LoadRoomStep ==
  ASSUME TeamInv, NEW pose \in {"free", "scene"}, LoadRoom(pose) PROVE TeamInv'
<1> USE DEF TeamInv
<1>1. UNCHANGED vars
  BY DEF LoadRoom
<1>2. TeamTypeOK'
  BY <1>1, Unseen, Images DEF LoadRoom, TeamTypeOK, guest
<1>3. PlaceInv' /\ FrameInv' /\ ClearInv' /\ TapeInv'
  BY <1>1, Unseen DEF LoadRoom, PlaceInv, FrameInv, LivesInv, ClearInv, TapeInv,
           Undecided, Reloading, guest
<1>4. LivesInv'
  <2>1. CASE TeamDeath
    <3>1. outcome = "RETRY"
      BY <2>1 DEF LoadRoom, PlaceInv, TeamDeath
    <3>2. ledger > 0 /\ ledger <= 100 /\ ledger \in Nat
      BY <3>1, <2>1, TeamAssumption DEF LivesInv, OneLifePerAttempt
    <3>3. (ledger + 255) % 256 = ledger - 1
      BY <3>2, Modulo
    <3>4. counter = ledger - 1
      BY <2>1, <3>3 DEF LoadRoom, LivesInv, Undecided
    <3> QED BY <1>1, Unseen, <2>1, <3>2, <3>3, <3>4 DEF LoadRoom, LivesInv, guest, Undecided
  <2>2. CASE ~TeamDeath
    BY <1>1, Unseen, <2>2 DEF LoadRoom, LivesInv, guest, Undecided
  <2> QED BY <2>1, <2>2
<1> QED BY <1>1, <1>2, <1>3, <1>4, Unseen

LEMMA NewCourseStep ==
  ASSUME TeamInv, NEW pose \in {"free", "scene"}, NEW reached \in BOOLEAN,
         NewCourse(pose, reached)
  PROVE  TeamInv'
<1> USE DEF TeamInv
<1>1. UNCHANGED vars
  BY DEF NewCourse
<1>2. counter' \in 0..255 /\ ledger' \in 0..MaxLives
  <2>1. /\ counter' = InitialLives - 1 /\ ledger' = InitialLives
        \/ UNCHANGED <<counter, ledger>>
    BY DEF NewCourse
  <2>2. counter \in 0..255 /\ ledger \in 0..MaxLives
    BY DEF TeamTypeOK, LivesInv
  <2> QED BY <2>1, <2>2, Amounts
<1>3. TeamTypeOK'
  <2>1. ledger' \in Nat
    BY <1>2, Amounts
  <2>2. animation' \in [Player -> Poised] /\ timer' \in [Player -> 0..DeathTicks]
    BY Images DEF NewCourse
  <2>3. /\ mode' = "level" /\ entered' = FALSE /\ sublevel' = FALSE /\ ending' = FALSE
        /\ midway' = FALSE /\ flag' = reached
        /\ UNCHANGED <<phase, todo, request, paused, aborted>>
    BY DEF NewCourse
  <2> QED BY <1>1, <1>2, <2>1, <2>2, <2>3, Unseen DEF TeamTypeOK
<1>4. PlaceInv' /\ FrameInv' /\ ClearInv' /\ TapeInv'
  BY <1>1, Unseen DEF NewCourse, PlaceInv, FrameInv, ClearInv, TapeInv,
           Undecided, Reloading, TeamDeath
<1>5. ledger' > 0 /\ counter' = ledger' - 1
  <2>1. CASE mode = "gameover"
    <3>1. counter' = InitialLives - 1 /\ ledger' = InitialLives
      BY <2>1 DEF NewCourse
    <3> QED BY <3>1, Amounts
  <2>2. CASE mode = "map"
    BY <2>2 DEF NewCourse, LivesInv, PlaceInv
  <2> QED BY <2>1, <2>2 DEF NewCourse
<1>6. (ledger' + 255) % 256 = ledger' - 1
  BY <1>2, <1>5, Amounts, Modulo
<1>7. LivesInv'
  <2>1. entered' = FALSE /\ phase' = "idle" /\ lives' \in 0..MaxLives
    BY <1>1, Unseen DEF NewCourse, LivesInv
  <2> QED BY <1>2, <1>5, <1>6, <2>1 DEF LivesInv
<1> QED BY <1>1, <1>3, <1>4, <1>7, Unseen

-----------------------------------------------------------------------------
(* The players' routines.                                                  *)

LEMMA MoveStep ==
  ASSUME TeamInv, NEW p \in Player, NEW pose \in {"free", "scene"}, Move(p, pose)
  PROVE  TeamInv'
<1> USE DEF TeamInv
<1>1. UNCHANGED vars
  BY DEF Move
<1>2. TeamTypeOK'
  BY <1>1, Unseen DEF Move, Turn, TeamTypeOK, place, guest, Poised
<1> QED BY <1>1, <1>2, Unseen DEF Move, Turn, PlaceInv, FrameInv, LivesInv, ClearInv, TapeInv,
           Undecided, Reloading, place, guest

LEMMA OneUpStep ==
  ASSUME TeamInv, NEW p \in Player, OneUp(p) PROVE TeamInv'
<1> USE DEF TeamInv
<1>1. UNCHANGED vars /\ UNCHANGED <<phase, mode, entered, sublevel, midway, flag, aborted, paused>>
  BY DEF OneUp, place
<1>2. ledger > 0 /\ counter = ledger - 1 /\ ledger \in Nat /\ ~TeamDeath
  BY Amounts DEF OneUp, LivesInv
<1>3. counter' \in 0..255 /\ ledger' \in 0..MaxLives /\ ledger' > 0 /\ counter' = ledger' - 1
  BY <1>2, Amounts DEF OneUp
<1>4. TeamTypeOK'
  BY <1>1, <1>3, Unseen, Amounts DEF OneUp, Turn, TeamTypeOK, images
<1>5. PlaceInv' /\ FrameInv' /\ ClearInv' /\ TapeInv'
  BY <1>1, Unseen DEF PlaceInv, FrameInv, ClearInv, TapeInv, Undecided, Reloading
<1>6. LivesInv'
  <2>1. phase = "routines"
    BY DEF OneUp, Turn
  <2> QED BY <1>1, <1>2, <1>3, <2>1, Unseen DEF LivesInv
<1> QED BY <1>1, <1>4, <1>5, <1>6, Unseen

LEMMA RoomRequestStep ==
  ASSUME TeamInv, NEW p \in Player, RoomRequest(p) PROVE TeamInv'
<1> USE DEF TeamInv
<1>1. UNCHANGED vars
  BY DEF RoomRequest
<1>2. TeamTypeOK'
  BY <1>1, Unseen DEF RoomRequest, Turn, TeamTypeOK, place, guest, images
<1> QED BY <1>1, <1>2, Unseen DEF RoomRequest, Turn, PlaceInv, FrameInv, LivesInv, ClearInv,
           TapeInv, Undecided, Reloading, place, guest, images

(* Events that the session accepts end nothing.                            *)
LEMMA Reported ==
  ASSUME TeamInv, NEW E \in SUBSET TeamEvent, Queue(E), \A e \in E : Accepts(e)
  PROVE  aborted' = FALSE /\ events' = events \cup E /\ events' \subseteq Event
<1>1. E \subseteq Event
  BY TeamAssumption
<1>2. ~aborted /\ events \subseteq Event
  BY DEF TeamInv, FrameInv, TeamTypeOK, TypeOK
<1>3. events' = events \cup E
  BY DEF Queue
<1>4. aborted' = FALSE
  <2>1. aborted' = (aborted \/ \E e \in E : ~Accepts(e))
    BY DEF Queue
  <2> QED BY <1>2, <2>1
<1> QED BY <1>1, <1>2, <1>3, <1>4

(* In the players' routines of a frame that advances everything is.        *)
LEMMA RoutinesReport ==
  ASSUME TeamInv, phase = "routines", advancing, NEW e PROVE Accepts(e)
BY DEF TeamInv, FrameInv, Accepts, Undecided

(* Only events were added.                                                 *)
LEMMA EventsOnly ==
  ASSUME TeamInv, UNCHANGED core, events' \subseteq Event
  PROVE  /\ TypeOK' /\ SomeoneActive' /\ OneLifePerAttempt'
         /\ UNCHANGED <<players, lives, outcome, checkpoint, advancing, blocked, resolved,
                        actions, charged>>
         /\ Active' = Active /\ TeamDeath' = TeamDeath /\ JustFailed' = JustFailed
<1>1. UNCHANGED <<players, lives, outcome, checkpoint, advancing, blocked, resolved,
                  actions, charged>>
  BY DEF core, frame
<1> QED BY <1>1 DEF TeamInv, TeamTypeOK, TypeOK, SomeoneActive, Active, OneLifePerAttempt,
           TeamDeath, JustFailed

LEMMA KillStep ==
  ASSUME TeamInv, NEW p \in Player, NEW timeout \in BOOLEAN, Kill(p, timeout) PROVE TeamInv'
<1> USE DEF TeamInv
<1> DEFINE dies == players[p].life = "PLAYING"
           E == (IF timeout THEN {Event1("TIMEOUT", NoPlayer, 0)} ELSE {})
                  \cup (IF dies THEN {Event1("DEATH", p, 0)} ELSE {})
<1>1. /\ Queue(E) /\ phase = "routines" /\ advancing
      /\ UNCHANGED core /\ UNCHANGED <<phase, mode, entered, sublevel, request, paused, ending,
                                       counter, midway, flag, ledger>>
      /\ todo' = todo \ {p}
      /\ animation' = [animation EXCEPT ![p] = IF dies THEN "dying" ELSE @]
      /\ timer' = [timer EXCEPT ![p] = IF dies THEN DeathTicks ELSE @]
  BY DEF Kill, Turn, place, guest
<1>2. E \in SUBSET TeamEvent /\ \A e \in E : e.kind # "CHECKPOINT"
  BY DEF TeamEvent, Event1
<1>3. aborted' = FALSE /\ events' = events \cup E /\ events' \subseteq Event
  <2> HIDE DEF E
  <2> QED BY <1>1, <1>2, RoutinesReport, Reported
<1>4. animation' \in [Player -> Poised] /\ timer' \in [Player -> 0..DeathTicks]
  BY <1>1, Amounts DEF TeamTypeOK, Poised
<1> HIDE DEF E
<1>e. /\ TypeOK' /\ SomeoneActive' /\ OneLifePerAttempt'
      /\ UNCHANGED <<players, lives, outcome, checkpoint, advancing, blocked, resolved,
                     actions, charged>>
      /\ Active' = Active /\ TeamDeath' = TeamDeath /\ JustFailed' = JustFailed
  BY <1>1, <1>3, EventsOnly
<1>5. TeamTypeOK'
  BY <1>1, <1>3, <1>4, <1>e DEF TeamTypeOK
<1>6. PlaceInv' /\ FrameInv' /\ ClearInv' /\ TapeInv'
  BY <1>1, <1>2, <1>3, <1>e DEF PlaceInv, FrameInv, ClearInv, TapeInv, Undecided, Reloading
<1>7. LivesInv'
  BY <1>1, <1>3, <1>e DEF LivesInv
<1> QED BY <1>1, <1>3, <1>5, <1>6, <1>7, <1>e

LEMMA TouchTapeStep ==
  ASSUME TeamInv, NEW p \in Player, TouchTape(p) PROVE TeamInv'
<1> USE DEF TeamInv
<1> DEFINE E == IF players[p].life = "PLAYING" THEN {Event1("CHECKPOINT", p, Tape)} ELSE {}
<1>1. /\ phase = "routines" /\ advancing /\ midway' = TRUE
      /\ UNCHANGED core /\ UNCHANGED <<phase, mode, entered, sublevel, request, paused, ending,
                                       counter, flag, ledger, animation, timer>>
      /\ todo' = todo \ {p}
  BY DEF TouchTape, Turn, place, images
<1>2. E \in SUBSET TeamEvent /\ \A e \in E : e.kind = "CHECKPOINT" /\ e.value = Tape
  BY DEF TeamEvent, Event1
<1>3. aborted' = FALSE /\ events' = events \cup E /\ events' \subseteq Event
  <2>1. CASE players[p].life = "PLAYING"
    <3>1. Queue(E)
      BY <2>1 DEF TouchTape
    <3> HIDE DEF E
    <3> QED BY <1>1, <1>2, <3>1, RoutinesReport, Reported
  <2>2. CASE players[p].life # "PLAYING"
    BY <2>2 DEF TouchTape, FrameInv, TeamTypeOK, TypeOK
  <2> QED BY <2>1, <2>2
<1> HIDE DEF E
<1>e. /\ TypeOK' /\ SomeoneActive' /\ OneLifePerAttempt'
      /\ UNCHANGED <<players, lives, outcome, checkpoint, advancing, blocked, resolved,
                     actions, charged>>
      /\ Active' = Active /\ TeamDeath' = TeamDeath /\ JustFailed' = JustFailed
  BY <1>1, <1>3, EventsOnly
<1>4. TeamTypeOK'
  BY <1>1, <1>3, <1>e DEF TeamTypeOK
<1>5. PlaceInv' /\ FrameInv' /\ ClearInv' /\ TapeInv'
  BY <1>1, <1>2, <1>3, <1>e DEF PlaceInv, FrameInv, ClearInv, TapeInv, Undecided, Reloading
<1>6. LivesInv'
  BY <1>1, <1>3, <1>e DEF LivesInv
<1> QED BY <1>1, <1>3, <1>4, <1>5, <1>6, <1>e

LEMMA TouchGoalStep ==
  ASSUME TeamInv, NEW p \in Player, TouchGoal(p) PROVE TeamInv'
<1> USE DEF TeamInv
<1> DEFINE E == {Event1("EXIT", p, 0)}
<1>1. /\ Queue(E) /\ phase = "routines" /\ advancing
      /\ UNCHANGED core /\ UNCHANGED <<phase, mode, entered, sublevel, request, paused, ending,
                                       counter, midway, flag, ledger, animation, timer>>
      /\ todo' = todo \ {p}
  BY DEF TouchGoal, Turn, place, guest, images
<1>2. E \in SUBSET TeamEvent /\ \A e \in E : e.kind = "EXIT"
  BY DEF TeamEvent, Event1
<1> HIDE DEF E
<1>3. aborted' = FALSE /\ events' = events \cup E /\ events' \subseteq Event
  BY <1>1, <1>2, RoutinesReport, Reported
<1>e. /\ TypeOK' /\ SomeoneActive' /\ OneLifePerAttempt'
      /\ UNCHANGED <<players, lives, outcome, checkpoint, advancing, blocked, resolved,
                     actions, charged>>
      /\ Active' = Active /\ TeamDeath' = TeamDeath /\ JustFailed' = JustFailed
  BY <1>1, <1>3, EventsOnly
<1>4. TeamTypeOK'
  BY <1>1, <1>3, <1>e DEF TeamTypeOK
<1>5. PlaceInv' /\ FrameInv' /\ ClearInv' /\ TapeInv'
  BY <1>1, <1>2, <1>3, <1>e DEF PlaceInv, FrameInv, ClearInv, TapeInv, Undecided, Reloading
<1>6. LivesInv'
  BY <1>1, <1>3, <1>e DEF LivesInv
<1> QED BY <1>1, <1>3, <1>4, <1>5, <1>6, <1>e

-----------------------------------------------------------------------------
(* The session's own steps.                                                *)

(* No record loses its controller.                                         *)
LEMMA SameController ==
  ASSUME NEW r \in PlayerRecord
  PROVE  /\ Die(r).connected = r.connected /\ Upgrade(r).connected = r.connected
         /\ Damage(r).connected = r.connected /\ CatchUp(r).connected = r.connected
         /\ Return(r).connected = r.connected /\ Fresh(r).connected = r.connected
<1>1. Die(r).connected = r.connected /\ Fresh(r).connected = r.connected
  BY DEF Die, Fresh, PlayerRecord
<1>2. Upgrade(r).connected = r.connected
  BY DEF Upgrade, PlayerRecord
<1>3. Damage(r).connected = r.connected /\ CatchUp(r).connected = r.connected
  BY DEF Damage, CatchUp, PlayerRecord
<1>4. Return(r).connected = r.connected
  BY DEF Return, PlayerRecord
<1> QED BY <1>1, <1>2, <1>3, <1>4

LEMMA ResolvedController ==
  ASSUME TypeOK, NEW p \in Player
  PROVE  Resolved(p).connected = players[p].connected
<1> DEFINE died == IF p \in Doomed THEN Die(players[p]) ELSE players[p]
           up   == IF Of("CHECKPOINT") # {} THEN Upgrade(died) ELSE died
           hurt == IF p \in Hurt THEN Damage(up) ELSE up
           last == [hurt EXCEPT !.life = "DEATH_BUBBLE", !.recovery = 3 * TicksPerSecond]
<1>0. players[p] \in PlayerRecord
  BY DEF TypeOK
<1>1. died \in PlayerRecord /\ died.connected = players[p].connected
  BY <1>0, DieRecord, SameController
<1> HIDE DEF died
<1>2. up \in PlayerRecord /\ up.connected = died.connected
  BY <1>1, UpgradeRecord, SameController
<1> HIDE DEF up
<1>3. hurt \in PlayerRecord /\ hurt.connected = up.connected
  BY <1>2, DamageRecord, SameController
<1> HIDE DEF hurt
<1>4. last.connected = hurt.connected
  BY <1>3 DEF PlayerRecord
<1>5. Resolved(p) = last \/ Resolved(p) = hurt
  BY DEF Resolved, died, up, hurt
<1> HIDE DEF last
<1> QED BY <1>1, <1>2, <1>3, <1>4, <1>5

LEMMA SeparatedController ==
  ASSUME TypeOK, NEW p \in Player, NEW outside, NEW leader, NEW resized
  PROVE  Separated(p, outside, leader, resized).connected = players[p].connected
<1> DEFINE r == players[p]
           zero == [r EXCEPT !.separation = 0]
           more == [r EXCEPT !.separation = @ + 1]
<1>1. r \in PlayerRecord
  BY DEF TypeOK
<1> HIDE DEF r
<1>2. zero.connected = r.connected /\ more.connected = r.connected
  BY <1>1 DEF PlayerRecord
<1>3. Separated(p, outside, leader, resized) \in {r, zero, more, CatchUp(r)}
  BY DEF Separated, r
<1> HIDE DEF zero, more
<1>4. Separated(p, outside, leader, resized).connected = r.connected
  BY <1>1, <1>2, <1>3, SameController
<1> QED BY <1>4 DEF r

(* coop_session_begin_frame, of a team with its controllers.               *)
LEMMA FrameBegins ==
  ASSUME TeamInv, NEW adv \in BOOLEAN, BeginFrame(adv)
  PROVE  /\ TypeOK' /\ SomeoneActive' /\ OneLifePerAttempt'
         /\ events' = {} /\ actions' = {} /\ resolved' = FALSE /\ blocked' = FALSE
         /\ advancing' = (adv /\ outcome = "CONTINUE")
         /\ UNCHANGED <<lives, outcome, checkpoint>>
         /\ \A p \in Player : players'[p].connected
         /\ Active' = Active /\ TeamDeath' = TeamDeath /\ ~JustFailed'
<1> USE DEF TeamInv
<1>1. Next
  BY DEF Next
<1>2. TypeOK' /\ SomeoneActive' /\ OneLifePerAttempt'
  BY <1>1, SessionPart DEF TeamTypeOK
<1>3. blocked' = FALSE
  BY DEF BeginFrame, FrameInv
<1>4. advancing' = (adv /\ outcome = "CONTINUE")
  BY <1>3 DEF BeginFrame
<1>5. ASSUME NEW p \in Player PROVE players'[p].connected /\ players'[p].life = players[p].life
  <2>1. players[p] \in PlayerRecord /\ players[p].connected
    BY DEF TeamTypeOK, TypeOK, FrameInv
  <2>2. [players[p] EXCEPT !.star = Tick(@), !.protection = Tick(@), !.recovery = Tick(@)].connected
          = players[p].connected
    BY <2>1 DEF PlayerRecord
  <2>3. players'[p].connected = players[p].connected
    BY <2>2 DEF BeginFrame
  <2> QED BY <2>1, <2>3, BeginFrameRecords DEF TeamTypeOK
<1>6. /\ events' = {} /\ actions' = {} /\ resolved' = FALSE
      /\ UNCHANGED <<lives, outcome, checkpoint>>
  BY DEF BeginFrame
<1>7. Active' = Active
  BY <1>5 DEF Active
<1>8. TeamDeath' = TeamDeath /\ ~JustFailed'
  BY <1>6 DEF TeamDeath, JustFailed
<1> QED BY <1>2, <1>3, <1>4, <1>5, <1>6, <1>7, <1>8

LEMMA BeginStep ==
  ASSUME TeamInv, Begin PROVE TeamInv'
<1> USE DEF TeamInv
<1>1. /\ TypeOK' /\ SomeoneActive' /\ OneLifePerAttempt'
      /\ events' = {} /\ actions' = {} /\ resolved' = FALSE /\ blocked' = FALSE
      /\ advancing' = FALSE
      /\ UNCHANGED <<lives, outcome, checkpoint>>
      /\ \A p \in Player : players'[p].connected
      /\ Active' = Active /\ TeamDeath' = TeamDeath /\ ~JustFailed'
  BY FrameBegins DEF Begin
<1>2. /\ request' = NoPlayer /\ phase' = "stage" /\ mode = "level" /\ entered /\ phase = "idle"
      /\ UNCHANGED <<mode, entered, sublevel, animation, timer, todo, paused, ending, counter,
                     midway, flag, ledger, aborted>>
  BY DEF Begin, place, images, guest
<1>3. TeamTypeOK'
  BY <1>1, <1>2 DEF TeamTypeOK
<1>4. PlaceInv' /\ FrameInv' /\ ClearInv' /\ TapeInv'
  BY <1>1, <1>2 DEF PlaceInv, FrameInv, ClearInv, TapeInv, Undecided, Reloading
<1>5. LivesInv'
  BY <1>1, <1>2 DEF LivesInv, Undecided
<1> QED BY <1>1, <1>3, <1>4, <1>5

LEMMA StageStep ==
  ASSUME TeamInv, NEW start \in BOOLEAN, NEW frozen \in BOOLEAN, Stage(start, frozen)
  PROVE  TeamInv'
<1> USE DEF TeamInv
<1> DEFINE adv == ~Scene /\ ~frozen
<1>1. adv \in BOOLEAN /\ BeginFrame(adv)
  BY DEF Stage
<1> HIDE DEF adv
<1>2. /\ TypeOK' /\ SomeoneActive' /\ OneLifePerAttempt'
      /\ events' = {} /\ actions' = {} /\ resolved' = FALSE /\ blocked' = FALSE
      /\ (advancing' => outcome = "CONTINUE")
      /\ UNCHANGED <<lives, outcome, checkpoint>>
      /\ \A p \in Player : players'[p].connected
      /\ Active' = Active /\ TeamDeath' = TeamDeath /\ ~JustFailed'
  BY <1>1, FrameBegins
<1>3. /\ paused' = FALSE /\ phase' = "routines" /\ phase = "stage" /\ todo' \subseteq Player
      /\ UNCHANGED <<mode, entered, sublevel, animation, timer, request, ending, counter,
                     midway, flag, ledger, aborted>>
  BY DEF Stage, place, images, guest
<1>4. TeamTypeOK'
  BY <1>2, <1>3 DEF TeamTypeOK
<1>5. PlaceInv' /\ FrameInv' /\ ClearInv' /\ TapeInv'
  BY <1>2, <1>3 DEF PlaceInv, FrameInv, ClearInv, TapeInv, Undecided, Reloading
<1>6. LivesInv'
  BY <1>2, <1>3 DEF LivesInv, Undecided
<1> QED BY <1>2, <1>4, <1>5, <1>6

(* What coop_session_resolve announces of the attempt itself.              *)
LEMMA Announced ==
  ASSUME TypeOK
  PROVE  /\ \A a \in Decisions : a.kind \in {"RETRY", "GAME_OVER"} => Failed
         /\ Cleared => \E a \in Decisions : a.kind = "EXIT"
<1>1. ASSUME NEW a \in Decisions, a.kind \in {"RETRY", "GAME_OVER"} PROVE Failed
  <2>1. a \notin Awards("PICKUP", "PICKUP") /\ a \notin Awards("ENEMY_CONTACT", "ENEMY_DAMAGE")
    BY <1>1, AwardFacts
  <2>2. a \notin Deaths /\ a \notin Injuries /\ a \notin Bounces
    BY <1>1 DEF Deaths, Injuries, Bounces, Action
  <2>3. a \notin FirstOf("ON_OFF", LAMBDA e : 0) /\ a \notin FirstOf("CHECKPOINT", LAMBDA e : e.value)
    BY <1>1 DEF FirstOf, Action
  <2>4. a # Action("EXIT", ExitWinner.player, ExitWinner.entity,
                   Secret(ExitWinner) + 256 * GoalStars)
    BY <1>1 DEF Action
  <2> QED BY <1>1, <2>1, <2>2, <2>3, <2>4 DEF Decisions
<1>2. ASSUME Cleared PROVE \E a \in Decisions : a.kind = "EXIT"
  <2> DEFINE a == Action("EXIT", ExitWinner.player, ExitWinner.entity,
                         Secret(ExitWinner) + 256 * GoalStars)
  <2>1. a.kind = "EXIT"
    BY DEF Action
  <2>2. a \in Decisions
    <3> HIDE DEF a
    <3>1. \A d : d = a => d \in Decisions
      BY <1>2 DEF Decisions, a
    <3> QED BY <3>1
  <2> QED BY <2>1, <2>2
<1> QED BY <1>1, <1>2

(* The checkpoint a frame can reach is the course's, and the guest's flag  *)
(* was set with it.                                                        *)
LEMMA CheckpointIsTape ==
  ASSUME TeamInv, phase # "idle"
  PROVE  CheckpointAfter \in {0, Tape} /\ (CheckpointAfter = Tape => checkpoint = Tape \/ midway)
<1> USE DEF TeamInv
<1>1. CASE Of("CHECKPOINT") = {}
  BY <1>1 DEF CheckpointAfter, TapeInv
<1>2. CASE Of("CHECKPOINT") # {}
  <2>1. TypeOK
    BY DEF TeamTypeOK
  <2>2. Earliest(Of("CHECKPOINT")) \in Of("CHECKPOINT")
    BY <1>2, <2>1, EventsTyped, EarliestExists DEF Earliest
  <2>3. \A e \in Of("CHECKPOINT") : e.value = Tape /\ midway
    BY DEF Of, TapeInv
  <2> QED BY <1>2, <2>2, <2>3 DEF CheckpointAfter
<1> QED BY <1>1, <1>2

LEMMA ResolveFrameStep ==
  ASSUME TeamInv, ResolveFrame PROVE TeamInv'
<1> USE DEF TeamInv
<1>1. /\ phase = "resolve" /\ phase' = "apply"
      /\ UNCHANGED <<mode, entered, sublevel, animation, timer, todo, request, paused, ending,
                     counter, midway, flag, aborted>>
      /\ ledger' = IF outcome' # outcome /\ outcome' \in {"RETRY", "GAME_OVER"}
                   THEN ledger - 1 ELSE ledger
  BY DEF ResolveFrame, place, images, guest
<1>2. mode \in {"level", "map"} /\ entered /\ lives = ledger /\ ledger \in 0..MaxLives
  BY <1>1 DEF PlaceInv, LivesInv, Undecided
<1>3. CASE UNCHANGED vars
  <2>1. ledger' = ledger
    BY <1>1, <1>3, Unseen
  <2>2. TeamTypeOK'
    BY <1>1, <1>3, <2>1, Unseen DEF TeamTypeOK
  <2>3. PlaceInv' /\ FrameInv' /\ ClearInv' /\ TapeInv'
    BY <1>1, <1>3, Unseen DEF PlaceInv, FrameInv, ClearInv, TapeInv, Undecided, Reloading
  <2>4. LivesInv'
    BY <1>1, <1>2, <1>3, <2>1, Unseen DEF LivesInv, Undecided
  <2> QED BY <1>3, <2>2, <2>3, <2>4, Unseen
<1>4. CASE Resolve
  <2>1. TypeOK' /\ SomeoneActive' /\ OneLifePerAttempt'
    <3>1. Next
      BY <1>4 DEF Next
    <3> QED BY <3>1, SessionPart DEF TeamTypeOK
  <2>2. /\ outcome = "CONTINUE" /\ (advancing \/ events # {})
        /\ checkpoint' = CheckpointAfter /\ lives' = LivesAfter /\ outcome' = OutcomeAfter
        /\ actions' = actions \cup Decisions
        /\ UNCHANGED <<advancing, blocked, events>>
    BY <1>4 DEF Resolve, frame
  <2>3. ledger > 0 /\ counter = ledger - 1 /\ ledger \in Nat
    BY <1>2, <2>2, Amounts DEF LivesInv, TeamDeath
  <2>4. \/ Failed /\ ~Cleared /\ outcome' \in {"RETRY", "GAME_OVER"} /\ lives' = ledger - 1
        \/ ~Failed /\ outcome' \in {"CONTINUE", "CLEAR"} /\ lives' = ledger
    BY <1>2, <2>2, <2>3 DEF Failed, LivesAfter, OutcomeAfter, Tick
  <2>5. lives' = ledger' /\ ledger' \in 0..MaxLives /\ ledger' \in Nat
    BY <1>1, <1>2, <2>2, <2>3, <2>4, Amounts
  <2>6. TeamTypeOK'
    BY <1>1, <2>1, <2>5 DEF TeamTypeOK
  <2>7. PlaceInv'
    <3>1. ASSUME mode = "map" PROVE outcome' = "CLEAR"
      <4>1. ~advancing /\ \A e \in events : e.kind = "EXIT"
        BY <3>1, <1>1, <2>2 DEF PlaceInv
      <4>2. Cleared
        BY <4>1, <2>2 DEF Cleared, Of
      <4> QED BY <4>2, <2>2 DEF OutcomeAfter
    <3> QED BY <3>1, <1>1, <1>2 DEF PlaceInv, TeamDeath, Undecided
  <2>8. FrameInv'
    <3>1. \A p \in Player : players'[p].connected
      BY <1>4, ResolvedController DEF Resolve, TeamTypeOK, FrameInv
    <3>2. JustFailed' => TeamDeath'
      <4>1. ~JustFailed
        BY <1>1, <2>2 DEF FrameInv, TeamDeath
      <4>2. \A a \in Decisions : a.kind \in {"RETRY", "GAME_OVER"} => Failed
        BY Announced DEF TeamTypeOK
      <4>3. JustFailed' => Failed
        BY <2>2, <4>1, <4>2 DEF JustFailed
      <4> QED BY <2>4, <4>3 DEF TeamDeath
    <3> QED BY <1>1, <2>2, <3>1, <3>2 DEF FrameInv, Undecided
  <2>9. LivesInv'
    BY <1>1, <1>2, <2>3, <2>4, <2>5 DEF LivesInv, Undecided, TeamDeath
  <2>10. ClearInv'
    <3>1. outcome' = "CLEAR" => Cleared
      BY <2>2 DEF OutcomeAfter
    <3>2. Cleared => \E a \in Decisions : a.kind = "EXIT"
      BY Announced DEF TeamTypeOK
    <3> QED BY <1>1, <2>2, <3>1, <3>2 DEF ClearInv
  <2>11. TapeInv'
    BY <1>1, <1>2, <2>2, CheckpointIsTape DEF TapeInv, Reloading
  <2> QED BY <2>1, <2>6, <2>7, <2>8, <2>9, <2>10, <2>11
<1> QED BY <1>3, <1>4 DEF ResolveFrame

LEMMA SeparateFrameStep ==
  ASSUME TeamInv, NEW outside \in SUBSET Active, NEW leader \in Active \cup {NoPlayer},
         NEW resized \in BOOLEAN, SeparateFrame(outside, leader, resized)
  PROVE  TeamInv'
<1> USE DEF TeamInv
<1>1. /\ phase = "separate" /\ phase' = "recover"
      /\ UNCHANGED <<mode, entered, sublevel, animation, timer, todo, request, paused, ending,
                     counter, midway, flag, ledger, aborted>>
      /\ Separate(outside, leader, resized)
  BY DEF SeparateFrame, place, images, guest
<1>2. TypeOK' /\ SomeoneActive' /\ OneLifePerAttempt'
  <2>1. Next
    BY <1>1 DEF Next
  <2> QED BY <2>1, SessionPart DEF TeamTypeOK
<1>3. /\ outcome = "CONTINUE"
      /\ UNCHANGED <<lives, outcome, checkpoint, advancing, blocked, resolved, events>>
  BY <1>1 DEF Separate, frame
<1>4. JustFailed' = JustFailed
  BY <1>1 DEF Separate, Drops, Action, JustFailed
<1>5. \A p \in Player : players'[p].connected
  BY <1>1, SeparatedController DEF Separate, TeamTypeOK, FrameInv
<1>6. TeamTypeOK'
  BY <1>1, <1>2 DEF TeamTypeOK
<1>7. PlaceInv' /\ FrameInv' /\ ClearInv' /\ TapeInv'
  BY <1>1, <1>3, <1>4, <1>5 DEF PlaceInv, FrameInv, ClearInv, TapeInv, Undecided, Reloading,
                               TeamDeath
<1>8. LivesInv'
  BY <1>1, <1>3 DEF LivesInv, Undecided, TeamDeath
<1> QED BY <1>2, <1>6, <1>7, <1>8

LEMMA RecoverFrameStep ==
  ASSUME TeamInv, NEW returning \in SUBSET Waiting, NEW anchor \in [returning -> Anchors(returning)],
         RecoverFrame(anchor)
  PROVE  TeamInv'
<1> USE DEF TeamInv
<1>1. /\ phase = "recover" /\ phase' = "close"
      /\ UNCHANGED <<mode, entered, sublevel, todo, request, paused, ending,
                     counter, midway, flag, ledger, aborted>>
      /\ Recover(anchor)
  BY DEF RecoverFrame, place, guest
<1>2. TypeOK' /\ SomeoneActive' /\ OneLifePerAttempt'
  <2>1. Next
    BY <1>1 DEF Next
  <2> QED BY <2>1, SessionPart DEF TeamTypeOK
<1>3. /\ outcome = "CONTINUE"
      /\ UNCHANGED <<lives, outcome, checkpoint, advancing, blocked, resolved, events>>
  BY <1>1 DEF Recover, frame
<1>4. JustFailed' = JustFailed
  BY <1>1 DEF Recover, Action, JustFailed
<1>5. \A p \in Player : players'[p].connected
  BY <1>1, SameController DEF Recover, TeamTypeOK, TypeOK, FrameInv
<1>6. animation' \in [Player -> Poised] /\ timer' \in [Player -> 0..DeathTicks]
  BY Amounts DEF RecoverFrame, Poses, Poised, TeamTypeOK
<1>7. TeamTypeOK'
  BY <1>1, <1>2, <1>6 DEF TeamTypeOK
<1>8. PlaceInv' /\ FrameInv' /\ ClearInv' /\ TapeInv'
  BY <1>1, <1>3, <1>4, <1>5 DEF PlaceInv, FrameInv, ClearInv, TapeInv, Undecided, Reloading,
                               TeamDeath
<1>9. LivesInv'
  BY <1>1, <1>3 DEF LivesInv, Undecided, TeamDeath
<1> QED BY <1>2, <1>7, <1>8, <1>9

-----------------------------------------------------------------------------
(* The adapter's own changes to the players.                               *)

LEMMA DeathTickStep ==
  ASSUME TeamInv, NEW p \in Player, DeathTick(p) PROVE TeamInv'
<1> USE DEF TeamInv
<1>1. /\ phase = "routines"
      /\ UNCHANGED <<lives, outcome, checkpoint, advancing, blocked, resolved, actions, charged,
                     phase, mode, entered, sublevel, animation, request, paused, ending,
                     counter, midway, flag, ledger>>
      /\ todo' = todo \ {p}
  BY DEF DeathTick, Turn, place, guest, frame
<1>2. timer' \in [Player -> 0..DeathTicks]
  BY Amounts DEF DeathTick, TeamTypeOK, Tick
<1>3. TeamDeath' = TeamDeath /\ JustFailed' = JustFailed
  BY <1>1 DEF TeamDeath, JustFailed
<1>4. /\ players' \in [Player -> PlayerRecord] /\ \A q \in Player : players'[q].connected
      /\ events' \subseteq Event /\ aborted' = FALSE
      /\ \A e \in events' \ events : e.kind # "CHECKPOINT"
      /\ ~TeamDeath => players' = players
  <2>0. /\ players \in [Player -> PlayerRecord] /\ \A q \in Player : players[q].connected
        /\ events \subseteq Event /\ ~aborted
    BY DEF TeamTypeOK, TypeOK, FrameInv
  <2>1. CASE ~Runs \/ timer'[p] > 0
    BY <2>0, <2>1 DEF DeathTick
  <2>2. CASE ~(~Runs \/ timer'[p] > 0) /\ TeamDeath
    <3>1. players' = [players EXCEPT ![p].life = "DEATH_BUBBLE"] /\ UNCHANGED <<events, aborted>>
      BY <2>2 DEF DeathTick
    <3> QED BY <2>0, <2>2, <3>1 DEF PlayerRecord, Life
  <2>3. CASE ~(~Runs \/ timer'[p] > 0) /\ ~TeamDeath
    <3> DEFINE E == {Event1("DEATH_FINISHED", p, 0)}
    <3>1. Queue(E) /\ UNCHANGED players /\ advancing
      BY <2>3 DEF DeathTick, Runs
    <3>2. E \in SUBSET TeamEvent /\ \A e \in E : e.kind # "CHECKPOINT"
      BY DEF TeamEvent, Event1
    <3> HIDE DEF E
    <3>3. aborted' = FALSE /\ events' = events \cup E /\ events' \subseteq Event
      BY <1>1, <3>1, <3>2, RoutinesReport, Reported
    <3> QED BY <2>0, <3>1, <3>2, <3>3
  <2> QED BY <2>1, <2>2, <2>3
<1>5. TypeOK'
  BY <1>1, <1>4 DEF TeamTypeOK, TypeOK
<1>6. SomeoneActive' /\ OneLifePerAttempt'
  BY <1>1, <1>4 DEF SomeoneActive, Active, OneLifePerAttempt, TeamDeath
<1>7. TeamTypeOK'
  BY <1>1, <1>2, <1>4, <1>5 DEF TeamTypeOK
<1>8. PlaceInv' /\ FrameInv' /\ TapeInv'
  BY <1>1, <1>3, <1>4 DEF PlaceInv, FrameInv, TapeInv, Undecided, Reloading
<1>9. ClearInv'
  BY <1>1, <1>4 DEF ClearInv, Active, TeamDeath
<1>10. LivesInv'
  BY <1>1, <1>3 DEF LivesInv
<1> QED BY <1>5, <1>6, <1>7, <1>8, <1>9, <1>10

(* initialize_room keeps whoever was in play, and makes the others play    *)
(* again when the attempt is over.                                         *)
LEMMA EnteringRecord ==
  ASSUME NEW r \in PlayerRecord
  PROVE  /\ Entering(r) \in PlayerRecord /\ Entering(r).connected = r.connected
         /\ outcome \in {"RETRY", "GAME_OVER", "CLEAR"} => Entering(r).life = "PLAYING"
         /\ outcome = "CONTINUE" => Entering(r) = r
<1>1. /\ Fresh(r) \in PlayerRecord /\ Fresh(r).connected = r.connected
      /\ Fresh(r).life = "PLAYING"
  BY FreshRecord, SameController
<1>2. CASE outcome = "GAME_OVER"
  <2>1. Entering(r) = [Fresh(r) EXCEPT !.reserve = 0]
    BY <1>2 DEF Entering
  <2> HIDE DEF Fresh
  <2> QED BY <1>1, <1>2, <2>1 DEF PlayerRecord
<1>3. CASE outcome = "RETRY"
  BY <1>1, <1>3 DEF Entering
<1>4. CASE outcome = "CLEAR"
  <2> DEFINE u == [r EXCEPT !.life = "PLAYING", !.recovery = 0, !.separation = 0,
                            !.upgrade = FALSE]
  <2>1. Entering(r) = u
    BY <1>4 DEF Entering
  <2>2. u \in PlayerRecord
    BY DEF PlayerRecord, Life
  <2>3. u.life = "PLAYING" /\ u.connected = r.connected
    BY DEF PlayerRecord
  <2> HIDE DEF u
  <2> QED BY <1>4, <2>1, <2>2, <2>3
<1>5. CASE outcome \notin {"RETRY", "GAME_OVER", "CLEAR"}
  BY <1>5 DEF Entering
<1> QED BY <1>2, <1>3, <1>4, <1>5

LEMMA InitializeRoomStep ==
  ASSUME TeamInv, InitializeRoom PROVE TeamInv'
<1> USE DEF TeamInv
<1>1. /\ phase = "idle" /\ mode = "level" /\ ~entered /\ entered' = TRUE /\ outcome' = "CONTINUE"
      /\ UNCHANGED <<lives, advancing, blocked, resolved, phase, mode, sublevel, animation, timer,
                     todo, request, paused, ending, counter, midway, flag, ledger, aborted>>
  BY DEF InitializeRoom, frame, images, guest
<1>2. /\ players' \in [Player -> PlayerRecord] /\ \A p \in Player : players'[p].connected
      /\ \A p \in Player : outcome # "CONTINUE" => players'[p].life = "PLAYING"
      /\ \A p \in Player : outcome = "CONTINUE" => players'[p].life = players[p].life
  BY EnteringRecord DEF InitializeRoom, TeamTypeOK, TypeOK, FrameInv
<1>3. /\ events' \subseteq events
      /\ TeamDeath => charged' = 0
      /\ ~TeamDeath => charged' = charged
  BY DEF InitializeRoom
<1>4. charged' = 0
  BY <1>3 DEF OneLifePerAttempt, TeamTypeOK, TypeOK, TeamDeath
<1>5. checkpoint' = IF sublevel THEN checkpoint ELSE IF flag THEN Tape ELSE 0
  BY DEF InitializeRoom
<1>6. TypeOK'
  <2>1. checkpoint' \in Nat
    BY <1>5, Amounts DEF TeamTypeOK, TypeOK
  <2> QED BY <1>1, <1>2, <1>3, <1>4, <2>1 DEF TeamTypeOK, TypeOK
<1>7. SomeoneActive' /\ OneLifePerAttempt'
  <2>1. \E p \in Player : players'[p].life = "PLAYING"
    <3>1. CASE outcome = "CONTINUE"
      BY <1>2, <3>1 DEF SomeoneActive, Active
    <3>2. CASE outcome # "CONTINUE"
      BY <1>2, <3>2, PlayerNat
    <3> QED BY <3>1, <3>2
  <2> QED BY <1>1, <1>4, <2>1 DEF SomeoneActive, Active, OneLifePerAttempt
<1>8. TeamTypeOK'
  BY <1>1, <1>6 DEF TeamTypeOK
<1>9. PlaceInv' /\ FrameInv' /\ ClearInv'
  BY <1>1, <1>2 DEF PlaceInv, FrameInv, ClearInv, Undecided, TeamDeath
<1>10. TapeInv'
  <2>1. \A e \in events' : e.kind = "CHECKPOINT" => e.value = Tape
    BY <1>3 DEF TapeInv
  <2>2. checkpoint' \in {0, Tape} /\ (checkpoint' = Tape => midway \/ flag)
    <3>1. CASE sublevel
      BY <1>5, <3>1 DEF TapeInv
    <3>2. CASE ~sublevel
      BY <1>5, <3>2, Amounts
    <3> QED BY <3>1, <3>2
  <2> QED BY <1>1, <2>1, <2>2 DEF TapeInv
<1>11. LivesInv'
  BY <1>1 DEF LivesInv, TeamDeath, Undecided
<1> QED BY <1>6, <1>7, <1>8, <1>9, <1>10, <1>11

LEMMA ReadBackLivesStep ==
  ASSUME TeamInv, NEW scripted \in BOOLEAN, ReadBackLives(scripted) PROVE TeamInv'
<1> USE DEF TeamInv
<1>1. /\ phase = "end" /\ phase' = "resolve" /\ lives' = Reread
      /\ UNCHANGED <<players, outcome, checkpoint, advancing, blocked, resolved, actions, charged,
                     mode, entered, sublevel, animation, timer, todo, request, paused,
                     counter, midway, flag, ledger>>
      /\ ending' \in BOOLEAN
  BY DEF ReadBackLives, place, images, guest, frame
<1>2. Active' = Active /\ TeamDeath' = TeamDeath /\ JustFailed' = JustFailed
  BY <1>1 DEF Active, TeamDeath, JustFailed
<1>3. /\ events' \subseteq Event /\ aborted' = FALSE
      /\ \A e \in events' \ events : e.kind = "EXIT"
  <2>1. CASE scripted /\ outcome = "CONTINUE"
    <3> DEFINE E == {Event1("EXIT", Primary, 0)}
    <3>1. Queue(E)
      BY <2>1 DEF ReadBackLives
    <3>2. E \in SUBSET TeamEvent /\ \A e \in E : e.kind = "EXIT"
      BY SessionAssumption DEF TeamEvent, Event1
    <3> HIDE DEF E
    <3>3. \A e \in E : Accepts(e)
      BY <1>1, <2>1, <3>2 DEF Accepts, FrameInv, Undecided
    <3>4. aborted' = FALSE /\ events' = events \cup E /\ events' \subseteq Event
      BY <3>1, <3>2, <3>3, Reported
    <3> QED BY <3>2, <3>4
  <2>2. CASE ~(scripted /\ outcome = "CONTINUE")
    BY <2>2 DEF ReadBackLives, FrameInv, TeamTypeOK, TypeOK
  <2> QED BY <2>1, <2>2
<1>4. lives' = ledger /\ lives' \in 0..MaxLives /\ lives' \in Nat /\ (TeamDeath => lives' = lives)
  <2>1. CASE TeamDeath
    BY <1>1, <2>1, Amounts DEF Reread, LivesInv, PlaceInv
  <2>2. CASE ~TeamDeath
    BY <1>1, <2>2, Amounts DEF Reread, LivesInv
  <2> QED BY <2>1, <2>2
<1>5. TypeOK' /\ SomeoneActive'
  BY <1>1, <1>2, <1>3, <1>4 DEF TeamTypeOK, TypeOK, SomeoneActive
<1>6. OneLifePerAttempt'
  BY <1>1, <1>4 DEF OneLifePerAttempt, TeamDeath
<1>7. TeamTypeOK'
  BY <1>1, <1>3, <1>5 DEF TeamTypeOK
<1>8. PlaceInv' /\ FrameInv' /\ ClearInv' /\ TapeInv'
  BY <1>1, <1>2, <1>3 DEF PlaceInv, FrameInv, ClearInv, TapeInv, Undecided, Reloading
<1>9. LivesInv'
  BY <1>1, <1>2, <1>4 DEF LivesInv, Undecided
<1> QED BY <1>5, <1>6, <1>7, <1>8, <1>9

(* apply_clear puts everybody in play.                                     *)
LEMMA CelebratingRecord ==
  ASSUME NEW r \in PlayerRecord
  PROVE  /\ Celebrating(r) \in PlayerRecord /\ Celebrating(r).life = "PLAYING"
         /\ Celebrating(r).connected = r.connected
<1>1. PICK x \in Power : x = IF r.life \in {"DYING", "DEATH_BUBBLE"} THEN "SMALL" ELSE r.power
  BY DEF PlayerRecord, Power
<1>2. PICK y \in Mount \cup {NoEntity} : y = IF r.life = "PLAYING" THEN r.mount ELSE NoEntity
  BY DEF PlayerRecord
<1>3. PICK z \in Object \cup {NoEntity} : z = IF r.life = "PLAYING" THEN r.held ELSE NoEntity
  BY DEF PlayerRecord
<1> DEFINE u == [r EXCEPT !.life = "PLAYING", !.recovery = 0, !.separation = 0,
                          !.upgrade = FALSE, !.power = x, !.star = 0, !.protection = 0,
                          !.mount = y, !.held = z]
<1>4. Celebrating(r) = u
  BY <1>1, <1>2, <1>3 DEF Celebrating
<1>5. u \in PlayerRecord
  BY DEF PlayerRecord, Life
<1>6. u.life = "PLAYING" /\ u.connected = r.connected
  BY DEF PlayerRecord
<1> HIDE DEF u
<1> QED BY <1>4, <1>5, <1>6

LEMMA ApplyClearStep ==
  ASSUME TeamInv, ApplyClear PROVE TeamInv'
<1> USE DEF TeamInv
<1>1. /\ phase = "apply" /\ phase' = "close" /\ ending' = TRUE
      /\ UNCHANGED <<lives, outcome, checkpoint, advancing, blocked, resolved, events, actions,
                     charged, mode, entered, sublevel, todo, request, paused, counter, midway,
                     flag, ledger, aborted>>
  BY DEF ApplyClear, place, guest, frame
<1>2. /\ players' \in [Player -> PlayerRecord]
      /\ \A p \in Player : players'[p].connected /\ players'[p].life = "PLAYING"
  BY CelebratingRecord DEF ApplyClear, TeamTypeOK, TypeOK, FrameInv
<1>3. Active' = Player /\ TeamDeath' = TeamDeath /\ JustFailed' = JustFailed
  BY <1>1, <1>2 DEF Active, TeamDeath, JustFailed
<1>4. animation' \in [Player -> Poised] /\ timer' \in [Player -> 0..DeathTicks]
  BY Amounts DEF ApplyClear, VictoryPose, Poised
<1>5. TypeOK' /\ SomeoneActive' /\ OneLifePerAttempt'
  BY <1>1, <1>2, <1>3, PlayerNat DEF TeamTypeOK, TypeOK, SomeoneActive, OneLifePerAttempt
<1>6. TeamTypeOK'
  BY <1>1, <1>4, <1>5 DEF TeamTypeOK
<1>7. PlaceInv' /\ FrameInv' /\ ClearInv' /\ TapeInv'
  BY <1>1, <1>2, <1>3 DEF PlaceInv, FrameInv, ClearInv, TapeInv, Undecided, Reloading
<1>8. LivesInv'
  BY <1>1, <1>3 DEF LivesInv, Undecided
<1> QED BY <1>5, <1>6, <1>7, <1>8

LEMMA CloseStep ==
  ASSUME TeamInv, Close PROVE TeamInv'
<1> USE DEF TeamInv
<1> DEFINE struck == IF JustFailed THEN Active ELSE {}
           over == TeamDeath /\ \A p \in Player : players'[p].life # "DYING"
           retry == over /\ outcome = "RETRY"
<1>1. /\ phase = "close" /\ phase' = "idle"
      /\ UNCHANGED <<lives, outcome, checkpoint, advancing, blocked, resolved, events, actions,
                     charged, entered, todo, request, paused, ending, midway, ledger, aborted>>
      /\ counter' = IF TeamDeath THEN LivesByte ELSE counter
      /\ mode' = IF ~over THEN mode ELSE IF retry THEN "fade" ELSE "gameover"
      /\ flag' = (flag \/ (retry /\ midway)) /\ sublevel' = (sublevel /\ ~retry)
  BY DEF Close, frame, Published
<1>2. TeamDeath' = TeamDeath /\ JustFailed' = JustFailed
  BY <1>1 DEF TeamDeath, JustFailed
<1>3. entered /\ lives = ledger /\ ledger \in 0..MaxLives
  BY <1>1 DEF PlaceInv, LivesInv
<1>4. /\ players' \in [Player -> PlayerRecord]
      /\ \A p \in Player : players'[p].connected
      /\ ~TeamDeath => players' = players
  <2>0. players \in [Player -> PlayerRecord] /\ \A p \in Player : players[p].connected
    BY DEF TeamTypeOK, TypeOK, FrameInv
  <2>1. players' = [p \in Player |-> IF p \in struck
                       THEN [players[p] EXCEPT !.life = "DYING", !.power = "SMALL", !.star = 0]
                       ELSE players[p]]
    BY DEF Close
  <2>2. ~TeamDeath => struck = {}
    BY <1>1 DEF FrameInv
  <2>3. ASSUME NEW r \in PlayerRecord
        PROVE  LET u == [r EXCEPT !.life = "DYING", !.power = "SMALL", !.star = 0]
               IN  u \in PlayerRecord /\ u.connected = r.connected
    BY DEF PlayerRecord, Life, Power
  <2> HIDE DEF struck
  <2> QED BY <2>0, <2>1, <2>2, <2>3
<1>5. animation' \in [Player -> Poised] /\ timer' \in [Player -> 0..DeathTicks]
  <2>1. /\ animation' = [p \in Player |-> IF p \in struck THEN "dying" ELSE animation[p]]
        /\ timer' = [p \in Player |-> IF p \in struck THEN DeathTicks ELSE timer[p]]
    BY DEF Close
  <2> HIDE DEF struck
  <2>2. animation' \in [Player -> Poised]
    BY <2>1 DEF TeamTypeOK, Poised
  <2>3. timer' \in [Player -> 0..DeathTicks]
    BY <2>1, Amounts DEF TeamTypeOK
  <2> QED BY <2>2, <2>3
<1>6. (lives + 255) % 256 = LivesByte
  BY DEF LivesByte
<1>7. counter' \in 0..255
  BY <1>1, <1>3, Amounts DEF LivesByte, TeamTypeOK
<1>8. over \in BOOLEAN /\ retry \in BOOLEAN /\ (over => TeamDeath)
      /\ (retry <=> over /\ outcome = "RETRY")
  OBVIOUS
<1> HIDE DEF over, retry, struck
<1>9. TypeOK' /\ SomeoneActive' /\ OneLifePerAttempt'
  BY <1>1, <1>4 DEF TeamTypeOK, TypeOK, SomeoneActive, Active, OneLifePerAttempt, TeamDeath
<1>10. TeamTypeOK'
  <2>1. flag' \in BOOLEAN /\ sublevel' \in BOOLEAN
    BY <1>1
  <2>2. mode' \in {"level", "fade", "gameover", "map"}
    BY <1>1, <1>8 DEF TeamTypeOK
  <2> QED BY <1>1, <1>5, <1>7, <1>9, <2>1, <2>2 DEF TeamTypeOK
<1>11. PlaceInv'
  BY <1>1, <1>2, <1>8 DEF PlaceInv, TeamDeath, Undecided
<1>12. FrameInv' /\ ClearInv'
  BY <1>1, <1>4 DEF FrameInv, ClearInv, Active, Undecided, TeamDeath
<1>13. TapeInv'
  BY <1>1, <1>3, <1>8 DEF TapeInv, Reloading
<1>14. LivesInv'
  BY <1>1, <1>2, <1>3, <1>6 DEF LivesInv
<1> QED BY <1>9, <1>10, <1>11, <1>12, <1>13, <1>14

LEMMA RoutineStep ==
  ASSUME TeamInv, NEW p \in Player, Routine(p) PROVE TeamInv'
BY MoveStep, OneUpStep, KillStep, DeathTickStep, RoomRequestStep, TouchTapeStep, TouchGoalStep
   DEF Routine

LEMMA IdleTeam ==
  ASSUME TeamInv, UNCHANGED teamVars PROVE TeamInv'
<1> USE DEF TeamInv
<1>1. UNCHANGED vars /\ UNCHANGED <<phase, mode, entered, sublevel, animation, timer, todo, request,
                                    paused, ending, counter, midway, flag, ledger, aborted>>
  BY DEF teamVars, place, images, guest
<1>2. TeamTypeOK'
  BY <1>1, Unseen DEF TeamTypeOK
<1> QED BY <1>1, <1>2, Unseen DEF PlaceInv, FrameInv, LivesInv, ClearInv, TapeInv, Undecided,
           Reloading

LEMMA TeamStep == TeamInv /\ [TeamNext]_teamVars => TeamInv'
<1> SUFFICES ASSUME TeamInv, [TeamNext]_teamVars PROVE TeamInv'
  OBVIOUS
<1>1. CASE InitializeRoom \/ Begin \/ RoutinesDone \/ LeaveCourse \/ ResolveFrame \/ ApplyClear
           \/ ChangeRoom \/ Proceed \/ Close
  BY <1>1, InitializeRoomStep, BeginStep, RoutinesDoneStep, LeaveCourseStep, ResolveFrameStep,
     ApplyClearStep, ChangeRoomStep, ProceedStep, CloseStep
<1>2. CASE \/ \E start \in BOOLEAN : Paused(start)
           \/ \E start, frozen \in BOOLEAN : Stage(start, frozen)
           \/ \E p \in Player : Routine(p)
           \/ \E scripted \in BOOLEAN : ReadBackLives(scripted)
  BY <1>2, PauseStep, StageStep, RoutineStep, ReadBackLivesStep
<1>3. CASE \E outside \in SUBSET Active, leader \in Active \cup {NoPlayer}, resized \in BOOLEAN :
             SeparateFrame(outside, leader, resized)
  BY <1>3, SeparateFrameStep
<1>4. CASE \E returning \in SUBSET Waiting : \E anchor \in [returning -> Anchors(returning)] :
             RecoverFrame(anchor)
  BY <1>4, RecoverFrameStep
<1>5. CASE \/ \E pose \in {"free", "scene"} : LoadRoom(pose)
           \/ \E pose \in {"free", "scene"}, reached \in BOOLEAN : NewCourse(pose, reached)
  BY <1>5, LoadRoomStep, NewCourseStep
<1>6. CASE UNCHANGED teamVars
  BY <1>6, IdleTeam
<1> QED BY <1>1, <1>2, <1>3, <1>4, <1>5, <1>6 DEF TeamNext

-----------------------------------------------------------------------------
(* The invariant holds in every state of the adapter and its guest.        *)
THEOREM TeamInvariant == TeamSpec => []TeamInv
BY TeamStarts, TeamStep, PTL DEF TeamSpec

(* What the team has between two frames: no refused event ends the         *)
(* program, the guest's counter is what the team is entitled to, a clear   *)
(* has everybody in play, and somebody always plays                        *)
(* (coop_simulation.c, SmwCoopSimulationBegin and End).                    *)
THEOREM TeamIsKept == TeamSpec => []TeamKept
<1>1. TeamInv => TeamKept
  <2> SUFFICES ASSUME TeamInv PROVE TeamKept
    OBVIOUS
  <2> USE DEF TeamInv
  <2>1. NeverAborts
    BY DEF NeverAborts, FrameInv
  <2>2. GuestLivesMatch
    <3> SUFFICES ASSUME phase = "idle"
                 PROVE  /\ counter = (ledger + 255) % 256
                        /\ TeamDeath /\ entered => lives = ledger
                        /\ lives <= MaxLives
      BY DEF GuestLivesMatch
    <3>1. counter = (ledger + 255) % 256
      <4>1. CASE TeamDeath
        BY <4>1 DEF LivesInv
      <4>2. CASE ~TeamDeath
        BY <4>2, Amounts, Modulo DEF LivesInv
      <4> QED BY <4>1, <4>2
    <3>2. lives <= MaxLives
      BY Amounts DEF LivesInv
    <3> QED BY <3>1, <3>2 DEF LivesInv
  <2>3. ClearKeepsEveryone
    <3>1. charged \in Nat /\ charged <= 1
      BY DEF TeamTypeOK, TypeOK, OneLifePerAttempt
    <3> QED BY <3>1 DEF ClearKeepsEveryone, ClearInv, OneLifePerAttempt
  <2> QED BY <2>1, <2>2, <2>3 DEF TeamKept
<1> QED BY TeamInvariant, <1>1, PTL

(* A checkpoint the team has reached survives the retry: what the guest    *)
(* loads the room from is what the session remembers (initialize_room).    *)
THEOREM CheckpointIsKept == TeamSpec => CheckpointKept
<1>1. TeamInv /\ [TeamNext]_teamVars =>
        [outcome = "RETRY" /\ outcome' = "CONTINUE" /\ checkpoint # 0 =>
           checkpoint' = checkpoint]_teamVars
  <2> SUFFICES ASSUME TeamInv, TeamNext, outcome = "RETRY", outcome' = "CONTINUE", checkpoint # 0
               PROVE  checkpoint' = checkpoint
    OBVIOUS
  <2>1. CASE InitializeRoom
    BY <2>1 DEF InitializeRoom, TeamInv, TapeInv, Reloading
  <2>2. CASE ~InitializeRoom
    <3>1. ASSUME NEW adv \in BOOLEAN, BeginFrame(adv) PROVE outcome' = outcome
      BY <3>1 DEF BeginFrame
    <3>2. ~Resolve /\ \A outside, leader, resized : ~Separate(outside, leader, resized)
      BY DEF Resolve, Separate
    <3>3. \A anchor : ~Recover(anchor)
      BY DEF Recover
    <3>4. UNCHANGED vars => outcome' = outcome
      BY DEF vars
    <3>5. UNCHANGED core => outcome' = outcome
      BY DEF core
    <3>6. outcome' = outcome
      <4>1. CASE \/ Begin \/ RoutinesDone \/ LeaveCourse \/ ResolveFrame \/ ApplyClear \/ ChangeRoom
                 \/ Proceed \/ Close
        BY <4>1, <3>1, <3>2, <3>4 DEF Begin, RoutinesDone, LeaveCourse, ResolveFrame, ApplyClear,
                                      ChangeRoom, Proceed, Close
      <4>2. ASSUME NEW start \in BOOLEAN, NEW frozen \in BOOLEAN, Stage(start, frozen)
            PROVE  outcome' = outcome
        <5>1. (~Scene /\ ~frozen) \in BOOLEAN
          OBVIOUS
        <5> QED BY <3>1, <4>2, <5>1 DEF Stage
      <4>3. ASSUME NEW p \in Player, Routine(p) PROVE outcome' = outcome
        BY <4>3, <3>4, <3>5 DEF Routine, Move, OneUp, Kill, DeathTick, RoomRequest, TouchTape,
                                TouchGoal
      <4>4. CASE \/ \E start \in BOOLEAN : Paused(start)
                 \/ \E scripted \in BOOLEAN : ReadBackLives(scripted)
        BY <4>4, <3>4 DEF Paused, ReadBackLives
      <4>5. CASE \/ \E pose \in {"free", "scene"} : LoadRoom(pose)
                 \/ \E pose \in {"free", "scene"}, reached \in BOOLEAN : NewCourse(pose, reached)
        BY <4>5, <3>4 DEF LoadRoom, NewCourse
      <4> QED BY <2>2, <3>2, <3>3, <4>1, <4>2, <4>3, <4>4, <4>5
              DEF TeamNext, SeparateFrame, RecoverFrame
    <3> QED BY <3>6
  <2> QED BY <2>1, <2>2
<1> QED BY TeamInvariant, <1>1, PTL DEF TeamSpec, CheckpointKept
-----------------------------------------------------------------------------
(* The sprites' side: the three rooms of CoopRooms, of which               *)
(* CoopEntitiesProofs says what it says of any room.                       *)
RoomsInv ==
  /\ view \in {"travel", "tied", "cap", "team"}
  /\ view = "travel" => Travel!EntityInv
  /\ view = "tied"   => Tied!EntityInv
  /\ view = "cap"    => Cap!EntityInv
  /\ view = "team"   => e_phase = Away

(* The bench begins with it.                                               *)
LEMMA RoomsBegin == RoomInit => RoomsInv
<1>1. Travel!Init => Travel!EntityInv
  BY RoomsAssumption, Travel!InitEntityInv
<1>2. Tied!Init => Tied!EntityInv
  BY RoomsAssumption, Tied!InitEntityInv
<1>3. Cap!Init => Cap!EntityInv
  BY RoomsAssumption, Cap!InitEntityInv
<1> QED BY <1>1, <1>2, <1>3 DEF RoomInit, RoomsInv

(* Every step of the bench keeps it.                                       *)
LEMMA RoomsStep ==
  ASSUME RoomsInv, [RoomNext]_<<view, teamVars, entityVars>> PROVE RoomsInv'
<1>1. view' = view
  BY DEF RoomNext, TeamRuns
<1>2. ASSUME view = "travel" PROVE Travel!EntityInv'
  <2>1. Travel!EntityInv
    BY <1>2 DEF RoomsInv
  <2>2. Travel!Next \/ UNCHANGED entityVars
    BY <1>2 DEF RoomNext, TeamRuns
  <2>3. [Travel!Next]_(Travel!vars)
    BY <2>2 DEF entityVars, Travel!vars
  <2> QED BY <2>1, <2>3, Travel!NextKeeps
<1>3. ASSUME view = "tied" PROVE Tied!EntityInv'
  <2>1. Tied!EntityInv
    BY <1>3 DEF RoomsInv
  <2>2. Tied!Next \/ UNCHANGED entityVars
    BY <1>3 DEF RoomNext, TeamRuns
  <2>3. [Tied!Next]_(Tied!vars)
    BY <2>2 DEF entityVars, Tied!vars
  <2> QED BY <2>1, <2>3, Tied!NextKeeps
<1>4. ASSUME view = "cap" PROVE Cap!EntityInv'
  <2>1. Cap!EntityInv
    BY <1>4 DEF RoomsInv
  <2>2. Cap!Next \/ UNCHANGED entityVars
    BY <1>4 DEF RoomNext, TeamRuns
  <2>3. [Cap!Next]_(Cap!vars)
    BY <2>2 DEF entityVars, Cap!vars
  <2> QED BY <2>1, <2>3, Cap!NextKeeps
<1>5. ASSUME view = "team" PROVE e_phase' = Away
  BY <1>5 DEF RoomsInv, RoomNext, TeamRuns, entityVars
<1> QED BY <1>1, <1>2, <1>3, <1>4, <1>5 DEF RoomsInv

(* The invariant holds always.                                             *)
LEMMA RoomsKeep == RoomSpec => []RoomsInv
<1>1. RoomsInv /\ [RoomNext]_<<view, teamVars, entityVars>> => RoomsInv'
  BY RoomsStep
<1> QED BY RoomsBegin, <1>1, PTL DEF RoomSpec

(* Whatever is spawned, claimed, dropped, killed, cleared, parked or       *)
(* carried along, entities_valid accepts the machine wherever it can be    *)
(* saved, and no Die() is reached, for any number of players and slots.    *)
THEOREM RoomsKeepEntities == RoomSpec => []EntitiesKept
<1>1. RoomsInv => EntitiesKept
  BY Travel!InvKept, Tied!InvKept, Cap!InvKept DEF RoomsInv, EntitiesKept
<1> QED BY <1>1, RoomsKeep, PTL

(* Eggs, babies, Yoshis and stored mounts together are never more than the *)
(* players, and a placed egg's source grants no more than one for each     *)
(* (mount_count at each grant, replenish_placed_eggs).                     *)
THEOREM RoomsBoundYoshis == RoomSpec => []YoshisBounded
<1>1. RoomsInv => YoshisBounded
  BY Travel!InvBounded, Cap!InvBounded DEF RoomsInv, YoshisBounded
<1> QED BY <1>1, RoomsKeep, PTL

(* A room change, with every mount parked and spawned again and every      *)
(* carried sprite moved, leaves each player the mount it had, and within   *)
(* the course the object it held (carry_through_room, load_room_sprites).  *)
THEOREM RoomsLoseNobody == RoomSpec => IdentitiesSurviveRooms
<1> DEFINE Survive == e_phase = "load" => \A p \in Travel!Player :
              /\ Travel!MountOf(e_machine', p) = Travel!MountOf(e_machine, p)
              /\ e_outcome = "CONTINUE" => e_machine'.held[p] = e_machine.held[p]
<1>1. RoomsInv /\ [RoomNext]_<<view, teamVars, entityVars>> => [Survive]_(Travel!vars)
  <2> SUFFICES ASSUME RoomsInv, [RoomNext]_<<view, teamVars, entityVars>>,
                      Travel!vars' # Travel!vars
               PROVE  Survive
    OBVIOUS
  <2>1. entityVars' # entityVars
    BY DEF entityVars, Travel!vars
  <2>2. CASE view = "travel" /\ Travel!Next
    BY <2>2, Travel!StepSurvives DEF RoomsInv
  <2>3. CASE view = "tied" /\ Tied!Next
    BY <2>3, Tied!StepSurvives DEF RoomsInv, Tied!MountOf, Travel!MountOf, Tied!NoId, Travel!NoId,
                                   Tied!Player, Travel!Player
  <2>4. CASE view = "cap" /\ Cap!Next
    BY <2>4, Cap!StepSurvives DEF RoomsInv, Cap!MountOf, Travel!MountOf, Cap!NoId, Travel!NoId,
                                  Cap!Player, Travel!Player
  <2> QED BY <2>1, <2>2, <2>3, <2>4 DEF RoomNext, TeamRuns
<1> QED BY <1>1, RoomsKeep, PTL DEF RoomSpec, IdentitiesSurviveRooms, Travel!IdentitiesSurviveRooms
=============================================================================
