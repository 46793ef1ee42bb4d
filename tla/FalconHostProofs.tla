-------------------------- MODULE FalconHostProofs --------------------------
(* What Captain Falcon may do to SMW's sprites and to SMW's own timers, for *)
(* any number of sprite slots and whatever stands in them, any length of a *)
(* departure and any grace after a dive.                                   *)
EXTENDS FalconHost, TLAPS

-----------------------------------------------------------------------------
(* The inductive invariant.                                                *)

PlayerSeams == {"frame", "D5F2", "DC2D", "body"}

Seams == {<<n, 0>> : n \in PlayerSeams} \cup {<<n, k>> : n \in {"80D2", "contact"}, k \in Slots}

Hosts ==
  [pending : BOOLEAN, departure : 0 .. MaxDeparture, armed : BOOLEAN, consumed : BOOLEAN,
   stomp_guard : BOOLEAN, impact : SUBSET Slots, impact_guard : BOOLEAN,
   catch : SUBSET Slots, catch_guard : BOOLEAN, grace : 0 .. DiveGrace, iframes : BOOLEAN,
   dive_guard : BOOLEAN, stamped : BOOLEAN, move : Moves,
   att : {"none", "strike", "catch"}]

Ledgers ==
  [move : Moves \cup {"none"}, active : BOOLEAN, hit : SUBSET Slots, new : SUBSET Slots,
   latch : Slots \cup {NoSlot}, id : Kinds \cup {"none"}]

Guests ==
  [phase : Phases, air : BOOLEAN, timer : 0 .. 3,
   by : {"none", "native", "bridge", "title", "wall"}]

Fighters == [move : Moves, fresh : BOOLEAN]

Histories ==
  [owed : {<<>>} \cup Slots \X (Kinds \cup {"none"}), served : 0 .. 1, bounces : 0 .. 1,
   rescued : BOOLEAN]

HostTypes ==
  /\ seam \in Seams
  /\ g \in Guests
  /\ spr \in [Slots -> Kinds]
  /\ own \in {"none", "scripted", "foreign"}
  /\ f \in Fighters
  /\ h \in Hosts
  /\ ledger \in Ledgers
  /\ ghost \in Histories

(* A commit stamps the frame; a bounce spends what the tick armed, and only *)
(* the next tick arms it again.                                            *)
CountInv ==
  /\ ghost.served = 1 => h.stamped
  /\ At("body") => ghost.bounces = 0
  /\ ghost.bounces = 1 => ~h.armed /\ (h.consumed \/ At("DC2D"))

(* The latch holds the catch that is owed, by slot and by kind.            *)
LatchInv ==
  ghost.owed = IF ledger.latch = NoSlot THEN <<>> ELSE <<ledger.latch, ledger.id>>

Guards == h.stomp_guard \/ h.dive_guard \/ h.impact_guard \/ h.catch_guard

(* A guard never stands behind a timer of SMW's that it could lift: only   *)
(* behind the 3 of a power-down, until the next D5F2 has dropped it.       *)
TimerInv ==
  /\ g.by = "bridge" => g.timer <= 1
  /\ g.by = "native" => g.timer >= 1
  /\ g.timer >= 2 => g.by = "native"
  /\ g.timer = 3 => playable /\ ~At("D5F2") /\ ~At("DC2D") /\ ~At("body")
  /\ g.by = "native" /\ Guards => g.timer = 3 \/ (g.timer = 2 /\ At("D5F2") /\ playable)

(* Mario has none of it.                                                   *)
MarioInv ==
  ~Active => ~Guards /\ h.impact = {} /\ h.catch = {} /\ ~h.iframes /\ ~h.pending

(* What the fighter's class says of the move the host last took from it.   *)
MoveInv ==
  /\ f.fresh => f.move = "throw" /\ h.att = "none" /\ ~impact_guard_state(h.move)
  /\ h.att = "catch" => f.move # "kickair"

(* The ledger still holds the move whose slots were accepted: not while a  *)
(* frame begins, and not for slots a sprite pass is about to forget.       *)
Settled ==
  /\ ~ghost.rescued /\ ~At("D5F2") /\ ~At("DC2D")
  /\ At("80D2") => playable /\ Foreign

Empty == h.impact = {} /\ h.catch = {}

(* The slots a guard may protect are slots the move took.                  *)
AcceptedInv ==
  /\ At("body") => Active
  /\ ~ghost.rescued /\ (At("body") \/ (At("DC2D") /\ playable)) => Empty
  /\ Settled => h.impact \cup h.catch \subseteq ledger.hit \cup {ledger.latch}
  /\ Settled /\ f.fresh => Empty
  /\ Settled /\ h.pending /\ f.move = "kickair" => h.catch = {}

(* What stands behind a timer the bridge installed.                        *)
GuardInv ==
  /\ g.timer = 1 /\ g.by = "bridge" =>
       /\ ~At("D5F2") /\ ~At("DC2D") /\ ~At("body")
       /\ h.iframes \/ h.dive_guard \/ h.consumed \/ h.impact_guard \/ h.catch_guard
  /\ At("contact") /\ ~ghost.rescued /\ (h.impact_guard \/ h.catch_guard) =>
       seam[2] \in ledger.hit \cup {ledger.latch}

HostInv ==
  /\ HostTypes /\ CountInv /\ LatchInv /\ TimerInv /\ MarioInv /\ MoveInv
  /\ AcceptedInv /\ GuardInv

-----------------------------------------------------------------------------
(* The constants, the seams and the classes of a move.                     *)

LEMMA Amounts ==
  /\ NSlots \in Nat /\ NSlots > 0 /\ 0 \in Slots /\ NoSlot \notin Slots
  /\ MaxDeparture \in Nat /\ MaxDeparture > 0
  /\ DiveGrace \in Nat /\ DiveGrace > 0
BY SlotsAssumption, BoundsAssumption DEF Slots, NoSlot

(* Each seam is one place of the frame, and a pass stays within the slots. *)
LEMMA SeamPlaces ==
  /\ \A n \in PlayerSeams : <<n, 0>> \in Seams
  /\ \A n \in {"80D2", "contact"}, k \in Slots : <<n, k>> \in Seams
  /\ \A x \in Seams : /\ x[1] \in PlayerSeams \cup {"80D2", "contact"}
                      /\ x[1] \in {"80D2", "contact"} => x[2] \in Slots
<1>1. \A n \in PlayerSeams : <<n, 0>> \in Seams
  BY DEF Seams
<1>2. \A n \in {"80D2", "contact"}, k \in Slots : <<n, k>> \in Seams
  BY DEF Seams
<1>3. ASSUME NEW x \in Seams
      PROVE  /\ x[1] \in PlayerSeams \cup {"80D2", "contact"}
             /\ x[1] \in {"80D2", "contact"} => x[2] \in Slots
  <2>1. CASE \E n \in PlayerSeams : x = <<n, 0>>
    BY <2>1 DEF PlayerSeams
  <2>2. CASE \E n \in {"80D2", "contact"}, k \in Slots : x = <<n, k>>
    BY <2>2
  <2> QED BY <2>1, <2>2 DEF Seams
<1> QED BY <1>1, <1>2, <1>3

LEMMA NextPlace ==
  ASSUME NEW k \in Slots, NextSlot(k)
  PROVE  seam' \in Seams /\ (seam'[1] = "frame" \/ seam'[1] = "80D2")
<1>1. CASE k = NSlots - 1
  BY <1>1, SeamPlaces DEF NextSlot, Goto, PlayerSeams
<1>2. CASE k # NSlots - 1
  <2>1. k + 1 \in Slots
    BY <1>2, Amounts DEF Slots
  <2> QED BY <1>2, <2>1, SeamPlaces DEF NextSlot, Goto
<1> QED BY <1>1, <1>2

(* A tick or a collision result leads to a class again.                    *)
LEMMA TickClasses ==
  ASSUME NEW m \in Moves, NEW n \in TickMoves(m)
  PROVE  n \in Moves /\ (n = "throw" => m \in {"catch", "throw"})
BY StartsAssumption DEF TickMoves, Moves, Classes

(* No result makes an aerial kick or a throw.                              *)
LEMMA ResolveClasses ==
  ASSUME NEW m \in Moves, NEW hit, NEW n \in ResolveMoves(m, hit)
  PROVE  n \in Moves /\ (n = m \/ n \in {"catch", "idle", "run"})
BY DEF ResolveMoves, Moves, Classes

LEMMA Resolved ==
  ASSUME NEW x \in Fighters, NEW hit, NEW y \in foreign_resolve(x, hit)
  PROVE  /\ y \in Fighters
         /\ y = x \/ (~y.fresh /\ y.move \in {"catch", "idle", "run"})
<1>1. CASE ~Foreign
  BY <1>1 DEF foreign_resolve
<1>2. CASE Foreign
  <2>1. PICK m \in ResolveMoves(x.move, hit) : y = IF m = x.move THEN x ELSE Fighter(m, FALSE)
    BY <1>2 DEF foreign_resolve
  <2>2. m \in Moves /\ (m = x.move \/ m \in {"catch", "idle", "run"})
    BY ResolveClasses DEF Fighters
  <2> QED BY <2>1, <2>2 DEF Fighter, Fighters
<1> QED BY <1>1, <1>2

LEMMA Ticked ==
  ASSUME NEW x \in Fighters, NEW t \in foreign_tick(x)
  PROVE  /\ t.f \in Fighters /\ t.att \in {"none", "strike", "catch"}
         /\ t.f.fresh => t.f.move = "throw" /\ t.att = "none"
         /\ t.att = "catch" => t.f.move = "dive"
<1>1. PICK m \in TickMoves(x.move) :
        \E a \in IF m = x.move THEN Attacks(m) ELSE {"none"} :
          t = [f |-> Fighter(m, m = "throw" /\ x.move # m), att |-> a]
  BY DEF foreign_tick
<1>2. PICK a \in IF m = x.move THEN Attacks(m) ELSE {"none"} :
        t = [f |-> Fighter(m, m = "throw" /\ x.move # m), att |-> a]
  BY <1>1
<1>3. m \in Moves
  BY TickClasses DEF Fighters
<1>4. /\ a \in {"none", "strike", "catch"}
      /\ a = "catch" => m = "dive"
      /\ m # x.move => a = "none"
  BY <1>2 DEF Attacks
<1> QED BY <1>2, <1>3, <1>4 DEF Fighter, Fighters

-----------------------------------------------------------------------------
(* The combat ledger.                                                      *)

(* A ledger is never given slots it did not take, and loses its latch only *)
(* when it is emptied.                                                     *)
LEMMA LedgerUpdated ==
  ASSUME NEW l \in Ledgers, NEW m \in Moves \cup {"none"}, NEW active \in BOOLEAN,
         NEW u, u = combat_ledger_update(l, m, active)
  PROVE  /\ u \in Ledgers
         /\ u.hit \subseteq l.hit
         /\ u.latch = NoSlot \/ (u.latch = l.latch /\ u.id = l.id)
         /\ ~active /\ m = "none" => u.latch = NoSlot
<1>1. NoLedger \in Ledgers /\ NoLedger.hit = {} /\ NoLedger.latch = NoSlot
  BY DEF NoLedger, Ledgers, Slots
<1>2. CASE ~active /\ l.latch # NoSlot /\ m \in {"catch", "throw"}
  <2>1. u = [l EXCEPT !.active = TRUE, !.move = m]
    BY <1>2 DEF combat_ledger_update
  <2> QED BY <1>2, <2>1 DEF Ledgers
<1>3. CASE ~active /\ ~(l.latch # NoSlot /\ m \in {"catch", "throw"})
  BY <1>1, <1>3 DEF combat_ledger_update, Ledgers
<1>4. CASE active /\ (~l.active \/ l.move # m)
  <2>1. u = [NoLedger EXCEPT !.active = TRUE, !.move = m]
    BY <1>4 DEF combat_ledger_update
  <2>2. u \in Ledgers /\ u.hit = {} /\ u.latch = NoSlot
    BY <2>1, <1>1 DEF Ledgers, NoLedger
  <2> QED BY <1>4, <2>2
<1>5. CASE active /\ l.active /\ l.move = m
  BY <1>5 DEF combat_ledger_update
<1> QED BY <1>2, <1>3, <1>4, <1>5

(* A dive that turns into its catch keeps what it latched.                 *)
LEMMA LedgerCaught ==
  ASSUME NEW l \in Ledgers, l.latch # NoSlot,
         NEW u, u = combat_ledger_update(l, "catch", FALSE)
  PROVE  u \in Ledgers /\ u.hit = l.hit /\ u.latch = l.latch /\ u.id = l.id
<1>1. u = [l EXCEPT !.active = TRUE, !.move = "catch"]
  BY DEF combat_ledger_update
<1>2. u \in Ledgers
  BY <1>1 DEF Ledgers, Moves
<1> QED BY <1>1, <1>2 DEF Ledgers

(* What a seam's combat leaves of a ledger that keeps its latch: slots are *)
(* added, and a latch is set on what stands in its slot.                   *)
Extends(l, n) ==
  /\ l.hit \subseteq n.hit
  /\ l.latch # NoSlot => n.latch = l.latch /\ n.id = l.id
  /\ l.latch = NoSlot /\ n.latch # NoSlot => n.id = spr[n.latch]

LEMMA Latched ==
  ASSUME HostTypes, NEW l \in Ledgers, NEW o \in latch_dive_target([l EXCEPT !.new = {}])
  PROVE  /\ o.l \in Ledgers /\ o.spr \in [Slots -> Kinds] /\ o.connected \in BOOLEAN
         /\ Extends(l, o.l)
         /\ o.contact => o.l.new \subseteq {o.l.latch} /\ o.connected
         /\ o.connected => o.l.latch # NoSlot
<1> DEFINE l0 == [l EXCEPT !.new = {}]
<1>1. l0 \in Ledgers /\ l0.hit = l.hit /\ l0.latch = l.latch /\ l0.id = l.id /\ l0.new = {}
  BY DEF Ledgers
<1> HIDE DEF l0
<1>2. CASE o = Outcome(l0, spr, FALSE, FALSE)
  BY <1>1, <1>2 DEF Outcome, Extends, HostTypes
<1>3. CASE l0.latch = NoSlot /\ \E k \in Slots :
             /\ sprite_is_dive_catch_target(spr[k])
             /\ o = Outcome([l0 EXCEPT !.latch = k, !.id = spr[k], !.new = @ \cup {k}],
                            spr, TRUE, TRUE)
  <2>1. PICK k \in Slots :
          o = Outcome([l0 EXCEPT !.latch = k, !.id = spr[k], !.new = @ \cup {k}],
                      spr, TRUE, TRUE)
    BY <1>3
  <2> DEFINE n == [l0 EXCEPT !.latch = k, !.id = spr[k], !.new = @ \cup {k}]
  <2>2. spr[k] \in Kinds
    BY DEF HostTypes
  <2>3. n \in Ledgers /\ n.hit = l.hit /\ n.latch = k /\ n.id = spr[k] /\ n.new = {k}
    BY <1>1, <2>2 DEF Ledgers
  <2>4. o.l = n /\ o.spr = spr /\ o.connected
    BY <2>1 DEF Outcome
  <2> HIDE DEF n
  <2> QED BY <1>1, <1>3, <2>3, <2>4, Amounts DEF Extends, HostTypes
<1> QED BY <1>2, <1>3 DEF latch_dive_target, l0

LEMMA Struck ==
  ASSUME HostTypes, NEW l \in Ledgers, NEW o \in apply_sprite_targets([l EXCEPT !.new = {}])
  PROVE  /\ o.l \in Ledgers /\ o.spr \in [Slots -> Kinds] /\ o.connected \in BOOLEAN
         /\ Extends(l, o.l)
         /\ o.l.new \subseteq o.l.hit
<1> DEFINE l0 == [l EXCEPT !.new = {}]
<1>1. l0 \in Ledgers /\ l0.hit = l.hit /\ l0.latch = l.latch /\ l0.id = l.id
  BY DEF Ledgers
<1> HIDE DEF l0
<1>2. PICK taken \in SUBSET Slots, slain \in SUBSET Slots :
        o = Outcome([l0 EXCEPT !.hit = @ \cup taken, !.new = taken],
                    [k \in Slots |-> IF k \in slain THEN "inert" ELSE spr[k]], TRUE, TRUE)
  <2> DEFINE open == {k \in Slots \ l0.hit : sprite_target_consequence(spr[k])}
             Strike(taken, slain) ==
               Outcome([l0 EXCEPT !.hit = @ \cup taken, !.new = taken],
                       [k \in Slots |-> IF k \in slain THEN "inert" ELSE spr[k]], TRUE, TRUE)
  <2>0. o \in UNION {{Strike(taken, slain) : slain \in SUBSET taken} : taken \in SUBSET open \ {{}}}
    BY DEF apply_sprite_targets, l0
  <2> HIDE DEF Strike
  <2>1. PICK taken \in SUBSET open : \E slain \in SUBSET taken : o = Strike(taken, slain)
    BY <2>0
  <2>2. \A slain \in SUBSET taken : slain \in SUBSET Slots
    OBVIOUS
  <2> QED BY <2>1, <2>2 DEF Strike
<1>3. [k \in Slots |-> IF k \in slain THEN "inert" ELSE spr[k]] \in [Slots -> Kinds]
  BY DEF HostTypes, Kinds
<1> DEFINE n == [l0 EXCEPT !.hit = @ \cup taken, !.new = taken]
<1>4. /\ n \in Ledgers /\ n.hit = l.hit \cup taken /\ n.new = taken
      /\ n.latch = l.latch /\ n.id = l.id
  BY <1>1 DEF Ledgers
<1> HIDE DEF n
<1>5. o.l = n /\ o.spr = [k \in Slots |-> IF k \in slain THEN "inert" ELSE spr[k]] /\ o.connected
  BY <1>2 DEF Outcome, n
<1> QED BY <1>3, <1>4, <1>5 DEF Extends

(* The throw adds to the ledger's hits the latched slot, and only if what  *)
(* was caught still stands there.                                          *)
LEMMA Released ==
  ASSUME HostTypes, NEW l \in Ledgers, NEW o, o = combat_release_dive(l)
  PROVE  /\ o.l \in Ledgers /\ o.spr \in [Slots -> Kinds] /\ o.connected \in BOOLEAN
         /\ o.l.latch = NoSlot
         /\ \A k \in o.l.hit \ l.hit : k = l.latch /\ k # NoSlot /\ spr[k] = l.id
<1> DEFINE freed == [l EXCEPT !.latch = NoSlot, !.id = "none"]
           n == [freed EXCEPT !.hit = @ \cup {l.latch}, !.new = @ \cup {l.latch}]
<1>1. freed \in Ledgers /\ freed.hit = l.hit /\ freed.new = l.new /\ freed.latch = NoSlot
  BY DEF Ledgers
<1>2. CASE l.latch = NoSlot
  BY <1>2 DEF combat_release_dive, Outcome, HostTypes
<1>3. CASE l.latch # NoSlot /\ sprite_is_dive_catch_target(spr[l.latch]) /\ spr[l.latch] = l.id
  <2>1. o = Outcome(n, [spr EXCEPT ![l.latch] = "inert"], TRUE, TRUE)
    BY <1>3 DEF combat_release_dive
  <2>2. l.latch \in Slots
    BY <1>3 DEF Ledgers
  <2>3. n \in Ledgers /\ n.hit = l.hit \cup {l.latch} /\ n.latch = NoSlot
    <3> HIDE DEF freed
    <3> QED BY <1>1, <2>2 DEF Ledgers
  <2>4. [spr EXCEPT ![l.latch] = "inert"] \in [Slots -> Kinds]
    BY DEF HostTypes, Kinds
  <2> HIDE DEF n
  <2> QED BY <1>3, <2>1, <2>3, <2>4 DEF Outcome
<1>4. CASE l.latch # NoSlot
           /\ ~(sprite_is_dive_catch_target(spr[l.latch]) /\ spr[l.latch] = l.id)
  <2>1. o = Outcome(freed, spr, FALSE, FALSE)
    BY <1>4 DEF combat_release_dive
  <2> HIDE DEF freed
  <2> QED BY <1>1, <2>1 DEF Outcome, HostTypes
<1> QED BY <1>2, <1>3, <1>4

(* All of a host's statics but the stamp and the accepted slots.           *)
SameButCombat(t, s) ==
  /\ t.pending = s.pending /\ t.armed = s.armed /\ t.consumed = s.consumed
  /\ t.stomp_guard = s.stomp_guard /\ t.dive_guard = s.dive_guard
  /\ t.impact_guard = s.impact_guard /\ t.catch_guard = s.catch_guard
  /\ t.iframes = s.iframes /\ t.move = s.move /\ t.att = s.att

(* One seam's combat, for a host and a fighter that agree on the throw.    *)
LEMMA Served ==
  ASSUME HostTypes, NEW s \in Hosts, NEW l \in Ledgers, NEW x \in Fighters,
         x.fresh => s.att = "none" /\ ~impact_guard_state(s.move),
         NEW o \in apply_combat_once(s, l, x)
  PROVE  /\ o.h \in Hosts /\ o.l \in Ledgers /\ o.spr \in [Slots -> Kinds]
         /\ o.served \in {0, 1} /\ o.connected \in BOOLEAN
         /\ SameButCombat(o.h, s)
         /\ IF o.served = 1 THEN ~s.stamped /\ o.h.stamped /\ playable /\ Foreign
            ELSE o.h = s /\ o.l = l /\ o.spr = spr /\ ~o.connected
         /\ s.att = "none" /\ ~x.fresh => o.served = 0
         /\ o.h.catch # s.catch => s.att = "catch"
         /\ ~x.fresh => /\ Extends(l, o.l)
                        /\ s.impact \cup s.catch \subseteq l.hit \cup {l.latch} =>
                             o.h.impact \cup o.h.catch \subseteq o.l.hit \cup {o.l.latch}
         /\ x.fresh => /\ o.h.impact = s.impact /\ o.h.catch = s.catch
                       /\ \A k \in o.l.hit \ l.hit : k = l.latch /\ k # NoSlot /\ spr[k] = l.id
                       /\ o.l.latch = NoSlot \/ (o.l = l)
         /\ o.connected /\ s.att = "catch" => o.l.latch # NoSlot
<1>1. CASE ~(playable /\ Foreign /\ Serves(s, x))
  <2>1. o = Applied(s, 0, Outcome(l, spr, FALSE, FALSE))
    BY <1>1 DEF apply_combat_once
  <2>3. o.h = s /\ o.l = l /\ o.spr = spr /\ o.served = 0 /\ o.connected = FALSE
    BY <2>1 DEF Applied, Outcome
  <2>4. Extends(l, l)
    BY DEF Extends
  <2>5. spr \in [Slots -> Kinds]
    BY DEF HostTypes
  <2>6. SameButCombat(o.h, s)
    BY <2>3 DEF SameButCombat
  <2>7. /\ \A k \in o.l.hit \ l.hit : k = l.latch /\ k # NoSlot /\ spr[k] = l.id
        /\ s.impact \cup s.catch \subseteq l.hit \cup {l.latch} =>
             o.h.impact \cup o.h.catch \subseteq o.l.hit \cup {o.l.latch}
    BY <2>3
  <2>8. o.h \in Hosts /\ o.l \in Ledgers /\ o.spr \in [Slots -> Kinds] /\ o.served \in {0, 1}
    BY <2>3, <2>5
  <2>9. o.connected \in BOOLEAN /\ ~o.connected
    BY <2>3
  <2>10. IF o.served = 1 THEN ~s.stamped /\ o.h.stamped /\ playable /\ Foreign
         ELSE o.h = s /\ o.l = l /\ o.spr = spr /\ ~o.connected
    BY <2>3
  <2>11. /\ o.h.catch # s.catch => s.att = "catch"
         /\ ~x.fresh => Extends(l, o.l)
         /\ o.h.impact = s.impact /\ o.h.catch = s.catch /\ o.l = l
    BY <2>3, <2>4
  <2> QED BY <2>3, <2>6, <2>7, <2>8, <2>9, <2>10, <2>11
<1>2. CASE playable /\ Foreign /\ Serves(s, x)
  <2>1. PICK a \in IF x.fresh THEN {combat_release_dive(l)} ELSE combat_apply(l, s.att) :
          o = Applied([s EXCEPT !.stamped = TRUE,
                          !.impact = IF a.contact /\ impact_guard_state(s.move)
                                     THEN @ \cup a.l.new ELSE @,
                          !.catch = IF a.contact /\ s.att = "catch"
                                    THEN @ \cup a.l.new ELSE @], 1, a)
    BY <1>2 DEF apply_combat_once
  <2> DEFINE t == [s EXCEPT !.stamped = TRUE,
                          !.impact = IF a.contact /\ impact_guard_state(s.move)
                                     THEN @ \cup a.l.new ELSE @,
                          !.catch = IF a.contact /\ s.att = "catch"
                                    THEN @ \cup a.l.new ELSE @]
  <2>2. /\ a.l \in Ledgers /\ a.spr \in [Slots -> Kinds] /\ a.connected \in BOOLEAN
        /\ ~x.fresh => /\ Extends(l, a.l)
                       /\ a.contact => a.l.new \subseteq a.l.hit \cup {a.l.latch}
                       /\ a.connected /\ s.att = "catch" => a.l.latch # NoSlot
        /\ x.fresh => /\ a.l.latch = NoSlot
                      /\ \A k \in a.l.hit \ l.hit : k = l.latch /\ k # NoSlot /\ spr[k] = l.id
    <3>1. CASE x.fresh
      BY <2>1, <3>1, Released
    <3>2. CASE ~x.fresh /\ a = Outcome(l, spr, FALSE, FALSE)
      BY <3>2 DEF Outcome, Extends, HostTypes
    <3>3. CASE ~x.fresh /\ s.att = "catch" /\ a \in latch_dive_target([l EXCEPT !.new = {}])
      BY <3>3, Latched
    <3>4. CASE ~x.fresh /\ s.att # "catch" /\ a = Outcome([l EXCEPT !.new = {}], spr, FALSE, FALSE)
      <4>1. [l EXCEPT !.new = {}] \in Ledgers
        BY DEF Ledgers
      <4> QED BY <3>4, <4>1 DEF Outcome, Extends, HostTypes, Ledgers
    <3>5. CASE ~x.fresh /\ s.att # "catch" /\ a \in apply_sprite_targets([l EXCEPT !.new = {}])
      BY <3>5, Struck
    <3> QED BY <2>1, <3>1, <3>2, <3>3, <3>4, <3>5 DEF combat_apply
  <2>3. a.l.new \subseteq Slots
    BY <2>2 DEF Ledgers
  <2>4. /\ t \in Hosts /\ t.stamped
        /\ t.impact = IF a.contact /\ impact_guard_state(s.move) THEN s.impact \cup a.l.new
                      ELSE s.impact
        /\ t.catch = IF a.contact /\ s.att = "catch" THEN s.catch \cup a.l.new ELSE s.catch
        /\ SameButCombat(t, s)
    BY <2>3 DEF Hosts, SameButCombat
  <2>5. /\ o.h = t /\ o.l = a.l /\ o.spr = a.spr /\ o.connected = a.connected
        /\ o.served = 1
    BY <2>1 DEF Applied
  <2> HIDE DEF t
  <2>6. ~x.fresh /\ s.impact \cup s.catch \subseteq l.hit \cup {l.latch} =>
          t.impact \cup t.catch \subseteq a.l.hit \cup {a.l.latch}
    <3>1. ~x.fresh => l.hit \cup {l.latch} \subseteq a.l.hit \cup {a.l.latch} \cup {NoSlot}
      BY <2>2 DEF Extends
    <3>2. NoSlot \notin s.impact \cup s.catch
      BY Amounts DEF Hosts
    <3> QED BY <2>2, <2>4, <3>1, <3>2
  <2> QED BY <1>2, <2>2, <2>4, <2>5, <2>6 DEF Serves
<1> QED BY <1>1, <1>2

-----------------------------------------------------------------------------
(* The guards on $1497 and the adapter's statics.                          *)

(* The values the timer is given.                                          *)
LEMMA Timers == 0 \in 0 .. 3 /\ 1 \in 0 .. 3 /\ 3 \in 0 .. 3
OBVIOUS

LEMMA Lifted ==
  ASSUME NEW x \in Guests, NEW guard \in BOOLEAN, NEW y, y = Lift(x, guard)
  PROVE  /\ y \in Guests /\ y.phase = x.phase /\ y.air = x.air /\ y.by = x.by
         /\ y.timer = IF guard /\ x.timer = 1 THEN 0 ELSE x.timer
<1>1. CASE guard /\ x.timer = 1
  <2>1. y = [x EXCEPT !.timer = 0]
    BY <1>1 DEF Lift
  <2>2. y \in Guests /\ y.phase = x.phase /\ y.air = x.air /\ y.by = x.by /\ y.timer = 0
    BY <2>1 DEF Guests
  <2> QED BY <1>1, <2>2
<1>2. CASE ~(guard /\ x.timer = 1)
  BY <1>2 DEF Lift, Guests
<1> QED BY <1>1, <1>2

LEMMA Installed ==
  ASSUME NEW x \in Guests, NEW guard \in BOOLEAN, NEW y, y = Install(x, guard)
  PROVE  /\ y \in Guests /\ y.phase = x.phase /\ y.air = x.air
         /\ IF guard /\ x.timer = 0 THEN y.timer = 1 /\ y.by = "bridge" ELSE y = x
<1>1. CASE guard /\ x.timer = 0
  <2>1. y = [x EXCEPT !.timer = 1, !.by = "bridge"]
    BY <1>1 DEF Install
  <2>2. y.phase = x.phase /\ y.air = x.air /\ y.timer = 1 /\ y.by = "bridge"
    BY <2>1 DEF Guests
  <2>3. y \in Guests
    BY <2>1, Timers DEF Guests
  <2> QED BY <1>1, <2>2, <2>3
<1>2. CASE ~(guard /\ x.timer = 0)
  BY <1>2 DEF Install, Guests
<1> QED BY <1>1, <1>2

(* All of a host's statics but those of the dive's grace.                  *)
SameButDive(t, s) ==
  /\ t.pending = s.pending /\ t.armed = s.armed /\ t.consumed = s.consumed
  /\ t.stomp_guard = s.stomp_guard /\ t.impact = s.impact /\ t.catch = s.catch
  /\ t.impact_guard = s.impact_guard /\ t.catch_guard = s.catch_guard
  /\ t.stamped = s.stamped /\ t.move = s.move /\ t.att = s.att

LEMMA Forgotten ==
  ASSUME NEW s \in Hosts, NEW t, t = forget_dive_iframes(s)
  PROVE  t \in Hosts /\ SameButDive(t, s) /\ ~t.iframes /\ ~t.dive_guard
<1>1. t = [s EXCEPT !.grace = 0, !.iframes = FALSE, !.dive_guard = FALSE]
  BY DEF forget_dive_iframes
<1>2. t \in Hosts
  <2>1. 0 \in 0 .. DiveGrace
    BY Amounts
  <2> QED BY <1>1, <2>1 DEF Hosts
<1>3. SameButDive(t, s) /\ ~t.iframes /\ ~t.dive_guard
  BY <1>1 DEF Hosts, SameButDive
<1> QED BY <1>2, <1>3

LEMMA Advanced ==
  ASSUME NEW s \in Hosts, NEW m, NEW t, t = advance_dive_iframes(s, m)
  PROVE  t \in Hosts /\ SameButDive(t, s) /\ t.dive_guard = s.dive_guard
<1>0. DiveGrace \in 0 .. DiveGrace /\ 0 \in 0 .. DiveGrace
  BY Amounts
<1>1. CASE dive_iframe_state(m)
  <2>1. t = [s EXCEPT !.iframes = TRUE, !.grace = DiveGrace]
    BY <1>1 DEF advance_dive_iframes
  <2>2. t \in Hosts
    BY <1>0, <2>1 DEF Hosts
  <2> QED BY <2>1, <2>2 DEF Hosts, SameButDive
<1>2. CASE ~dive_iframe_state(m) /\ s.grace # 0 /\ m = "idle"
  <2>1. t = [s EXCEPT !.iframes = TRUE, !.grace = @ - 1]
    BY <1>2 DEF advance_dive_iframes
  <2>2. s.grace - 1 \in 0 .. DiveGrace
    BY <1>2, Amounts DEF Hosts
  <2>3. t \in Hosts
    BY <2>1, <2>2 DEF Hosts
  <2> QED BY <2>1, <2>3 DEF Hosts, SameButDive
<1>3. CASE ~dive_iframe_state(m) /\ ~(s.grace # 0 /\ m = "idle")
  <2>1. t = [s EXCEPT !.iframes = FALSE, !.grace = 0]
    BY <1>3 DEF advance_dive_iframes
  <2>2. t \in Hosts
    BY <1>0, <2>1 DEF Hosts
  <2> QED BY <2>1, <2>2 DEF Hosts, SameButDive
<1> QED BY <1>1, <1>2, <1>3

LEMMA Held ==
  ASSUME NEW s \in Hosts, NEW advance \in BOOLEAN, NEW t, t = hold_departure_edge(s, advance)
  PROVE  /\ t \in Hosts /\ SameButDive(t, s)
         /\ t.dive_guard = s.dive_guard /\ t.iframes = s.iframes
<1>1. CASE s.departure = 0
  BY <1>1 DEF hold_departure_edge, SameButDive
<1>2. CASE s.departure # 0
  <2>1. PICK d \in 0 .. MaxDeparture : t = [s EXCEPT !.departure = d]
    <3>1. CASE advance /\ s.departure >= MaxDeparture
      BY <1>2, <3>1, Amounts DEF hold_departure_edge
    <3>2. CASE ~(advance /\ s.departure >= MaxDeparture)
      <4>1. t = [s EXCEPT !.departure = IF advance THEN s.departure + 1 ELSE s.departure]
        BY <1>2, <3>2 DEF hold_departure_edge, Hosts
      <4>2. (IF advance THEN s.departure + 1 ELSE s.departure) \in 0 .. MaxDeparture
        BY <3>2, Amounts DEF Hosts
      <4> QED BY <4>1, <4>2
    <3> QED BY <3>1, <3>2
  <2>2. t \in Hosts
    BY <2>1 DEF Hosts
  <2> QED BY <2>1, <2>2 DEF Hosts, SameButDive
<1> QED BY <1>1, <1>2

-----------------------------------------------------------------------------
(* The seams of the player's code.                                         *)

USE DEF At, playable, Active, Foreign

LEMMA HostStarts == Init => HostInv
<1> SUFFICES ASSUME Init PROVE HostInv
  OBVIOUS
<1> USE DEF Init, NoHost, NoLedger, cf_reset, Fighter
<1>1. HostTypes
  <2>1. seam \in Seams /\ spr \in [Slots -> Kinds]
    BY SeamPlaces DEF PlayerSeams, Kinds
  <2>2. g \in Guests /\ f \in Fighters
    BY DEF Guests, Phases, Fighters, Moves, Classes
  <2>3. h \in Hosts
    BY Amounts DEF Hosts, Moves, Classes
  <2>4. ledger \in Ledgers /\ ghost \in Histories
    BY DEF Ledgers, Histories
  <2> QED BY <2>1, <2>2, <2>3, <2>4 DEF HostTypes
<1>2. CountInv /\ LatchInv /\ TimerInv /\ MarioInv /\ MoveInv
  BY DEF CountInv, LatchInv, TimerInv, MarioInv, MoveInv, Guards, At
<1>3. AcceptedInv /\ GuardInv
  BY DEF AcceptedInv, GuardInv, Empty, At
<1> QED BY <1>1, <1>2, <1>3 DEF HostInv

LEMMA LiveFrameStep ==
  ASSUME HostInv, LiveFrame PROVE HostInv'
<1> USE DEF HostInv
<1>0. g \in Guests /\ h \in Hosts /\ ghost \in Histories
  BY DEF HostTypes
<1>1. PICK t \in 0 .. 3 :
        /\ g' = [g EXCEPT !.timer = t, !.by = IF t = 0 THEN "none" ELSE @]
        /\ IF g.timer = 3 THEN t = 2 ELSE IF g.timer = 2 THEN t \in {1, 2} ELSE t = 0
  <2>1. PICK t \in {0, 1, 2} :
          /\ g' = [g EXCEPT !.timer = t, !.by = IF t = 0 THEN "none" ELSE @]
          /\ t \in IF g.timer = 3 THEN {2} ELSE IF g.timer = 2 THEN {1, 2} ELSE {0}
    BY DEF LiveFrame
  <2>2. t \in 0 .. 3
    BY <2>1
  <2>3. IF g.timer = 3 THEN t = 2 ELSE IF g.timer = 2 THEN t \in {1, 2} ELSE t = 0
    BY <2>1
  <2> QED BY <2>1, <2>2, <2>3
<1>2. /\ g' \in Guests /\ g'.timer = t /\ g'.phase = g.phase
      /\ g'.by = IF t = 0 THEN "none" ELSE g.by
  BY <1>0, <1>1 DEF Guests
<1>3. /\ seam[1] = "frame" /\ seam' \in Seams
      /\ seam'[1] \in {"D5F2", "DC2D", "80D2"} /\ (playable => seam'[1] = "D5F2")
  BY SeamPlaces, Amounts DEF LiveFrame, At, Goto, PlayerSeams
<1>4. h' = [h EXCEPT !.stamped = FALSE] /\ ghost' = [ghost EXCEPT !.served = 0]
  BY DEF LiveFrame
<1>5. spr' = spr /\ own' = own /\ f' = f /\ ledger' = ledger
  BY DEF LiveFrame
<1>6. /\ h' \in Hosts
      /\ h'.armed = h.armed /\ h'.consumed = h.consumed /\ h'.impact = h.impact
      /\ h'.catch = h.catch /\ h'.iframes = h.iframes /\ h'.pending = h.pending
      /\ h'.att = h.att /\ h'.move = h.move /\ h'.stomp_guard = h.stomp_guard
      /\ h'.dive_guard = h.dive_guard /\ h'.impact_guard = h.impact_guard
      /\ h'.catch_guard = h.catch_guard
  BY <1>0, <1>4 DEF Hosts
<1>7. /\ ghost' \in Histories
      /\ ghost'.bounces = ghost.bounces /\ ghost'.served = 0
      /\ ghost'.rescued = ghost.rescued /\ ghost'.owed = ghost.owed
  BY <1>0, <1>4 DEF Histories
<1>8. HostTypes'
  BY <1>2, <1>3, <1>5, <1>6, <1>7 DEF HostTypes
<1>9. CountInv' /\ LatchInv'
  BY <1>3, <1>5, <1>6, <1>7 DEF CountInv, LatchInv, At
<1>10. MarioInv' /\ MoveInv'
  BY <1>5, <1>6 DEF MarioInv, MoveInv, Guards
<1>11. TimerInv'
  BY <1>0, <1>1, <1>2, <1>3, <1>6 DEF TimerInv, At, Guards, Guests
<1>12. AcceptedInv'
  BY <1>2, <1>3, <1>5, <1>6, <1>7 DEF AcceptedInv, Settled, Empty, At
<1>13. GuardInv'
  BY <1>0, <1>1, <1>2, <1>3 DEF GuardInv, TimerInv, At, Guests
<1> QED BY <1>8, <1>9, <1>10, <1>11, <1>12, <1>13

LEMMA FrozenFrameStep ==
  ASSUME HostInv, FrozenFrame PROVE HostInv'
<1> USE DEF HostInv
<1>0. h \in Hosts /\ ghost \in Histories
  BY DEF HostTypes
<1>1. seam[1] = "frame" /\ seam' = <<"80D2", 0>> /\ seam' \in Seams
  BY SeamPlaces, Amounts DEF FrozenFrame, Goto
<1>2. h' = [h EXCEPT !.stamped = FALSE] /\ ghost' = [ghost EXCEPT !.served = 0]
  BY DEF FrozenFrame
<1>3. g' = g /\ spr' = spr /\ own' = own /\ f' = f /\ ledger' = ledger
  BY DEF FrozenFrame
<1>4. /\ h' \in Hosts
      /\ h'.armed = h.armed /\ h'.consumed = h.consumed /\ h'.impact = h.impact
      /\ h'.catch = h.catch /\ h'.iframes = h.iframes /\ h'.pending = h.pending
      /\ h'.att = h.att /\ h'.move = h.move /\ h'.stomp_guard = h.stomp_guard
      /\ h'.dive_guard = h.dive_guard /\ h'.impact_guard = h.impact_guard
      /\ h'.catch_guard = h.catch_guard
  BY <1>0, <1>2 DEF Hosts
<1>5. /\ ghost' \in Histories
      /\ ghost'.bounces = ghost.bounces /\ ghost'.served = 0
      /\ ghost'.rescued = ghost.rescued /\ ghost'.owed = ghost.owed
  BY <1>0, <1>2 DEF Histories
<1>6. HostTypes'
  BY <1>1, <1>3, <1>4, <1>5 DEF HostTypes
<1>7. CountInv' /\ LatchInv'
  BY <1>1, <1>3, <1>4, <1>5 DEF CountInv, LatchInv
<1>8. TimerInv' /\ MarioInv' /\ MoveInv'
  BY <1>1, <1>3, <1>4 DEF TimerInv, MarioInv, MoveInv, Guards
<1>9. AcceptedInv' /\ GuardInv'
  BY <1>1, <1>3, <1>4, <1>5 DEF AcceptedInv, GuardInv, Settled, Empty
<1> QED BY <1>6, <1>7, <1>8, <1>9

LEMMA NativePhaseStep ==
  ASSUME HostInv, NativePhase PROVE HostInv'
<1> USE DEF HostInv
<1>0. g \in Guests /\ seam[1] = "frame" /\ g.timer # 3
  BY DEF HostTypes, NativePhase
<1>1. /\ seam' = seam /\ spr' = spr /\ own' = own /\ f' = f /\ h' = h
      /\ ledger' = ledger /\ ghost' = ghost
  BY DEF NativePhase
<1>2. g' \in Guests
  <2>1. CASE \E p \in Phases \ {g.phase} : g' = [g EXCEPT !.phase = p]
    BY <1>0, <2>1 DEF Guests
  <2>2. CASE g' = [g EXCEPT !.phase = "play", !.timer = 3, !.by = "native"]
    BY <1>0, <2>2, Timers DEF Guests, Phases
  <2> QED BY <2>1, <2>2 DEF NativePhase
<1>3. \/ g'.timer = g.timer /\ g'.by = g.by
      \/ g'.timer = 3 /\ g'.by = "native" /\ g'.phase = "play"
  <2>1. CASE \E p \in Phases \ {g.phase} : g' = [g EXCEPT !.phase = p]
    BY <1>0, <2>1 DEF Guests
  <2>2. CASE g' = [g EXCEPT !.phase = "play", !.timer = 3, !.by = "native"]
    BY <1>0, <2>2 DEF Guests
  <2> QED BY <2>1, <2>2 DEF NativePhase
<1>4. HostTypes'
  BY <1>1, <1>2 DEF HostTypes
<1>5. CountInv' /\ LatchInv' /\ MarioInv' /\ MoveInv'
  BY <1>1 DEF CountInv, LatchInv, MarioInv, MoveInv, Guards
<1>6. TimerInv'
  BY <1>0, <1>1, <1>2, <1>3 DEF TimerInv, Guards, Guests
<1>7. AcceptedInv' /\ GuardInv'
  BY <1>0, <1>1, <1>3 DEF AcceptedInv, GuardInv, Settled, Empty
<1> QED BY <1>4, <1>5, <1>6, <1>7

(* A usable record is a controller's own.                                  *)
LEMMA Usable ==
  ASSUME NEW r \in Records, r.ok
  PROVE  /\ r.own \in {"scripted", "foreign"} /\ r.fresh \in BOOLEAN
         /\ r.move \in {"idle", "dive", "throw"} /\ (r.fresh => r.move = "throw")
<1>1. CASE r = [ok |-> TRUE, own |-> "scripted", move |-> "idle", fresh |-> FALSE]
  BY <1>1
<1>2. CASE r \in [ok : {TRUE}, own : {"foreign"}, move : {"dive"}, fresh : {FALSE}]
  BY <1>2
<1>3. CASE r \in [ok : {TRUE}, own : {"foreign"}, move : {"throw"}, fresh : {TRUE}]
  BY <1>3
<1>4. CASE r = [ok |-> FALSE]
  BY <1>4
<1> QED BY <1>1, <1>2, <1>3, <1>4 DEF Records

LEMMA StateLoadStep ==
  ASSUME HostInv, StateLoad PROVE HostInv'
<1> USE DEF HostInv
<1>1. PICK r \in Records, t \in 0 .. 1, p \in {"play", "script"} :
        /\ smw_falcon_restore_selection(r)
        /\ g' = [phase |-> p, air |-> FALSE, timer |-> t,
                 by |-> IF t = 0 THEN "none" ELSE "native"]
  BY DEF StateLoad
<1>2. seam' = seam /\ spr' = spr /\ seam[1] = "frame"
  BY DEF StateLoad
<1>3. h' = NoHost /\ ledger' = NoLedger
  BY DEF StateLoad, SmwFalconOnStateLoaded
<1>4. ghost' = [owed |-> <<>>, served |-> 0, bounces |-> 0, rescued |-> FALSE]
  BY DEF StateLoad
<1>5. own' \in {"none", "scripted", "foreign"}
  BY <1>1, Usable DEF smw_falcon_restore_selection, HostTypes
<1>6. f' \in Fighters /\ (f'.fresh => f'.move = "throw") /\ f'.move # "kickair"
  <2>1. CASE f' = cf_reset
    BY <2>1 DEF cf_reset, Fighter, Fighters, Moves, Classes
  <2>2. CASE r.ok /\ f' = Fighter(r.move, r.fresh)
    BY <2>2, Usable DEF Fighter, Fighters, Moves, Classes
  <2> QED BY <1>1, <2>1, <2>2 DEF smw_falcon_restore_selection
<1>7. g' \in Guests /\ g'.timer = t /\ g'.by = IF t = 0 THEN "none" ELSE "native"
  BY <1>1 DEF Guests, Phases
<1>8. h' \in Hosts /\ ledger' \in Ledgers /\ ghost' \in Histories
  <2>1. NoHost \in Hosts
    BY Amounts DEF Hosts, Moves, Classes, NoHost
  <2>2. NoLedger \in Ledgers
    BY DEF Ledgers, NoLedger
  <2> QED BY <1>3, <1>4, <2>1, <2>2 DEF Histories
<1>9. HostTypes'
  BY <1>2, <1>5, <1>6, <1>7, <1>8 DEF HostTypes
<1>10. CountInv' /\ LatchInv'
  BY <1>2, <1>3, <1>4 DEF CountInv, LatchInv, NoHost, NoLedger
<1>11. MarioInv' /\ MoveInv'
  BY <1>3, <1>6 DEF MarioInv, MoveInv, NoHost, Guards, impact_guard_state
<1>12. TimerInv' /\ AcceptedInv' /\ GuardInv'
  BY <1>2, <1>3, <1>7 DEF TimerInv, AcceptedInv, GuardInv, Settled, Empty, NoHost, Guards
<1> QED BY <1>9, <1>10, <1>11, <1>12

LEMMA BeforePlayerPhysicsStep ==
  ASSUME HostInv, SmwFalconBeforePlayerPhysics PROVE HostInv'
<1> USE DEF HostInv
<1>0. g \in Guests /\ h \in Hosts /\ ghost \in Histories
  BY DEF HostTypes
<1>1. seam[1] = "D5F2" /\ seam' = <<"DC2D", 0>> /\ seam' \in Seams
  BY SeamPlaces DEF SmwFalconBeforePlayerPhysics, Goto, PlayerSeams
<1>2. spr' = spr /\ own' = own /\ f' = f /\ ledger' = ledger
  BY DEF SmwFalconBeforePlayerPhysics
<1>3. /\ g' \in Guests /\ g'.phase = g.phase /\ g'.by = g.by
      /\ g'.timer = IF Guards /\ g.timer = 1 THEN 0 ELSE g.timer
  <2> DEFINE g1 == Lift(g, h.stomp_guard)
             g2 == Lift(g1, h.dive_guard)
  <2>0. /\ h.stomp_guard \in BOOLEAN /\ h.dive_guard \in BOOLEAN
        /\ (h.impact_guard \/ h.catch_guard) \in BOOLEAN
    BY <1>0 DEF Hosts
  <2>1. /\ g1 \in Guests /\ g1.phase = g.phase /\ g1.by = g.by
        /\ g1.timer = IF h.stomp_guard /\ g.timer = 1 THEN 0 ELSE g.timer
    BY <1>0, <2>0, Lifted
  <2>2. g' = Lift(g2, h.impact_guard \/ h.catch_guard)
    BY DEF SmwFalconBeforePlayerPhysics
  <2> HIDE DEF g1
  <2>3. /\ g2 \in Guests /\ g2.phase = g1.phase /\ g2.by = g1.by
        /\ g2.timer = IF h.dive_guard /\ g1.timer = 1 THEN 0 ELSE g1.timer
    BY <2>0, <2>1, Lifted
  <2> HIDE DEF g2
  <2>4. /\ g' \in Guests /\ g'.phase = g2.phase /\ g'.by = g2.by
        /\ g'.timer = IF (h.impact_guard \/ h.catch_guard) /\ g2.timer = 1 THEN 0 ELSE g2.timer
    BY <2>0, <2>2, <2>3, Lifted
  <2> QED BY <2>1, <2>3, <2>4 DEF Guards
<1>4. /\ h' \in Hosts /\ h'.stamped = h.stamped /\ h'.armed = h.armed
      /\ h'.consumed = h.consumed /\ h'.pending = h.pending /\ h'.att = h.att
      /\ h'.move = h.move
      /\ ~h'.stomp_guard /\ ~h'.dive_guard /\ ~h'.impact_guard /\ ~h'.catch_guard
      /\ h'.impact = {} /\ h'.catch = {} /\ (h'.iframes => h.iframes)
  <2> DEFINE h1 == [h EXCEPT !.stomp_guard = FALSE, !.dive_guard = FALSE,
                             !.impact_guard = FALSE, !.catch_guard = FALSE,
                             !.impact = {}, !.catch = {}]
  <2>0. h' = IF Active /\ playable THEN h1 ELSE forget_dive_iframes(h1)
    BY DEF SmwFalconBeforePlayerPhysics
  <2>1. /\ h1 \in Hosts /\ h1.stamped = h.stamped /\ h1.armed = h.armed
        /\ h1.consumed = h.consumed /\ h1.pending = h.pending /\ h1.att = h.att
        /\ h1.move = h.move /\ h1.iframes = h.iframes
        /\ ~h1.stomp_guard /\ ~h1.dive_guard /\ ~h1.impact_guard /\ ~h1.catch_guard
        /\ h1.impact = {} /\ h1.catch = {}
    BY <1>0 DEF Hosts
  <2> HIDE DEF h1
  <2>2. CASE h' = h1
    BY <2>1, <2>2
  <2>3. CASE h' = forget_dive_iframes(h1)
    BY <2>1, <2>3, Forgotten DEF SameButDive
  <2> QED BY <2>0, <2>2, <2>3
<1>5. /\ ghost' \in Histories /\ ghost'.bounces = ghost.bounces
      /\ ghost'.served = ghost.served /\ ghost'.owed = ghost.owed /\ ~ghost'.rescued
  <2>1. ghost' = [ghost EXCEPT !.rescued = FALSE]
    BY DEF SmwFalconBeforePlayerPhysics
  <2> QED BY <1>0, <2>1 DEF Histories
<1>6. HostTypes'
  BY <1>1, <1>2, <1>3, <1>4, <1>5 DEF HostTypes
<1>7. CountInv' /\ LatchInv'
  BY <1>1, <1>2, <1>4, <1>5 DEF CountInv, LatchInv
<1>8. MarioInv' /\ MoveInv'
  BY <1>2, <1>4 DEF MarioInv, MoveInv, Guards
<1>9. TimerInv'
  BY <1>0, <1>1, <1>3, <1>4 DEF TimerInv, Guards, Guests
<1>10. AcceptedInv' /\ GuardInv'
  BY <1>1, <1>3, <1>4 DEF AcceptedInv, GuardInv, Settled, Empty
<1> QED BY <1>6, <1>7, <1>8, <1>9, <1>10

LEMMA RestoreStep ==
  ASSUME HostInv, RestoreWallSafeGround PROVE HostInv'
<1> USE DEF HostInv
<1>0. g \in Guests /\ h \in Hosts /\ ghost \in Histories /\ f \in Fighters
  BY DEF HostTypes
<1>1. /\ seam[1] \in {"DC2D", "80D2"} /\ Active
      /\ seam' = seam /\ spr' = spr /\ ledger' = ledger /\ own' = "foreign"
  BY DEF RestoreWallSafeGround
<1>2. /\ g' \in Guests /\ g'.phase = "play"
      /\ IF g.timer = 1 THEN g'.timer = 0 /\ g'.by = "wall"
         ELSE g'.timer = g.timer /\ g'.by = g.by
  <2>1. g' = [g EXCEPT !.phase = "play", !.air = FALSE,
                       !.timer = IF @ = 1 THEN 0 ELSE @, !.by = IF g.timer = 1 THEN "wall" ELSE @]
    BY DEF RestoreWallSafeGround
  <2>2. CASE g.timer = 1
    <3>1. g' = [g EXCEPT !.phase = "play", !.air = FALSE, !.timer = 0, !.by = "wall"]
      BY <1>0, <2>1, <2>2 DEF Guests
    <3>2. g' \in Guests
      BY <1>0, <3>1, Timers DEF Guests, Phases
    <3> QED BY <1>0, <2>2, <3>1, <3>2 DEF Guests
  <2>3. CASE g.timer # 1
    <3>1. g' = [g EXCEPT !.phase = "play", !.air = FALSE]
      BY <1>0, <2>1, <2>3 DEF Guests
    <3> QED BY <1>0, <2>3, <3>1 DEF Guests, Phases
  <2> QED BY <2>2, <2>3
<1>3. /\ f' \in Fighters
      /\ f' = f \/ (~f'.fresh /\ f'.move \in {"catch", "idle", "run"})
  <2>1. PICK m \in ResolveMoves(f.move, Hit(TRUE, TRUE, FALSE, FALSE)) :
          f' = IF m = f.move THEN f ELSE Fighter(m, FALSE)
    BY DEF RestoreWallSafeGround
  <2>2. m \in Moves /\ (m = f.move \/ m \in {"catch", "idle", "run"})
    BY <1>0, ResolveClasses DEF Fighters
  <2> QED BY <1>0, <2>1, <2>2 DEF Fighter, Fighters
<1>4. /\ h' \in Hosts
      /\ (h'.armed => h.armed) /\ (seam[1] = "DC2D" \/ h'.consumed = h.consumed)
      /\ (h'.stomp_guard => h.stomp_guard) /\ h'.dive_guard = h.dive_guard
      /\ h'.impact_guard = h.impact_guard /\ h'.catch_guard = h.catch_guard
      /\ h'.stamped = h.stamped /\ h'.att = h.att /\ h'.move = h.move
  <2>1. h' = [h EXCEPT !.pending = FALSE, !.departure = 0,
                       !.armed = @ /\ ~At("DC2D"), !.consumed = @ /\ ~At("DC2D"),
                       !.stomp_guard = @ /\ ~At("DC2D")]
    BY DEF RestoreWallSafeGround
  <2>2. 0 \in 0 .. MaxDeparture
    BY Amounts
  <2>3. CASE At("DC2D")
    <3>1. h' = [h EXCEPT !.pending = FALSE, !.departure = 0, !.armed = FALSE,
                         !.consumed = FALSE, !.stomp_guard = FALSE]
      BY <1>0, <2>1, <2>3 DEF Hosts
    <3>2. h' \in Hosts
      BY <1>0, <2>2, <3>1 DEF Hosts
    <3> QED BY <1>0, <2>3, <3>1, <3>2 DEF Hosts
  <2>4. CASE ~At("DC2D")
    <3>1. h' = [h EXCEPT !.pending = FALSE, !.departure = 0]
      BY <1>0, <2>1, <2>4 DEF Hosts
    <3>2. h' \in Hosts
      BY <1>0, <2>2, <3>1 DEF Hosts
    <3> QED BY <1>0, <3>1, <3>2 DEF Hosts
  <2> QED BY <2>3, <2>4
<1>5. /\ ghost' \in Histories /\ ghost'.bounces = ghost.bounces
      /\ ghost'.served = ghost.served /\ ghost'.owed = ghost.owed /\ ghost'.rescued
  <2>1. ghost' = [ghost EXCEPT !.rescued = TRUE]
    BY DEF RestoreWallSafeGround
  <2> QED BY <1>0, <2>1 DEF Histories
<1>6. HostTypes'
  BY <1>1, <1>2, <1>3, <1>4, <1>5 DEF HostTypes
<1>7. CountInv' /\ LatchInv'
  BY <1>1, <1>4, <1>5 DEF CountInv, LatchInv
<1>8. MarioInv' /\ MoveInv'
  BY <1>1, <1>3, <1>4 DEF MarioInv, MoveInv
<1>9. TimerInv'
  BY <1>0, <1>1, <1>2, <1>4 DEF TimerInv, Guards, Guests
<1>10. AcceptedInv' /\ GuardInv'
  BY <1>1, <1>2, <1>5 DEF AcceptedInv, GuardInv, Settled
<1> QED BY <1>6, <1>7, <1>8, <1>9, <1>10

LEMMA NotOursStep ==
  ASSUME HostInv, BeforePhysicsNotOurs PROVE HostInv'
<1> USE DEF HostInv
<1>0. g \in Guests /\ h \in Hosts /\ ghost \in Histories /\ ledger \in Ledgers
  BY DEF HostTypes
<1>1. /\ seam[1] = "DC2D" /\ seam' = <<"80D2", 0>> /\ seam' \in Seams
      /\ spr' = spr /\ f' = f /\ own' = IF Foreign THEN "scripted" ELSE own
  BY SeamPlaces, Amounts DEF BeforePhysicsNotOurs, Goto
<1>2. /\ h' \in Hosts /\ ~h'.armed /\ ~h'.stomp_guard /\ ~h'.dive_guard
      /\ h'.impact_guard = h.impact_guard /\ (h'.catch_guard => h.catch_guard)
      /\ h'.impact = h.impact /\ (~Active => h'.catch = {}) /\ (h'.pending => h.pending)
      /\ h'.stamped = h.stamped /\ h'.move = h.move /\ h'.att = h.att /\ ~h'.iframes
      /\ g' \in Guests /\ g'.phase = g.phase /\ g'.by = g.by
      /\ g'.timer = IF h.dive_guard /\ g.timer = 1 THEN 0 ELSE g.timer
  <2> DEFINE h1 == [h EXCEPT !.armed = FALSE, !.consumed = FALSE,
                             !.stomp_guard = FALSE, !.catch_guard = Active /\ @,
                             !.catch = IF Active THEN @ ELSE {},
                             !.pending = @ /\ ~Active,
                             !.departure = IF Active THEN 0 ELSE @]
  <2>0. g' = Lift(g, h1.dive_guard) /\ h' = forget_dive_iframes(h1)
    BY DEF BeforePhysicsNotOurs
  <2>1. /\ h1 \in Hosts /\ ~h1.armed /\ ~h1.stomp_guard
        /\ h1.impact_guard = h.impact_guard /\ (h1.catch_guard => h.catch_guard)
        /\ h1.impact = h.impact /\ (~Active => h1.catch = {}) /\ (h1.pending => h.pending)
        /\ h1.stamped = h.stamped /\ h1.move = h.move /\ h1.att = h.att
        /\ h1.dive_guard = h.dive_guard
    <3>0. 0 \in 0 .. MaxDeparture
      BY Amounts
    <3>1. CASE Active
      <4>1. h1 = [h EXCEPT !.armed = FALSE, !.consumed = FALSE, !.stomp_guard = FALSE,
                           !.pending = FALSE, !.departure = 0]
        BY <1>0, <3>1 DEF Hosts
      <4> HIDE DEF h1
      <4>2. h1 \in Hosts
        BY <1>0, <3>0, <4>1 DEF Hosts
      <4> QED BY <1>0, <3>1, <4>1, <4>2 DEF Hosts
    <3>2. CASE ~Active
      <4>1. h1 = [h EXCEPT !.armed = FALSE, !.consumed = FALSE, !.stomp_guard = FALSE,
                           !.catch_guard = FALSE, !.catch = {}]
        BY <1>0, <3>2 DEF Hosts
      <4> HIDE DEF h1
      <4>2. h1 \in Hosts
        BY <1>0, <4>1 DEF Hosts
      <4> QED BY <1>0, <3>2, <4>1, <4>2 DEF Hosts
    <3> QED BY <3>1, <3>2
  <2> HIDE DEF h1
  <2>2. h' \in Hosts /\ SameButDive(h', h1) /\ ~h'.iframes /\ ~h'.dive_guard
    BY <2>0, <2>1, Forgotten
  <2>3. /\ g' \in Guests /\ g'.phase = g.phase /\ g'.by = g.by
        /\ g'.timer = IF h1.dive_guard /\ g.timer = 1 THEN 0 ELSE g.timer
    <3>1. h1.dive_guard \in BOOLEAN
      BY <2>1 DEF Hosts
    <3> QED BY <1>0, <2>0, <3>1, Lifted
  <2> QED BY <2>1, <2>2, <2>3 DEF SameButDive
<1>3. ledger' \in Ledgers /\ ledger'.latch = NoSlot
  <2>1. ledger' = combat_ledger_update(ledger, "none", FALSE)
    BY DEF BeforePhysicsNotOurs, DropMove
  <2> QED BY <1>0, <2>1, LedgerUpdated
<1>4. /\ ghost' \in Histories /\ ghost'.bounces = 0 /\ ghost'.served = ghost.served
      /\ ghost'.owed = <<>>
  <2>1. ghost' = [ghost EXCEPT !.owed = <<>>, !.bounces = 0]
    BY DEF BeforePhysicsNotOurs, DropMove
  <2>2. 0 \in 0 .. 1
    OBVIOUS
  <2>3. ghost' \in Histories
    BY <1>0, <2>1, <2>2 DEF Histories
  <2> QED BY <1>0, <2>1, <2>3 DEF Histories
<1>5. HostTypes'
  BY <1>1, <1>2, <1>3, <1>4 DEF HostTypes
<1>6. CountInv' /\ LatchInv'
  BY <1>1, <1>2, <1>3, <1>4 DEF CountInv, LatchInv
<1>7. MarioInv' /\ MoveInv'
  BY <1>1, <1>2 DEF MarioInv, MoveInv, Guards
<1>8. TimerInv'
  BY <1>0, <1>1, <1>2 DEF TimerInv, Guards, Guests
<1>9. AcceptedInv' /\ GuardInv'
  BY <1>1, <1>2 DEF AcceptedInv, GuardInv, Settled
<1> QED BY <1>5, <1>6, <1>7, <1>8, <1>9

LEMMA BeforePhysicsStep ==
  ASSUME HostInv, SmwFalconBeforePhysics PROVE HostInv'
<1> USE DEF HostInv
<1>0. /\ g \in Guests /\ h \in Hosts /\ ghost \in Histories /\ ledger \in Ledgers
      /\ f \in Fighters
  BY DEF HostTypes
<1> DEFINE x == IF Foreign THEN f ELSE cf_reset
           h0 == [h EXCEPT !.armed = FALSE, !.consumed = FALSE, !.stomp_guard = FALSE]
           h1 == IF Foreign THEN h0 ELSE forget_dive_iframes(h0)
           h2 == hold_departure_edge(h1, TRUE)
           H3(t) == advance_dive_iframes(h2, t.f.move)
           H4(t, launch) == IF launch /\ H3(t).departure = 0
                            THEN hold_departure_edge([H3(t) EXCEPT !.departure = 1], FALSE)
                            ELSE hold_departure_edge(H3(t), FALSE)
<1>1. PICK t \in foreign_tick(x), launch, air \in BOOLEAN :
        /\ f' = t.f
        /\ h' = [H4(t, launch) EXCEPT !.pending = TRUE, !.move = t.f.move, !.att = t.att]
        /\ ledger' = combat_ledger_update(ledger, t.f.move, t.att # "none")
        /\ g' = [Lift(g, ~Foreign /\ h.dive_guard)
                   EXCEPT !.air = air \/ h2.departure # 0 \/ H4(t, launch).departure # 0]
        /\ ghost' = [ghost EXCEPT !.owed = IF ledger'.latch = NoSlot THEN <<>> ELSE @,
                                  !.bounces = 0]
  BY DEF SmwFalconBeforePhysics
<1>2. /\ seam[1] = "DC2D" /\ seam' = <<"body", 0>> /\ seam' \in Seams
      /\ spr' = spr /\ own' = "foreign" /\ playable
  BY SeamPlaces DEF SmwFalconBeforePhysics, Goto, PlayerSeams
<1>3. /\ t.f \in Fighters /\ t.att \in {"none", "strike", "catch"}
      /\ t.f.fresh => t.f.move = "throw" /\ t.att = "none"
      /\ t.att = "catch" => t.f.move = "dive"
  <2>1. x \in Fighters
    BY <1>0 DEF cf_reset, Fighter, Fighters, Moves, Classes
  <2> HIDE DEF x
  <2> QED BY <2>1, Ticked
<1>4. /\ h' \in Hosts /\ ~h'.armed /\ ~h'.consumed /\ ~h'.stomp_guard
      /\ h'.impact = h.impact /\ h'.catch = h.catch
      /\ h'.impact_guard = h.impact_guard /\ h'.catch_guard = h.catch_guard
      /\ (h'.dive_guard => h.dive_guard) /\ h'.stamped = h.stamped
      /\ h'.move = t.f.move /\ h'.att = t.att
  <2>1. /\ h0 \in Hosts /\ ~h0.armed /\ ~h0.consumed /\ ~h0.stomp_guard
        /\ h0.impact = h.impact /\ h0.catch = h.catch
        /\ h0.impact_guard = h.impact_guard /\ h0.catch_guard = h.catch_guard
        /\ h0.dive_guard = h.dive_guard /\ h0.stamped = h.stamped
    BY <1>0 DEF Hosts
  <2> HIDE DEF h0
  <2>2. h1 \in Hosts /\ SameButDive(h1, h0) /\ (h1.dive_guard => h0.dive_guard)
    BY <2>1, Forgotten DEF SameButDive
  <2> HIDE DEF h1
  <2>3. h2 \in Hosts /\ SameButDive(h2, h1) /\ h2.dive_guard = h1.dive_guard
    BY <2>2, Held
  <2> DEFINE h3 == H3(t)
             h4 == H4(t, launch)
  <2> HIDE DEF h2
  <2>4. h3 \in Hosts /\ SameButDive(h3, h2) /\ h3.dive_guard = h2.dive_guard
    BY <2>3, Advanced
  <2>5. h4 = IF launch /\ h3.departure = 0
             THEN hold_departure_edge([h3 EXCEPT !.departure = 1], FALSE)
             ELSE hold_departure_edge(h3, FALSE)
    OBVIOUS
  <2> HIDE DEF h3
  <2> DEFINE h5 == [h3 EXCEPT !.departure = 1]
  <2>6. h5 \in Hosts /\ SameButDive(h5, h3) /\ h5.dive_guard = h3.dive_guard
    <3>1. 1 \in 0 .. MaxDeparture
      BY Amounts
    <3> QED BY <2>4, <3>1 DEF Hosts, SameButDive
  <2>7. h4 \in Hosts /\ SameButDive(h4, h3) /\ h4.dive_guard = h3.dive_guard
    <3>1. CASE launch /\ h3.departure = 0
      <4>1. h4 = hold_departure_edge(h5, FALSE)
        BY <2>5, <3>1
      <4> HIDE DEF h4, h5
      <4>2. h4 \in Hosts /\ SameButDive(h4, h5) /\ h4.dive_guard = h5.dive_guard
        BY <2>6, <4>1, Held
      <4> QED BY <2>6, <4>2 DEF SameButDive
    <3>2. CASE ~(launch /\ h3.departure = 0)
      <4>1. h4 = hold_departure_edge(h3, FALSE)
        BY <2>5, <3>2
      <4> QED BY <2>4, <4>1, Held
    <3> QED BY <3>1, <3>2
  <2>8. h' = [h4 EXCEPT !.pending = TRUE, !.move = t.f.move, !.att = t.att]
    BY <1>1
  <2> HIDE DEF h4
  <2>9. h' \in Hosts /\ h'.move = t.f.move /\ h'.att = t.att
    BY <1>3, <2>7, <2>8 DEF Hosts, Fighters
  <2>10. /\ h'.armed = h4.armed /\ h'.consumed = h4.consumed
         /\ h'.stomp_guard = h4.stomp_guard /\ h'.impact = h4.impact /\ h'.catch = h4.catch
         /\ h'.impact_guard = h4.impact_guard /\ h'.catch_guard = h4.catch_guard
         /\ h'.dive_guard = h4.dive_guard /\ h'.stamped = h4.stamped
    BY <2>7, <2>8 DEF Hosts
  <2> QED BY <2>1, <2>2, <2>3, <2>4, <2>7, <2>9, <2>10 DEF SameButDive
<1>5. /\ g' \in Guests /\ g'.phase = g.phase /\ g'.by = g.by
      /\ g'.timer = g.timer \/ (g'.timer = 0 /\ h.dive_guard /\ g.timer = 1)
  <2> DEFINE g1 == Lift(g, ~Foreign /\ h.dive_guard)
  <2>1. /\ g1 \in Guests /\ g1.phase = g.phase /\ g1.by = g.by
        /\ g1.timer = IF ~Foreign /\ h.dive_guard /\ g.timer = 1 THEN 0 ELSE g.timer
    <3>1. (~Foreign /\ h.dive_guard) \in BOOLEAN
      BY <1>0 DEF Hosts
    <3> QED BY <1>0, <3>1, Lifted
  <2>2. PICK a \in BOOLEAN : g' = [g1 EXCEPT !.air = a]
    BY <1>1
  <2> HIDE DEF g1
  <2>3. g' \in Guests /\ g'.phase = g1.phase /\ g'.by = g1.by /\ g'.timer = g1.timer
    BY <2>1, <2>2 DEF Guests
  <2> QED BY <2>1, <2>3
<1>6. /\ ledger' \in Ledgers
      /\ ledger'.latch = NoSlot \/ (ledger'.latch = ledger.latch /\ ledger'.id = ledger.id)
  <2>1. t.f.move \in Moves
    BY <1>3 DEF Fighters
  <2>2. PICK active \in BOOLEAN : ledger' = combat_ledger_update(ledger, t.f.move, active)
    BY <1>1
  <2> QED BY <1>0, <2>1, <2>2, LedgerUpdated
<1>7. /\ ghost' \in Histories /\ ghost'.bounces = 0 /\ ghost'.served = ghost.served
      /\ ghost'.rescued = ghost.rescued
      /\ ghost'.owed = IF ledger'.latch = NoSlot THEN <<>> ELSE ghost.owed
  <2>1. ghost' = [ghost EXCEPT !.owed = IF ledger'.latch = NoSlot THEN <<>> ELSE @,
                              !.bounces = 0]
    BY <1>1
  <2>2. 0 \in 0 .. 1
    OBVIOUS
  <2>3. CASE ledger'.latch = NoSlot
    <3>1. ghost' = [ghost EXCEPT !.owed = <<>>, !.bounces = 0]
      BY <1>0, <2>1, <2>3 DEF Histories
    <3>2. ghost' \in Histories
      BY <1>0, <2>2, <3>1 DEF Histories
    <3> QED BY <1>0, <2>3, <3>1, <3>2 DEF Histories
  <2>4. CASE ledger'.latch # NoSlot
    <3>1. ghost' = [ghost EXCEPT !.bounces = 0]
      BY <1>0, <2>1, <2>4 DEF Histories
    <3>2. ghost' \in Histories
      BY <1>0, <2>2, <3>1 DEF Histories
    <3> QED BY <1>0, <2>4, <3>1, <3>2 DEF Histories
  <2> QED BY <2>3, <2>4
<1> HIDE DEF x, h0, h1, h2, H3, H4
<1>8. HostTypes'
  BY <1>1, <1>2, <1>3, <1>4, <1>5, <1>6, <1>7 DEF HostTypes
<1>9. CountInv' /\ LatchInv'
  BY <1>2, <1>4, <1>6, <1>7 DEF CountInv, LatchInv
<1>10. MarioInv' /\ MoveInv'
  <2>1. f' = t.f
    BY <1>1
  <2> QED BY <1>2, <1>3, <1>4, <2>1 DEF MarioInv, MoveInv, impact_guard_state
<1>11. TimerInv'
  BY <1>0, <1>2, <1>4, <1>5 DEF TimerInv, Guards, Guests
<1>12. AcceptedInv' /\ GuardInv'
  BY <1>2, <1>4, <1>5, <1>7 DEF AcceptedInv, GuardInv, Settled, Empty
<1> QED BY <1>8, <1>9, <1>10, <1>11, <1>12

LEMMA CrushStep ==
  ASSUME HostInv, SmwFalconBeforeCrushCheck PROVE HostInv'
<1> USE DEF HostInv
<1>0. h \in Hosts /\ f \in Fighters
  BY DEF HostTypes
<1>1. /\ seam[1] = "body" /\ seam' = seam /\ g' = g /\ spr' = spr /\ own' = own
      /\ ledger' = ledger /\ ghost' = ghost
  BY DEF SmwFalconBeforeCrushCheck
<1>2. f' \in Fighters /\ (f' = f \/ (~f'.fresh /\ f'.move \in {"catch", "idle", "run"}))
  <2>1. f' \in foreign_resolve(f, Hit(TRUE, TRUE, FALSE, FALSE))
    BY DEF SmwFalconBeforeCrushCheck
  <2> QED BY <1>0, <2>1, Resolved
<1>3. /\ h' \in Hosts /\ ~h'.pending
      /\ h'.armed = h.armed /\ h'.consumed = h.consumed /\ h'.impact = h.impact
      /\ h'.catch = h.catch /\ h'.iframes = h.iframes /\ h'.stamped = h.stamped
      /\ h'.att = h.att /\ h'.move = h.move /\ h'.stomp_guard = h.stomp_guard
      /\ h'.dive_guard = h.dive_guard /\ h'.impact_guard = h.impact_guard
      /\ h'.catch_guard = h.catch_guard
  <2>1. h' = [h EXCEPT !.pending = FALSE, !.departure = 0]
    BY DEF SmwFalconBeforeCrushCheck
  <2>2. 0 \in 0 .. MaxDeparture
    BY Amounts
  <2>3. h' \in Hosts
    BY <1>0, <2>1, <2>2 DEF Hosts
  <2> QED BY <1>0, <2>1, <2>3 DEF Hosts
<1>4. HostTypes'
  BY <1>1, <1>2, <1>3 DEF HostTypes
<1>5. CountInv' /\ LatchInv' /\ TimerInv'
  BY <1>1, <1>3 DEF CountInv, LatchInv, TimerInv, Guards
<1>6. MarioInv' /\ MoveInv'
  BY <1>1, <1>2, <1>3 DEF MarioInv, MoveInv, Guards
<1>7. AcceptedInv' /\ GuardInv'
  BY <1>1, <1>2, <1>3 DEF AcceptedInv, GuardInv, Settled, Empty
<1> QED BY <1>4, <1>5, <1>6, <1>7

LEMMA SkipStep ==
  ASSUME HostInv, SkipAfterPhysics PROVE HostInv'
<1> USE DEF HostInv
<1>0. g \in Guests
  BY DEF HostTypes
<1>1. /\ seam[1] = "body" /\ seam' = <<"80D2", 0>> /\ seam' \in Seams
      /\ spr' = spr /\ own' = own /\ f' = f /\ h' = h
      /\ ledger' = ledger /\ ghost' = ghost
  BY SeamPlaces, Amounts DEF SkipAfterPhysics, Goto
<1>2. g' \in Guests /\ g'.timer = g.timer /\ g'.by = g.by
  <2>1. PICK air \in BOOLEAN, p \in {g.phase, "dead"} : g' = [g EXCEPT !.air = air, !.phase = p]
    BY DEF SkipAfterPhysics
  <2> QED BY <1>0, <2>1 DEF Guests, Phases
<1>3. HostTypes' /\ CountInv' /\ LatchInv'
  BY <1>1, <1>2 DEF HostTypes, CountInv, LatchInv
<1>4. MarioInv' /\ MoveInv'
  BY <1>1 DEF MarioInv, MoveInv, Guards
<1>5. TimerInv'
  BY <1>0, <1>1, <1>2 DEF TimerInv, Guards, Guests
<1>6. AcceptedInv' /\ GuardInv'
  BY <1>1, <1>2 DEF AcceptedInv, GuardInv, Settled, Empty
<1> QED BY <1>3, <1>4, <1>5, <1>6

(* What a seam's combat records is what the ledger latched.                *)
LEMMA OwedLatched ==
  ASSUME HostTypes, LatchInv, NEW n \in Ledgers,
         n.latch = NoSlot \/ n = ledger \/ Extends(ledger, n)
  PROVE  /\ Owed(n) = IF n.latch = NoSlot THEN <<>> ELSE <<n.latch, n.id>>
         /\ Owed(n) \in {<<>>} \cup Slots \X (Kinds \cup {"none"})
<1>1. CASE n.latch = NoSlot
  BY <1>1 DEF Owed
<1>2. CASE n.latch # NoSlot
  <2>1. n.latch \in Slots /\ n.id \in Kinds \cup {"none"}
    BY <1>2 DEF Ledgers
  <2>2. CASE ledger.latch = NoSlot
    <3>1. ghost.owed = <<>> /\ n.id = spr[n.latch]
      BY <1>2, <2>2 DEF LatchInv, Extends
    <3> QED BY <1>2, <2>1, <3>1 DEF Owed
  <2>3. CASE ledger.latch # NoSlot
    <3>1. ghost.owed = <<n.latch, n.id>>
      BY <1>2, <2>3 DEF LatchInv, Extends
    <3>2. <<n.latch, n.id>> # <<>>
      OBVIOUS
    <3> QED BY <1>2, <2>1, <3>1, <3>2 DEF Owed
  <2> QED BY <2>2, <2>3
<1> QED BY <1>1, <1>2

LEMMA AfterPhysicsStep ==
  ASSUME HostInv, NEW air \in BOOLEAN, NEW accepted \in BOOLEAN, NEW wall \in BOOLEAN,
         SmwFalconAfterPhysics(air, accepted, wall)
  PROVE  HostInv'
<1> USE DEF HostInv
<1>0. /\ g \in Guests /\ h \in Hosts /\ ghost \in Histories /\ ledger \in Ledgers
      /\ f \in Fighters
  BY DEF HostTypes
<1>1. /\ seam[1] = "body" /\ seam' = <<"80D2", 0>> /\ seam' \in Seams /\ own' = own
  BY SeamPlaces, Amounts DEF SmwFalconAfterPhysics, Goto
<1>2. g' \in Guests /\ g'.timer = g.timer /\ g'.by = g.by /\ g'.phase = g.phase
  <2>1. g' = [g EXCEPT !.air = air]
    BY DEF SmwFalconAfterPhysics
  <2> QED BY <1>0, <2>1 DEF Guests
<1>3. CASE ~h.pending \/ ~Foreign
  <2>1. spr' = spr /\ f' = f /\ h' = h /\ ledger' = ledger /\ ghost' = ghost
    BY <1>3 DEF SmwFalconAfterPhysics
  <2>2. HostTypes' /\ CountInv' /\ LatchInv'
    BY <1>1, <1>2, <2>1 DEF HostTypes, CountInv, LatchInv
  <2>3. MarioInv' /\ MoveInv'
    BY <1>1, <2>1 DEF MarioInv, MoveInv, Guards
  <2>4. TimerInv'
    BY <1>0, <1>1, <1>2, <2>1 DEF TimerInv, Guards, Guests
  <2>5. AcceptedInv' /\ GuardInv'
    BY <1>1, <1>2, <2>1 DEF AcceptedInv, GuardInv, Settled, Empty
  <2> QED BY <2>2, <2>3, <2>4, <2>5
<1>4. CASE h.pending /\ Foreign
  <2> DEFINE h1 == [h EXCEPT !.departure = IF accepted THEN 0 ELSE @]
             hit == Hit(h.departure = 0 /\ ~air, wall, FALSE, FALSE)
  <2>1. PICK o \in apply_combat_once(h1, ledger, f) :
          /\ spr' = o.spr /\ ledger' = o.l
          /\ f' \in foreign_resolve(f, [hit EXCEPT !.connected = o.connected])
          /\ h' = [o.h EXCEPT !.armed = TRUE, !.pending = FALSE]
          /\ ghost' = Ghost(o.l, o.served)
    BY <1>4 DEF SmwFalconAfterPhysics
  <2>2. /\ h1 \in Hosts
        /\ h1.consumed = h.consumed /\ h1.impact = h.impact
        /\ h1.catch = h.catch /\ h1.iframes = h.iframes /\ h1.stamped = h.stamped
        /\ h1.att = h.att /\ h1.move = h.move /\ h1.stomp_guard = h.stomp_guard
        /\ h1.dive_guard = h.dive_guard /\ h1.impact_guard = h.impact_guard
        /\ h1.catch_guard = h.catch_guard
    <3>1. (IF accepted THEN 0 ELSE h.departure) \in 0 .. MaxDeparture
      BY <1>0, Amounts DEF Hosts
    <3>2. h1 \in Hosts
      BY <1>0, <3>1 DEF Hosts
    <3> QED BY <1>0, <3>2 DEF Hosts
  <2> HIDE DEF h1
  <2>3. /\ o.h \in Hosts /\ o.l \in Ledgers /\ o.spr \in [Slots -> Kinds]
        /\ o.served \in {0, 1}
        /\ SameButCombat(o.h, h1)
        /\ o.served = 1 => ~h1.stamped /\ o.h.stamped
        /\ o.served = 0 => o.h = h1
        /\ ~f.fresh => /\ Extends(ledger, o.l)
                       /\ h1.impact \cup h1.catch \subseteq ledger.hit \cup {ledger.latch} =>
                            o.h.impact \cup o.h.catch \subseteq o.l.hit \cup {o.l.latch}
        /\ f.fresh => /\ o.h.impact = h1.impact /\ o.h.catch = h1.catch
                      /\ o.l.latch = NoSlot \/ o.l = ledger
    <3>1. f.fresh => h1.att = "none" /\ ~impact_guard_state(h1.move)
      BY <2>2 DEF MoveInv
    <3> QED BY <1>0, <2>2, <3>1, Served
  <2>4. /\ o.h.consumed = h.consumed /\ o.h.iframes = h.iframes
        /\ o.h.att = h.att /\ o.h.move = h.move /\ o.h.stomp_guard = h.stomp_guard
        /\ o.h.dive_guard = h.dive_guard /\ o.h.impact_guard = h.impact_guard
        /\ o.h.catch_guard = h.catch_guard
    BY <2>2, <2>3 DEF SameButCombat
  <2> HIDE DEF hit
  <2>5. /\ h' \in Hosts /\ ~h'.pending
        /\ h'.consumed = h.consumed /\ h'.iframes = h.iframes
        /\ h'.att = h.att /\ h'.move = h.move /\ h'.stomp_guard = h.stomp_guard
        /\ h'.dive_guard = h.dive_guard /\ h'.impact_guard = h.impact_guard
        /\ h'.catch_guard = h.catch_guard
        /\ h'.impact = o.h.impact /\ h'.catch = o.h.catch /\ h'.stamped = o.h.stamped
    <3>1. h' = [o.h EXCEPT !.armed = TRUE, !.pending = FALSE]
      BY <2>1
    <3>2. h' \in Hosts
      BY <2>3, <3>1 DEF Hosts
    <3>3. /\ ~h'.pending /\ h'.consumed = o.h.consumed /\ h'.iframes = o.h.iframes
          /\ h'.att = o.h.att /\ h'.move = o.h.move /\ h'.stomp_guard = o.h.stomp_guard
          /\ h'.dive_guard = o.h.dive_guard /\ h'.impact_guard = o.h.impact_guard
          /\ h'.catch_guard = o.h.catch_guard
          /\ h'.impact = o.h.impact /\ h'.catch = o.h.catch /\ h'.stamped = o.h.stamped
      BY <2>3, <3>1 DEF Hosts
    <3> QED BY <2>4, <3>2, <3>3
  <2>6. f' \in Fighters /\ (f' = f \/ (~f'.fresh /\ f'.move \in {"catch", "idle", "run"}))
    BY <1>0, <2>1, Resolved
  <2>7. /\ Owed(o.l) = IF o.l.latch = NoSlot THEN <<>> ELSE <<o.l.latch, o.l.id>>
        /\ Owed(o.l) \in {<<>>} \cup Slots \X (Kinds \cup {"none"})
    BY <2>3, OwedLatched
  <2>8. ghost.served + o.served \in 0 .. 1 /\ (ghost.served + o.served = 1 => o.h.stamped)
    BY <1>0, <2>2, <2>3 DEF CountInv, Histories
  <2>9. /\ ghost' \in Histories /\ ghost'.owed = Owed(o.l)
        /\ ghost'.served = ghost.served + o.served
        /\ ghost'.bounces = ghost.bounces /\ ghost'.rescued = ghost.rescued
    <3> DEFINE w == Owed(o.l)
               n == ghost.served + o.served
    <3>1. ghost' = [ghost EXCEPT !.owed = w, !.served = n]
      BY <1>0, <2>1 DEF Ghost, Histories
    <3>2. w \in {<<>>} \cup Slots \X (Kinds \cup {"none"}) /\ n \in 0 .. 1
      BY <2>7, <2>8
    <3> HIDE DEF w, n
    <3>3. ghost' \in Histories
      BY <1>0, <3>1, <3>2 DEF Histories
    <3>4. /\ ghost'.owed = w /\ ghost'.served = n
          /\ ghost'.bounces = ghost.bounces /\ ghost'.rescued = ghost.rescued
      BY <1>0, <3>1 DEF Histories
    <3> QED BY <3>3, <3>4 DEF w, n
  <2>10. spr' = o.spr /\ ledger' = o.l
    BY <2>1
  <2>11. HostTypes'
    BY <1>1, <1>2, <2>3, <2>5, <2>6, <2>9, <2>10 DEF HostTypes
  <2>12. CountInv'
    BY <1>1, <2>5, <2>8, <2>9 DEF CountInv
  <2>13. LatchInv'
    BY <2>7, <2>9, <2>10 DEF LatchInv
  <2>14. MarioInv' /\ MoveInv'
    BY <1>1, <1>4, <2>5, <2>6 DEF MarioInv, MoveInv
  <2>15. TimerInv'
    BY <1>0, <1>1, <1>2, <2>5 DEF TimerInv, Guards, Guests
  <2>16. ~ghost'.rescued => /\ h'.impact \cup h'.catch \subseteq ledger'.hit \cup {ledger'.latch}
                            /\ f'.fresh => h'.impact = {} /\ h'.catch = {}
    <3>1. ~ghost'.rescued => h1.impact = {} /\ h1.catch = {}
      BY <1>1, <2>2, <2>9 DEF AcceptedInv, Empty
    <3> QED BY <2>3, <2>5, <2>6, <2>10, <3>1
  <2>17. AcceptedInv' /\ GuardInv'
    BY <1>1, <1>2, <2>5, <2>16 DEF AcceptedInv, GuardInv, Settled, Empty
  <2> QED BY <2>11, <2>12, <2>13, <2>14, <2>15, <2>17
<1> QED BY <1>3, <1>4

-----------------------------------------------------------------------------
(* A slot's own code.                                                      *)

LEMMA ContactStep ==
  ASSUME HostInv, NEW k \in Slots, Contact(k) PROVE HostInv'
<1> USE DEF HostInv
<1>1. /\ seam[1] = "contact" /\ seam' \in Seams /\ seam'[1] \in {"frame", "80D2"}
      /\ g' = g /\ own' = own /\ f' = f /\ h' = h /\ ledger' = ledger /\ ghost' = ghost
  BY NextPlace DEF Contact
<1>2. spr' \in [Slots -> Kinds]
  <2>1. PICK kind \in Spawns[k] : spr' = [spr EXCEPT ![k] = kind]
    BY DEF Contact
  <2>2. kind \in Kinds
    BY <2>1, SpawnsAssumption DEF Slots, Kinds
  <2> QED BY <2>1, <2>2 DEF HostTypes
<1>3. HostTypes' /\ CountInv' /\ LatchInv' /\ MarioInv' /\ MoveInv'
  BY <1>1, <1>2 DEF HostTypes, CountInv, LatchInv, MarioInv, MoveInv, Guards
<1>4. TimerInv'
  BY <1>1 DEF TimerInv, Guards
<1>5. AcceptedInv' /\ GuardInv'
  BY <1>1 DEF AcceptedInv, GuardInv, Settled, Empty
<1> QED BY <1>3, <1>4, <1>5

LEMMA HurtStep ==
  ASSUME HostInv, NEW k \in Slots, Hurt(k) PROVE HostInv'
<1> USE DEF HostInv
<1>0. g \in Guests /\ g.timer = 0
  BY DEF HostTypes, Hurt
<1>1. /\ seam[1] = "contact" /\ seam' \in Seams /\ seam'[1] \in {"frame", "80D2"}
      /\ spr' = spr /\ own' = own /\ f' = f /\ h' = h /\ ledger' = ledger /\ ghost' = ghost
  BY NextPlace DEF Hurt
<1>2. g' \in Guests /\ g'.timer = 0 /\ g'.by = g.by
  <2>1. PICK p \in {"script", "dead"} : g' = [g EXCEPT !.phase = p]
    BY DEF Hurt
  <2> QED BY <1>0, <2>1 DEF Guests, Phases
<1>3. HostTypes' /\ CountInv' /\ LatchInv' /\ MarioInv' /\ MoveInv'
  BY <1>1, <1>2 DEF HostTypes, CountInv, LatchInv, MarioInv, MoveInv, Guards
<1>4. TimerInv'
  BY <1>0, <1>1, <1>2 DEF TimerInv, Guards
<1>5. AcceptedInv' /\ GuardInv'
  BY <1>1, <1>2 DEF AcceptedInv, GuardInv, Settled, Empty
<1> QED BY <1>3, <1>4, <1>5

LEMMA BounceStep ==
  ASSUME HostInv, NEW k \in Slots, SmwFalconOnNativeStompBounce(k) PROVE HostInv'
<1> USE DEF HostInv
<1>0. g \in Guests /\ h \in Hosts /\ f \in Fighters /\ ghost \in Histories
  BY DEF HostTypes
<1>1. /\ seam[1] = "contact" /\ seam' \in Seams /\ seam'[1] \in {"frame", "80D2"}
      /\ spr' = spr /\ own' = own /\ ledger' = ledger
  BY NextPlace DEF SmwFalconOnNativeStompBounce
<1>2. CASE ~h.armed \/ ~Foreign
  <2>1. g' = g /\ f' = f /\ h' = h /\ ghost' = ghost
    BY <1>2 DEF SmwFalconOnNativeStompBounce
  <2>2. HostTypes' /\ CountInv' /\ LatchInv' /\ MarioInv' /\ MoveInv'
    BY <1>1, <2>1 DEF HostTypes, CountInv, LatchInv, MarioInv, MoveInv, Guards
  <2>3. TimerInv'
    BY <1>1, <2>1 DEF TimerInv, Guards
  <2>4. AcceptedInv' /\ GuardInv'
    BY <1>1, <2>1 DEF AcceptedInv, GuardInv, Settled, Empty
  <2> QED BY <2>2, <2>3, <2>4
<1>3. CASE h.armed /\ Foreign
  <2>1. /\ g' \in Guests /\ g'.phase = g.phase
        /\ IF g.timer = 0 THEN g'.timer = 1 /\ g'.by = "bridge" ELSE g' = g
    <3>1. g' = Install(g, TRUE)
      BY <1>3 DEF SmwFalconOnNativeStompBounce
    <3> QED BY <1>0, <3>1, Installed
  <2>2. /\ h' \in Hosts /\ ~h'.armed /\ h'.consumed
        /\ h'.stomp_guard = (h.stomp_guard \/ g.timer = 0)
        /\ h'.pending = h.pending /\ h'.impact = h.impact /\ h'.catch = h.catch
        /\ h'.stamped = h.stamped /\ h'.att = h.att /\ h'.move = h.move
        /\ h'.dive_guard = h.dive_guard /\ h'.impact_guard = h.impact_guard
        /\ h'.catch_guard = h.catch_guard
    <3> DEFINE b == h.stomp_guard \/ g.timer = 0
    <3>1. h' = [h EXCEPT !.armed = FALSE, !.consumed = TRUE, !.stomp_guard = b]
      BY <1>0, <1>3 DEF SmwFalconOnNativeStompBounce, Hosts
    <3>2. b \in BOOLEAN
      BY <1>0 DEF Hosts
    <3> HIDE DEF b
    <3>3. h' \in Hosts
      BY <1>0, <3>1, <3>2 DEF Hosts
    <3>4. /\ ~h'.armed /\ h'.consumed /\ h'.stomp_guard = b
          /\ h'.pending = h.pending /\ h'.impact = h.impact /\ h'.catch = h.catch
          /\ h'.stamped = h.stamped /\ h'.att = h.att /\ h'.move = h.move
          /\ h'.dive_guard = h.dive_guard /\ h'.impact_guard = h.impact_guard
          /\ h'.catch_guard = h.catch_guard
      BY <1>0, <3>1 DEF Hosts
    <3> QED BY <3>3, <3>4 DEF b
  <2>3. f' \in Fighters /\ (f' = f \/ (~f'.fresh /\ f'.move \in {"catch", "idle", "run"}))
    <3>1. f' \in foreign_resolve(f, Hit(FALSE, FALSE, FALSE, TRUE))
      BY <1>3 DEF SmwFalconOnNativeStompBounce
    <3> QED BY <1>0, <3>1, Resolved
  <2>4. /\ ghost' \in Histories /\ ghost'.bounces = 1 /\ ghost'.served = ghost.served
        /\ ghost'.owed = ghost.owed /\ ghost'.rescued = ghost.rescued
    <3>1. ghost.bounces = 0
      BY <1>0, <1>3 DEF CountInv, Histories
    <3>2. ghost' = [ghost EXCEPT !.bounces = 1]
      BY <1>0, <1>3, <3>1 DEF SmwFalconOnNativeStompBounce, Histories
    <3>3. 1 \in 0 .. 1
      OBVIOUS
    <3>4. ghost' \in Histories
      BY <1>0, <3>2, <3>3 DEF Histories
    <3> QED BY <1>0, <3>2, <3>4 DEF Histories
  <2>5. HostTypes'
    BY <1>1, <2>1, <2>2, <2>3, <2>4 DEF HostTypes
  <2>6. CountInv' /\ LatchInv'
    BY <1>1, <2>2, <2>4 DEF CountInv, LatchInv
  <2>7. MarioInv' /\ MoveInv'
    BY <1>1, <1>3, <2>2, <2>3 DEF MarioInv, MoveInv
  <2>8. TimerInv'
    <3>1. CASE g.timer = 0
      BY <1>1, <2>1, <3>1 DEF TimerInv
    <3>2. CASE g.timer # 0
      <4>1. g' = g /\ (h'.stomp_guard => h.stomp_guard)
        BY <2>1, <2>2, <3>2
      <4>2. Guards' => Guards
        BY <2>2, <4>1 DEF Guards
      <4> QED BY <1>1, <4>1, <4>2 DEF TimerInv
    <3> QED BY <3>1, <3>2
  <2>9. AcceptedInv' /\ GuardInv'
    BY <1>1, <2>1, <2>2, <2>3, <2>4 DEF AcceptedInv, GuardInv, Settled, Empty
  <2> QED BY <2>5, <2>6, <2>7, <2>8, <2>9
<1> QED BY <1>2, <1>3

-----------------------------------------------------------------------------
(* The seam before a sprite slot, in the order the code takes it: an aerial *)
(* kick that landed ends, the last slot's guard is lifted, combat is       *)
(* served if CD36 was skipped, a dive turns into a catch, and the slot is  *)
(* guarded.                                                                *)

(* The guard a slot gets is one the move accepted it for.                  *)
LEMMA SlotGuarded ==
  ASSUME NEW s, NEW k
  PROVE  /\ SlotGuard(s, k) = "dive" => s.iframes
         /\ SlotGuard(s, k) = "impact" => k \in s.impact
         /\ SlotGuard(s, k) = "catch" => k \in s.catch
BY DEF SlotGuard

LEMMA NormalSpritesStep ==
  ASSUME HostInv, NEW k \in Slots, SmwFalconBeforeNormalSprites(k) PROVE HostInv'
<1> USE DEF HostInv
<1>0. /\ g \in Guests /\ h \in Hosts /\ ghost \in Histories /\ ledger \in Ledgers
      /\ f \in Fighters
  BY DEF HostTypes
<1> DEFINE landed == KickLanded
           h1 == finish_skipped_direct_air_kick_landing(h)
           f1 == IF landed THEN cf_reset ELSE f
           l1 == IF landed THEN NoLedger ELSE ledger
           h2 == [h1 EXCEPT !.armed =
                    @ \/ (h1.pending /\ ~h1.consumed /\ playable /\ Foreign),
                    !.impact_guard = FALSE, !.catch_guard = FALSE]
           g1 == Lift(g, ~h1.iframes /\ (h1.impact_guard \/ h1.catch_guard))
           Grabbed(o) == o.connected /\ o.h.att = "catch"
           Caught(o) == Grabbed(o) /\ f1.move = "dive" /\ Foreign
           H3(o) == IF Caught(o) THEN [o.h EXCEPT !.move = "catch", !.att = "none"] ELSE o.h
           H4(o) == IF playable /\ Foreign THEN H3(o)
                    ELSE [H3(o) EXCEPT !.impact = {}, !.catch = {}]
           Guard(o) == SlotGuard(H4(o), k)
           G2(o) == Install(g1, Guard(o) # "none")
           set == g1.timer = 0
           title == Active /\ g.phase = "title"
<1>1. PICK o \in apply_combat_once(h2, l1, f1) :
        /\ spr' = o.spr
        /\ ledger' = IF Caught(o) THEN combat_ledger_update(o.l, "catch", FALSE) ELSE o.l
        /\ f' = IF Caught(o) THEN Fighter("catch", FALSE) ELSE f1
        /\ h' = [H4(o) EXCEPT !.dive_guard = @ \/ (set /\ Guard(o) = "dive"),
                              !.impact_guard = set /\ Guard(o) = "impact",
                              !.catch_guard = set /\ Guard(o) = "catch"]
        /\ g' = IF title THEN [G2(o) EXCEPT !.timer = 1, !.by = "title"] ELSE G2(o)
        /\ ghost' = Ghost(ledger', o.served)
  BY DEF SmwFalconBeforeNormalSprites
<1>2. /\ seam[1] = "80D2" /\ seam' = <<"contact", k>> /\ seam' \in Seams /\ own' = own
  BY SeamPlaces DEF SmwFalconBeforeNormalSprites, Goto
(* The host, the fighter and the ledger that combat is served with.        *)
<1>3. /\ h1 \in Hosts
      /\ h1.armed = h.armed /\ h1.consumed = h.consumed /\ h1.catch = h.catch
      /\ h1.iframes = h.iframes /\ h1.stamped = h.stamped
      /\ h1.stomp_guard = h.stomp_guard /\ h1.dive_guard = h.dive_guard
      /\ h1.impact_guard = h.impact_guard /\ h1.catch_guard = h.catch_guard
      /\ IF landed THEN h1.move = "idle" /\ h1.att = "none" /\ h1.impact = {} /\ ~h1.pending
         ELSE h1 = h
  <2>1. CASE landed
    <3>1. h1 = [h EXCEPT !.move = "idle", !.att = "none", !.impact = {}, !.pending = FALSE]
      BY <2>1 DEF finish_skipped_direct_air_kick_landing
    <3> HIDE DEF h1, landed
    <3>2. h1 \in Hosts
      BY <1>0, <3>1 DEF Hosts, Moves, Classes
    <3> QED BY <1>0, <2>1, <3>1, <3>2 DEF Hosts
  <2>2. CASE ~landed
    BY <1>0, <2>2 DEF finish_skipped_direct_air_kick_landing
  <2> QED BY <2>1, <2>2
<1>4. landed => h.pending /\ f.move = "kickair" /\ playable /\ Foreign
  BY DEF KickLanded
<1> HIDE DEF h1, landed
<1>5. /\ h2 \in Hosts /\ (h2.armed => h.armed \/ ~h.consumed)
      /\ h2.consumed = h1.consumed /\ h2.catch = h1.catch /\ h2.impact = h1.impact
      /\ h2.iframes = h1.iframes /\ h2.stamped = h1.stamped /\ h2.pending = h1.pending
      /\ h2.stomp_guard = h1.stomp_guard /\ h2.dive_guard = h1.dive_guard
      /\ h2.move = h1.move /\ h2.att = h1.att
  <2> DEFINE b == h1.armed \/ (h1.pending /\ ~h1.consumed /\ playable /\ Foreign)
  <2>1. h2 = [h1 EXCEPT !.armed = b, !.impact_guard = FALSE, !.catch_guard = FALSE]
    BY <1>3 DEF Hosts
  <2>2. b \in BOOLEAN /\ (b => h.armed \/ ~h.consumed)
    BY <1>3 DEF Hosts
  <2> HIDE DEF b, h2
  <2>3. h2 \in Hosts
    BY <1>3, <2>1, <2>2 DEF Hosts
  <2>4. /\ h2.armed = b
        /\ h2.consumed = h1.consumed /\ h2.catch = h1.catch /\ h2.impact = h1.impact
        /\ h2.iframes = h1.iframes /\ h2.stamped = h1.stamped /\ h2.pending = h1.pending
        /\ h2.stomp_guard = h1.stomp_guard /\ h2.dive_guard = h1.dive_guard
        /\ h2.move = h1.move /\ h2.att = h1.att
    BY <1>3, <2>1 DEF Hosts
  <2> QED BY <2>2, <2>3, <2>4
<1> HIDE DEF h2
<1>6. /\ f1 \in Fighters /\ (f1.fresh => f1 = f /\ ~landed)
      /\ (f1.move = "kickair" => f1 = f /\ ~landed)
  BY <1>0 DEF cf_reset, Fighter, Fighters, Moves, Classes
<1>7. l1 \in Ledgers /\ (landed => l1.latch = NoSlot) /\ (~landed => l1 = ledger)
  BY <1>0 DEF NoLedger, Ledgers
<1>8. f1.fresh => h2.att = "none" /\ ~impact_guard_state(h2.move)
  BY <1>3, <1>5, <1>6 DEF MoveInv
<1>9. h2.att = "catch" => f1.move # "kickair"
  BY <1>3, <1>5, <1>6 DEF MoveInv
<1>10. playable /\ Foreign /\ ~ghost.rescued =>
         /\ h2.impact \cup h2.catch \subseteq l1.hit \cup {l1.latch}
         /\ f1.fresh => h2.impact = {} /\ h2.catch = {}
         /\ h2.pending /\ f1.move = "kickair" => h2.catch = {}
  <2>1. CASE landed
    BY <1>2, <1>3, <1>4, <1>5, <1>6, <2>1 DEF AcceptedInv, Settled
  <2>2. CASE ~landed
    BY <1>2, <1>3, <1>5, <1>6, <1>7, <2>2 DEF AcceptedInv, Settled, Empty
  <2> QED BY <2>1, <2>2
<1>11. landed => ~f1.fresh /\ h2.att = "none"
  BY <1>3, <1>5, <1>6
<1> HIDE DEF f1, l1
(* What it serves.                                                         *)
<1>12. /\ o.h \in Hosts /\ o.l \in Ledgers /\ o.spr \in [Slots -> Kinds]
       /\ o.served \in {0, 1}
       /\ SameButCombat(o.h, h2)
       /\ o.served = 1 => ~h2.stamped /\ o.h.stamped
       /\ o.served = 0 => o.h = h2 /\ o.l = l1
       /\ h2.att = "none" /\ ~f1.fresh => o.served = 0
       /\ o.h.catch # h2.catch => h2.att = "catch"
       /\ ~f1.fresh => /\ Extends(l1, o.l)
                       /\ h2.impact \cup h2.catch \subseteq l1.hit \cup {l1.latch} =>
                            o.h.impact \cup o.h.catch \subseteq o.l.hit \cup {o.l.latch}
       /\ f1.fresh => /\ o.h.impact = h2.impact /\ o.h.catch = h2.catch
                      /\ o.l.latch = NoSlot \/ o.l = l1
       /\ o.connected /\ h2.att = "catch" => o.l.latch # NoSlot
  BY <1>5, <1>6, <1>7, <1>8, Served
<1>13. /\ ledger' \in Ledgers /\ ledger'.hit = o.l.hit /\ ledger'.latch = o.l.latch
       /\ ledger'.id = o.l.id
  <2>1. CASE Caught(o)
    <3>1. ledger' = combat_ledger_update(o.l, "catch", FALSE)
      BY <1>1, <2>1
    <3>2. o.l.latch # NoSlot
      BY <1>12, <2>1 DEF SameButCombat
    <3> QED BY <1>12, <3>1, <3>2, LedgerCaught
  <2>2. CASE ~Caught(o)
    BY <1>1, <1>12, <2>2
  <2> QED BY <2>1, <2>2
<1>14. /\ f' \in Fighters
       /\ f' = f1 \/ (~f'.fresh /\ f'.move = "catch" /\ Caught(o))
       /\ ~Caught(o) => f' = f1
  <2>1. Fighter("catch", FALSE) \in Fighters
    BY DEF Fighter, Fighters, Moves
  <2> QED BY <1>1, <1>6, <2>1 DEF Fighter
<1> DEFINE h3 == H3(o)
           h4 == H4(o)
           guard == Guard(o)
<1>15. /\ h3 \in Hosts /\ h3.armed = o.h.armed /\ h3.consumed = o.h.consumed
       /\ h3.impact = o.h.impact /\ h3.catch = o.h.catch /\ h3.iframes = o.h.iframes
       /\ h3.stamped = o.h.stamped /\ h3.pending = o.h.pending
       /\ h3.stomp_guard = o.h.stomp_guard /\ h3.dive_guard = o.h.dive_guard
       /\ IF Caught(o) THEN h3.att = "none" ELSE h3.att = o.h.att /\ h3.move = o.h.move
  <2>1. CASE Caught(o)
    <3>1. h3 = [o.h EXCEPT !.move = "catch", !.att = "none"]
      BY <2>1
    <3> HIDE DEF h3, Caught
    <3>2. h3 \in Hosts
      BY <1>12, <3>1 DEF Hosts, Moves
    <3> QED BY <1>12, <2>1, <3>1, <3>2 DEF Hosts
  <2>2. CASE ~Caught(o)
    BY <1>12, <2>2
  <2> QED BY <2>1, <2>2
<1>16. h4 = IF playable /\ Foreign THEN h3 ELSE [h3 EXCEPT !.impact = {}, !.catch = {}]
  OBVIOUS
<1> HIDE DEF h3
<1>17. /\ h4 \in Hosts /\ h4.armed = h3.armed /\ h4.consumed = h3.consumed
       /\ h4.iframes = h3.iframes /\ h4.stamped = h3.stamped /\ h4.pending = h3.pending
       /\ h4.stomp_guard = h3.stomp_guard /\ h4.dive_guard = h3.dive_guard
       /\ h4.att = h3.att /\ h4.move = h3.move
       /\ IF playable /\ Foreign THEN h4.impact = h3.impact /\ h4.catch = h3.catch
          ELSE h4.impact = {} /\ h4.catch = {}
  <2>1. CASE playable /\ Foreign
    BY <1>15, <1>16, <2>1
  <2>2. CASE ~(playable /\ Foreign)
    <3>1. h4 = [h3 EXCEPT !.impact = {}, !.catch = {}]
      BY <1>16, <2>2
    <3> HIDE DEF h4
    <3>2. h4 \in Hosts
      BY <1>15, <3>1 DEF Hosts
    <3> QED BY <1>15, <2>2, <3>1, <3>2 DEF Hosts
  <2> QED BY <2>1, <2>2
<1>18. guard = SlotGuard(h4, k)
  OBVIOUS
<1>19. h' = [h4 EXCEPT !.dive_guard = @ \/ (set /\ guard = "dive"),
                      !.impact_guard = set /\ guard = "impact",
                      !.catch_guard = set /\ guard = "catch"]
  BY <1>1
<1>20. g' = IF title THEN [Install(g1, guard # "none") EXCEPT !.timer = 1, !.by = "title"]
           ELSE Install(g1, guard # "none")
  BY <1>1
<1> HIDE DEF h4, guard
(* The timer.                                                              *)
<1>21. /\ g1 \in Guests /\ g1.phase = g.phase /\ g1.by = g.by
       /\ g1.timer = IF ~h.iframes /\ (h.impact_guard \/ h.catch_guard) /\ g.timer = 1
                     THEN 0 ELSE g.timer
  <2>1. (~h1.iframes /\ (h1.impact_guard \/ h1.catch_guard)) \in BOOLEAN
    BY <1>3 DEF Hosts
  <2> QED BY <1>0, <1>3, <2>1, Lifted
<1> HIDE DEF g1
<1>22. /\ g' \in Guests /\ g'.phase = g.phase
       /\ \/ g'.timer = 1 /\ g'.by = "title" /\ g.phase = "title"
          \/ g'.timer = 1 /\ g'.by = "bridge" /\ set /\ guard # "none"
          \/ g'.timer = g1.timer /\ g'.by = g.by
  <2> DEFINE g2 == Install(g1, guard # "none")
  <2>1. /\ g2 \in Guests /\ g2.phase = g.phase
        /\ IF guard # "none" /\ set THEN g2.timer = 1 /\ g2.by = "bridge" ELSE g2 = g1
    BY <1>21, Installed
  <2>2. g' = IF title THEN [g2 EXCEPT !.timer = 1, !.by = "title"] ELSE g2
    BY <1>20
  <2> HIDE DEF g2
  <2>3. CASE title
    <3>1. g' = [g2 EXCEPT !.timer = 1, !.by = "title"]
      BY <2>2, <2>3
    <3>2. g' \in Guests
      BY <2>1, <3>1, Timers DEF Guests
    <3> QED BY <2>1, <2>3, <3>1, <3>2 DEF Guests
  <2>4. CASE ~title
    BY <1>21, <2>1, <2>2, <2>4
  <2> QED BY <2>3, <2>4
<1>23. /\ h' \in Hosts /\ h'.armed = h4.armed /\ h'.consumed = h4.consumed
       /\ h'.iframes = h4.iframes /\ h'.stamped = h4.stamped /\ h'.pending = h4.pending
       /\ h'.stomp_guard = h4.stomp_guard /\ h'.impact = h4.impact /\ h'.catch = h4.catch
       /\ h'.att = h4.att /\ h'.move = h4.move
       /\ (h'.dive_guard => h4.dive_guard \/ (set /\ guard = "dive"))
       /\ (h4.dive_guard => h'.dive_guard)
       /\ (h'.impact_guard <=> set /\ guard = "impact")
       /\ (h'.catch_guard <=> set /\ guard = "catch")
  <2> DEFINE d == h4.dive_guard \/ (set /\ guard = "dive")
             i == set /\ guard = "impact"
             c == set /\ guard = "catch"
  <2>1. h' = [h4 EXCEPT !.dive_guard = d, !.impact_guard = i, !.catch_guard = c]
    BY <1>17, <1>19 DEF Hosts
  <2>2. d \in BOOLEAN /\ i \in BOOLEAN /\ c \in BOOLEAN
    BY <1>17 DEF Hosts
  <2> HIDE DEF d, i, c
  <2>3. h' \in Hosts
    BY <1>17, <2>1, <2>2 DEF Hosts
  <2>4. /\ h'.dive_guard = d /\ h'.impact_guard = i /\ h'.catch_guard = c
        /\ h'.armed = h4.armed /\ h'.consumed = h4.consumed
        /\ h'.iframes = h4.iframes /\ h'.stamped = h4.stamped /\ h'.pending = h4.pending
        /\ h'.stomp_guard = h4.stomp_guard /\ h'.impact = h4.impact /\ h'.catch = h4.catch
        /\ h'.att = h4.att /\ h'.move = h4.move
    BY <1>17, <2>1 DEF Hosts
  <2> QED BY <2>3, <2>4 DEF d, i, c
<1>24. /\ guard = "dive" => h4.iframes
       /\ guard = "impact" => k \in h4.impact
       /\ guard = "catch" => k \in h4.catch
       /\ guard \in {"dive", "impact", "catch", "none"}
  BY <1>18, SlotGuarded DEF SlotGuard
(* All that changed of the host, the ledger and the guards.                *)
<1>25. /\ h'.armed => h.armed \/ ~h.consumed
       /\ h'.consumed = h.consumed /\ h'.iframes = h.iframes
       /\ h'.stamped = o.h.stamped /\ (h'.pending => h.pending /\ ~landed)
       /\ h'.stomp_guard = h.stomp_guard /\ (h.dive_guard => h'.dive_guard)
       /\ h'.dive_guard => h.dive_guard \/ (set /\ guard = "dive")
       /\ h4.iframes = h.iframes
       /\ IF Caught(o) THEN h'.att = "none" ELSE h'.att = h2.att /\ h'.move = h2.move
       /\ IF playable /\ Foreign THEN h'.impact = o.h.impact /\ h'.catch = o.h.catch
          ELSE h'.impact = {} /\ h'.catch = {}
       /\ h'.pending = h2.pending
  BY <1>3, <1>5, <1>12, <1>15, <1>17, <1>23 DEF SameButCombat
<1>26. /\ Owed(ledger') = IF ledger'.latch = NoSlot THEN <<>> ELSE <<ledger'.latch, ledger'.id>>
       /\ Owed(ledger') \in {<<>>} \cup Slots \X (Kinds \cup {"none"})
  <2>1. CASE landed
    BY <1>7, <1>11, <1>12, <1>13, <2>1, OwedLatched
  <2>2. CASE ~landed
    <3>1. ledger'.latch = NoSlot \/ o.l = ledger \/ Extends(ledger, o.l)
      BY <1>7, <1>12, <1>13, <2>2
    <3>2. CASE o.l = ledger
      BY <1>13, <3>2 DEF Owed, LatchInv, Ledgers, HostTypes, Histories
    <3>3. CASE Extends(ledger, o.l)
      BY <1>13, <3>3, OwedLatched DEF Extends
    <3> QED BY <1>13, <3>1, <3>2, <3>3, OwedLatched
  <2> QED BY <2>1, <2>2
<1>27. ghost.served + o.served \in 0 .. 1 /\ (ghost.served + o.served = 1 => h'.stamped)
  BY <1>0, <1>3, <1>5, <1>12, <1>25 DEF CountInv, Histories
<1>28. /\ ghost' \in Histories /\ ghost'.owed = Owed(ledger')
       /\ ghost'.served = ghost.served + o.served
       /\ ghost'.bounces = ghost.bounces /\ ghost'.rescued = ghost.rescued
  <2> DEFINE w == Owed(ledger')
             n == ghost.served + o.served
  <2>1. ghost' = [ghost EXCEPT !.owed = w, !.served = n]
    BY <1>0, <1>1 DEF Ghost, Histories
  <2>2. w \in {<<>>} \cup Slots \X (Kinds \cup {"none"}) /\ n \in 0 .. 1
    BY <1>26, <1>27
  <2> HIDE DEF w, n
  <2>3. ghost' \in Histories
    BY <1>0, <2>1, <2>2 DEF Histories
  <2>4. /\ ghost'.owed = w /\ ghost'.served = n
        /\ ghost'.bounces = ghost.bounces /\ ghost'.rescued = ghost.rescued
    BY <1>0, <2>1 DEF Histories
  <2> QED BY <2>3, <2>4 DEF w, n
<1>29. spr' \in [Slots -> Kinds]
  BY <1>1, <1>12
<1>30. HostTypes'
  BY <1>2, <1>13, <1>14, <1>22, <1>23, <1>28, <1>29 DEF HostTypes
<1>31. CountInv'
  BY <1>2, <1>25, <1>27, <1>28 DEF CountInv
<1>32. LatchInv'
  BY <1>26, <1>28 DEF LatchInv
<1>33. TimerInv'
  BY <1>0, <1>2, <1>21, <1>22, <1>23, <1>25 DEF TimerInv, Guards, Guests
<1>34. MarioInv'
  BY <1>2, <1>23, <1>24, <1>25 DEF MarioInv, Guards
<1>35. MoveInv'
  BY <1>3, <1>5, <1>6, <1>8, <1>9, <1>14, <1>25 DEF MoveInv
<1>36. ~ghost'.rescued => h'.impact \cup h'.catch \subseteq ledger'.hit \cup {ledger'.latch}
  BY <1>10, <1>12, <1>13, <1>25, <1>28
<1>37. ~ghost'.rescued /\ f'.fresh => h'.impact = {} /\ h'.catch = {}
  BY <1>10, <1>12, <1>14, <1>25, <1>28
<1>38. ~ghost'.rescued /\ h'.pending /\ f'.move = "kickair" => h'.catch = {}
  BY <1>9, <1>10, <1>12, <1>14, <1>25, <1>28
<1>39. AcceptedInv'
  BY <1>2, <1>36, <1>37, <1>38 DEF AcceptedInv, Settled, Empty
<1>40. GuardInv'
  <2>1. g'.timer = 1 /\ g'.by = "bridge" =>
          h'.iframes \/ h'.dive_guard \/ h'.consumed \/ h'.impact_guard \/ h'.catch_guard
    BY <1>21, <1>22, <1>23, <1>24, <1>25 DEF GuardInv
  <2>2. ~ghost'.rescued /\ (h'.impact_guard \/ h'.catch_guard) =>
          k \in ledger'.hit \cup {ledger'.latch}
    BY <1>23, <1>24, <1>36
  <2> QED BY <1>2, <2>1, <2>2 DEF GuardInv
<1> QED BY <1>30, <1>31, <1>32, <1>33, <1>34, <1>35, <1>39, <1>40

-----------------------------------------------------------------------------
(* The theorems.                                                           *)

LEMMA HostStep == HostInv /\ [Next]_vars => HostInv'
<1> SUFFICES ASSUME HostInv, [Next]_vars PROVE HostInv'
  OBVIOUS
<1>1. CASE LiveFrame
  BY <1>1, LiveFrameStep
<1>2. CASE FrozenFrame
  BY <1>2, FrozenFrameStep
<1>3. CASE NativePhase
  BY <1>3, NativePhaseStep
<1>4. CASE StateLoad
  BY <1>4, StateLoadStep
<1>5. CASE SmwFalconBeforePlayerPhysics
  BY <1>5, BeforePlayerPhysicsStep
<1>6. CASE RestoreWallSafeGround
  BY <1>6, RestoreStep
<1>7. CASE BeforePhysicsNotOurs
  BY <1>7, NotOursStep
<1>8. CASE SmwFalconBeforePhysics
  BY <1>8, BeforePhysicsStep
<1>9. CASE SmwFalconBeforeCrushCheck
  BY <1>9, CrushStep
<1>10. CASE SkipAfterPhysics
  BY <1>10, SkipStep
<1>11. CASE \E air, accepted, wall \in BOOLEAN : SmwFalconAfterPhysics(air, accepted, wall)
  BY <1>11, AfterPhysicsStep
<1>12. CASE \E k \in Slots : SmwFalconBeforeNormalSprites(k)
  BY <1>12, NormalSpritesStep
<1>13. CASE \E k \in Slots : Contact(k)
  BY <1>13, ContactStep
<1>14. CASE \E k \in Slots : Hurt(k)
  BY <1>14, HurtStep
<1>15. CASE \E k \in Slots : SmwFalconOnNativeStompBounce(k)
  BY <1>15, BounceStep
<1>16. CASE UNCHANGED vars
  BY <1>16 DEF vars, HostInv, HostTypes, CountInv, LatchInv, TimerInv, MarioInv, MoveInv,
     AcceptedInv, GuardInv, Guards, Settled, Empty
<1> QED BY <1>1, <1>2, <1>3, <1>4, <1>5, <1>6, <1>7, <1>8, <1>9, <1>10, <1>11, <1>12,
           <1>13, <1>14, <1>15, <1>16 DEF Next, Step

(* The inductive invariant holds of every state: the guards, the accepted  *)
(* slots, the ledger and the catch that is owed keep step (smw_falcon_     *)
(* adapter.c's seams, smw_falcon_combat_apply.c's ledger).                 *)
THEOREM HostInvariant == Spec => []HostInv
<1>1. Init => HostInv
  BY HostStarts
<1>2. HostInv /\ [Next]_vars => HostInv'
  BY HostStep
<1> QED BY <1>1, <1>2, PTL DEF Spec

(* When slot k's own code runs under a $1497 the bridge installed, the move *)
(* accepted k, or the dive's grace or an accepted stomp protects the       *)
(* player; a frame commits a move once and bounces the fighter once        *)
(* (SmwFalconBeforeNormalSprites, smw_falcon_apply_combat_once,            *)
(* SmwFalconOnNativeStompBounce).                                          *)
THEOREM ContactsAreAccounted == Spec => []ContactsAccounted
<1>1. HostInv => ContactsAccounted
  <2> SUFFICES ASSUME HostInv PROVE ContactsAccounted
    OBVIOUS
  <2> USE DEF HostInv
  <2>1. g \in Guests /\ h \in Hosts /\ ledger \in Ledgers /\ f \in Fighters /\ ghost \in Histories
    BY DEF HostTypes
  <2>2. TypeOK
    <3>1. /\ h.departure \in 0 .. MaxDeparture /\ h.grace \in 0 .. DiveGrace
          /\ h.impact \subseteq Slots /\ h.catch \subseteq Slots
      BY <2>1 DEF Hosts
    <3>2. ledger.hit \subseteq Slots /\ ledger.latch \in Slots \cup {NoSlot}
      BY <2>1 DEF Ledgers
    <3> QED BY <3>1, <3>2 DEF TypeOK, HostTypes, Guests, Fighters
  <2>3. GuardedContactIsOwed
    BY DEF GuardedContactIsOwed, GuardInv
  <2>4. OncePerFrame
    BY <2>1 DEF OncePerFrame, Histories
  <2> QED BY <2>2, <2>3, <2>4 DEF ContactsAccounted
<1> QED BY <1>1, HostInvariant, PTL

-----------------------------------------------------------------------------
(* SMW's own timer.                                                        *)

(* The seams that lift a guard find none behind a timer of SMW's.          *)
LEMMA NativeStays ==
  ASSUME HostInv, g.timer = 1, g.by = "native", [Next]_vars, seam[1] # "frame", g'.timer = 0
  PROVE  g'.by = "wall"
<1> USE DEF HostInv
<1>0. g \in Guests /\ h \in Hosts
  BY DEF HostTypes
<1>1. /\ ~h.stomp_guard /\ ~h.dive_guard /\ ~h.impact_guard /\ ~h.catch_guard
  BY DEF TimerInv, Guards
<1>2. \A x, guard : ~guard => Lift(x, guard) = x
  BY DEF Lift
<1>3. CASE SmwFalconBeforePlayerPhysics
  <2>1. g' = Lift(Lift(Lift(g, h.stomp_guard), h.dive_guard), h.impact_guard \/ h.catch_guard)
    BY <1>3 DEF SmwFalconBeforePlayerPhysics
  <2>2. g' = g
    BY <1>1, <2>1 DEF Lift
  <2> QED BY <2>2
<1>4. CASE RestoreWallSafeGround
  BY <1>0, <1>4 DEF RestoreWallSafeGround, Guests
<1>5. CASE BeforePhysicsNotOurs
  <2> DEFINE h1 == [h EXCEPT !.armed = FALSE, !.consumed = FALSE,
                             !.stomp_guard = FALSE, !.catch_guard = Active /\ @,
                             !.catch = IF Active THEN @ ELSE {},
                             !.pending = @ /\ ~Active,
                             !.departure = IF Active THEN 0 ELSE @]
  <2>1. g' = Lift(g, h1.dive_guard)
    BY <1>5 DEF BeforePhysicsNotOurs
  <2>2. ~h1.dive_guard
    BY <1>0, <1>1 DEF Hosts
  <2> HIDE DEF h1
  <2> QED BY <2>1, <2>2 DEF Lift
<1>6. CASE SmwFalconBeforePhysics
  <2>1. PICK a : g' = [Lift(g, ~Foreign /\ h.dive_guard) EXCEPT !.air = a]
    BY <1>6 DEF SmwFalconBeforePhysics
  <2>2. Lift(g, ~Foreign /\ h.dive_guard) = g
    BY <1>1 DEF Lift
  <2> QED BY <1>0, <2>1, <2>2 DEF Guests
<1>7. CASE SmwFalconBeforeCrushCheck
  BY <1>7 DEF SmwFalconBeforeCrushCheck
<1>8. CASE SkipAfterPhysics
  BY <1>0, <1>8 DEF SkipAfterPhysics, Guests
<1>9. CASE \E air, accepted, wall \in BOOLEAN : SmwFalconAfterPhysics(air, accepted, wall)
  <2>1. PICK a : g' = [g EXCEPT !.air = a]
    BY <1>9 DEF SmwFalconAfterPhysics
  <2> QED BY <1>0, <2>1 DEF Guests
<1>10. CASE \E k \in Slots : SmwFalconBeforeNormalSprites(k)
  <2> DEFINE landed == KickLanded
             h1 == finish_skipped_direct_air_kick_landing(h)
             f1 == IF landed THEN cf_reset ELSE f
             l1 == IF landed THEN NoLedger ELSE ledger
             h2 == [h1 EXCEPT !.armed =
                      @ \/ (h1.pending /\ ~h1.consumed /\ playable /\ Foreign),
                      !.impact_guard = FALSE, !.catch_guard = FALSE]
             g1 == Lift(g, ~h1.iframes /\ (h1.impact_guard \/ h1.catch_guard))
             Grabbed(o) == o.connected /\ o.h.att = "catch"
             Caught(o) == Grabbed(o) /\ f1.move = "dive" /\ Foreign
             H3(o) == IF Caught(o) THEN [o.h EXCEPT !.move = "catch", !.att = "none"] ELSE o.h
             H4(o) == IF playable /\ Foreign THEN H3(o)
                      ELSE [H3(o) EXCEPT !.impact = {}, !.catch = {}]
             Guard(o, k) == SlotGuard(H4(o), k)
             G2(o, k) == Install(g1, Guard(o, k) # "none")
             set == g1.timer = 0
             title == Active /\ g.phase = "title"
  <2>0. PICK k \in Slots : SmwFalconBeforeNormalSprites(k)
    BY <1>10
  <2>1. PICK o \in apply_combat_once(h2, l1, f1) :
          /\ spr' = o.spr
          /\ ledger' = IF Caught(o) THEN combat_ledger_update(o.l, "catch", FALSE) ELSE o.l
          /\ f' = IF Caught(o) THEN Fighter("catch", FALSE) ELSE f1
          /\ h' = [H4(o) EXCEPT !.dive_guard = @ \/ (set /\ Guard(o, k) = "dive"),
                                !.impact_guard = set /\ Guard(o, k) = "impact",
                                !.catch_guard = set /\ Guard(o, k) = "catch"]
          /\ g' = IF title THEN [G2(o, k) EXCEPT !.timer = 1, !.by = "title"] ELSE G2(o, k)
          /\ ghost' = Ghost(ledger', o.served)
    BY <2>0 DEF SmwFalconBeforeNormalSprites
  <2>2. ~h1.impact_guard /\ ~h1.catch_guard
    BY <1>0, <1>1 DEF finish_skipped_direct_air_kick_landing, Hosts
  <2> HIDE DEF h1
  <2>3. g1 = g
    BY <2>2 DEF Lift
  <2> HIDE DEF g1, Guard
  <2>4. G2(o, k) = g
    BY <2>3 DEF Install
  <2> HIDE DEF G2, title
  <2>5. g' = IF title THEN [g EXCEPT !.timer = 1, !.by = "title"] ELSE g
    BY <2>1, <2>4
  <2> QED BY <1>0, <2>5 DEF Guests
<1>11. CASE \E k \in Slots : Contact(k)
  BY <1>11 DEF Contact
<1>12. CASE \E k \in Slots : Hurt(k)
  BY <1>12 DEF Hurt
<1>13. CASE \E k \in Slots : SmwFalconOnNativeStompBounce(k)
  <2>1. g' = g \/ g' = Install(g, TRUE)
    BY <1>13 DEF SmwFalconOnNativeStompBounce
  <2>2. Install(g, TRUE) = g
    BY <1>1 DEF Install
  <2>3. g' = g
    BY <2>1, <2>2
  <2>4. g'.timer = 1
    BY <2>3
  <2> QED BY <2>4
<1>14. CASE UNCHANGED vars
  BY <1>14 DEF vars
<1>15. ~LiveFrame /\ ~FrozenFrame /\ ~NativePhase /\ ~StateLoad
  BY DEF LiveFrame, FrozenFrame, NativePhase, StateLoad
<1> QED BY <1>3, <1>4, <1>5, <1>6, <1>7, <1>8, <1>9, <1>10, <1>11, <1>12, <1>13, <1>14, <1>15
        DEF Next, Step

(* No seam erases a $1497 that SMW or a state load wrote, save the wall    *)
(* rescue (clear_stomp_contact_guard, clear_dive_iframe_timer_guard and    *)
(* the guards of $01:80D2).                                                *)
THEOREM NativeTimerIsSpared == Spec => GuardsSpareNative
<1>1. HostInv /\ [Next]_vars =>
        [~At("frame") /\ g.timer = 1 /\ g.by = "native" /\ g'.timer = 0 => g'.by = "wall"]_vars
  BY NativeStays
<1> QED BY <1>1, HostInvariant, PTL DEF Spec, GuardsSpareNative

-----------------------------------------------------------------------------
(* The throw.                                                              *)

(* At a sprite slot the throw is served from the host's own ledger.        *)
LEMMA ThrowAtSlot ==
  ASSUME HostInv, f.fresh, NEW k \in Slots, SmwFalconBeforeNormalSprites(k)
  PROVE  \E s \in Hosts : \E o \in apply_combat_once(s, ledger, f) :
           /\ s.att = "none" /\ ~impact_guard_state(s.move)
           /\ ledger' = o.l /\ ghost' = Ghost(ledger', o.served)
<1> USE DEF HostInv
<1>0. h \in Hosts /\ f \in Fighters
  BY DEF HostTypes
<1>1. f.move = "throw" /\ h.att = "none" /\ ~impact_guard_state(h.move)
  BY DEF MoveInv
<1>2. ~KickLanded
  BY <1>1 DEF KickLanded
<1>3. finish_skipped_direct_air_kick_landing(h) = h
  BY <1>2 DEF finish_skipped_direct_air_kick_landing
<1> DEFINE b == h.armed \/ (h.pending /\ ~h.consumed /\ playable /\ Foreign)
           h2 == [h EXCEPT !.armed = b, !.impact_guard = FALSE, !.catch_guard = FALSE]
<1>4. h2 = [finish_skipped_direct_air_kick_landing(h) EXCEPT
              !.armed = @ \/ (finish_skipped_direct_air_kick_landing(h).pending
                              /\ ~finish_skipped_direct_air_kick_landing(h).consumed
                              /\ playable /\ Foreign),
              !.impact_guard = FALSE, !.catch_guard = FALSE]
  BY <1>0, <1>3 DEF Hosts
<1>5. h2 \in Hosts /\ h2.att = h.att /\ h2.move = h.move
  <2>1. b \in BOOLEAN
    BY <1>0 DEF Hosts
  <2> HIDE DEF b
  <2> QED BY <1>0, <2>1 DEF Hosts
<1>6. \E o \in apply_combat_once(h2, ledger, f) :
        ledger' = o.l /\ ghost' = Ghost(ledger', o.served)
  BY <1>1, <1>2, <1>4 DEF SmwFalconBeforeNormalSprites
<1> HIDE DEF h2
<1> QED BY <1>1, <1>5, <1>6

(* A slot a throw adds to the ledger is the one whose catch is owed.       *)
LEMMA ThrowHits ==
  ASSUME HostInv, [Next]_vars, f.fresh, NEW k \in Slots, k \in ledger'.hit \ ledger.hit
  PROVE  ghost.owed = <<k, spr[k]>>
<1> USE DEF HostInv
<1>0. ledger \in Ledgers /\ f \in Fighters
  BY DEF HostTypes
<1>1. ASSUME NEW s \in Hosts, NEW o \in apply_combat_once(s, ledger, f),
             s.att = "none", ~impact_guard_state(s.move), ledger' = o.l
      PROVE  ghost.owed = <<k, spr[k]>>
  <2>1. \A j \in o.l.hit \ ledger.hit : j = ledger.latch /\ j # NoSlot /\ spr[j] = ledger.id
    BY <1>0, <1>1, Served
  <2>2. k = ledger.latch /\ k # NoSlot /\ spr[k] = ledger.id
    BY <1>1, <2>1
  <2> QED BY <2>2 DEF LatchInv
<1>2. CASE \E air, accepted, wall \in BOOLEAN : SmwFalconAfterPhysics(air, accepted, wall)
  <2>1. PICK air \in BOOLEAN, accepted \in BOOLEAN, wall \in BOOLEAN :
          SmwFalconAfterPhysics(air, accepted, wall)
    BY <1>2
  <2>2. h.pending /\ Foreign
    BY <2>1 DEF SmwFalconAfterPhysics
  <2> DEFINE h1 == [h EXCEPT !.departure = IF accepted THEN 0 ELSE @]
  <2>3. PICK o \in apply_combat_once(h1, ledger, f) : ledger' = o.l
    BY <2>1, <2>2 DEF SmwFalconAfterPhysics
  <2>4. h1 \in Hosts /\ h1.att = h.att /\ h1.move = h.move
    <3>1. h \in Hosts
      BY DEF HostTypes
    <3>2. (IF accepted THEN 0 ELSE h.departure) \in 0 .. MaxDeparture
      BY <3>1, Amounts DEF Hosts
    <3>3. h1 \in Hosts
      BY <3>1, <3>2 DEF Hosts
    <3> QED BY <3>1, <3>3 DEF Hosts
  <2> HIDE DEF h1
  <2>5. h1.att = "none" /\ ~impact_guard_state(h1.move)
    BY <2>4 DEF MoveInv
  <2> QED BY <1>1, <2>3, <2>4, <2>5
<1>3. CASE \E j \in Slots : SmwFalconBeforeNormalSprites(j)
  BY <1>1, <1>3, ThrowAtSlot
<1>4. CASE BeforePhysicsNotOurs
  <2>1. ledger' = combat_ledger_update(ledger, "none", FALSE)
    BY <1>4 DEF BeforePhysicsNotOurs, DropMove
  <2> QED BY <1>0, <2>1, LedgerUpdated
<1>5. CASE SmwFalconBeforePhysics
  <2>1. PICK t \in foreign_tick(IF Foreign THEN f ELSE cf_reset), active \in BOOLEAN :
          ledger' = combat_ledger_update(ledger, t.f.move, active)
    BY <1>5 DEF SmwFalconBeforePhysics
  <2>2. t.f.move \in Moves
    <3>1. (IF Foreign THEN f ELSE cf_reset) \in Fighters
      BY <1>0 DEF cf_reset, Fighter, Fighters, Moves, Classes
    <3> QED BY <3>1, Ticked DEF Fighters
  <2> QED BY <1>0, <2>1, <2>2, LedgerUpdated
<1>6. CASE StateLoad
  BY <1>6 DEF StateLoad, NoLedger
<1>7. CASE UNCHANGED ledger
  BY <1>7
<1> QED
  <2>1. LiveFrame \/ FrozenFrame \/ NativePhase \/ SmwFalconBeforePlayerPhysics
          \/ RestoreWallSafeGround \/ SmwFalconBeforeCrushCheck \/ SkipAfterPhysics
          \/ (\E j \in Slots : Contact(j) \/ Hurt(j) \/ SmwFalconOnNativeStompBounce(j))
          \/ UNCHANGED vars
        => UNCHANGED ledger
    BY DEF LiveFrame, FrozenFrame, NativePhase, SmwFalconBeforePlayerPhysics,
           RestoreWallSafeGround, SmwFalconBeforeCrushCheck, SkipAfterPhysics, Contact, Hurt,
           SmwFalconOnNativeStompBounce, vars
  <2> QED BY <1>2, <1>3, <1>4, <1>5, <1>6, <1>7, <2>1 DEF Next, Step

(* A latch is kept with what it was set on, or is set on what stands in its *)
(* slot and can be caught.                                                 *)
Latches(l, n, sprites) ==
  n.latch # NoSlot =>
    \/ n.latch = l.latch /\ n.id = l.id
    \/ l.latch = NoSlot /\ sprites[n.latch] = n.id /\ n.id \in Catchable

(* What one seam's combat does to the latch; and a throw that is served    *)
(* strikes the latched slot if what was caught still stands in it.         *)
LEMMA ServedLatch ==
  ASSUME HostTypes, NEW s \in Hosts, NEW l \in Ledgers, NEW x \in Fighters,
         NEW o \in apply_combat_once(s, l, x)
  PROVE  /\ Latches(l, o.l, o.spr)
         /\ x.fresh /\ o.served # 0 /\ l.latch # NoSlot /\ spr[l.latch] = l.id
              /\ l.id \in Catchable => l.latch \in o.l.hit
<1>1. CASE ~(playable /\ Foreign /\ Serves(s, x))
  <2>1. o = Applied(s, 0, Outcome(l, spr, FALSE, FALSE))
    BY <1>1 DEF apply_combat_once
  <2> QED BY <2>1 DEF Applied, Outcome, Latches
<1>2. CASE playable /\ Foreign /\ Serves(s, x)
  <2> DEFINE H(a) == [s EXCEPT !.stamped = TRUE,
                          !.impact = IF a.contact /\ impact_guard_state(s.move)
                                     THEN @ \cup a.l.new ELSE @,
                          !.catch = IF a.contact /\ s.att = "catch"
                                    THEN @ \cup a.l.new ELSE @]
  <2>0. \E a \in IF x.fresh THEN {combat_release_dive(l)} ELSE combat_apply(l, s.att) :
          o = Applied(H(a), 1, a)
    BY <1>2 DEF apply_combat_once
  <2> HIDE DEF H
  <2>1. PICK a \in IF x.fresh THEN {combat_release_dive(l)} ELSE combat_apply(l, s.att) :
          o.l = a.l /\ o.spr = a.spr
    BY <2>0 DEF Applied
  <2> DEFINE l0 == [l EXCEPT !.new = {}]
  <2>2. l0 \in Ledgers /\ l0.latch = l.latch /\ l0.id = l.id
    BY DEF Ledgers
  <2> HIDE DEF l0
  <2>3. CASE x.fresh
    <3> DEFINE freed == [l EXCEPT !.latch = NoSlot, !.id = "none"]
               n == [freed EXCEPT !.hit = @ \cup {l.latch}, !.new = @ \cup {l.latch}]
    <3>1. a = combat_release_dive(l)
      BY <2>1, <2>3
    <3>2. freed \in Ledgers /\ freed.latch = NoSlot
      BY DEF Ledgers
    <3>3. n.latch = NoSlot /\ l.latch \in n.hit
      <4> HIDE DEF freed
      <4> QED BY <3>2 DEF Ledgers
    <3>4. CASE l.latch = NoSlot
      BY <2>1, <3>1, <3>4 DEF combat_release_dive, Outcome, Latches
    <3>5. CASE l.latch # NoSlot /\ sprite_is_dive_catch_target(spr[l.latch]) /\ spr[l.latch] = l.id
      <4>1. a.l = n
        BY <3>1, <3>5 DEF combat_release_dive, Outcome
      <4> HIDE DEF n
      <4> QED BY <2>1, <3>3, <4>1 DEF Latches
    <3>6. CASE l.latch # NoSlot
               /\ ~(sprite_is_dive_catch_target(spr[l.latch]) /\ spr[l.latch] = l.id)
      <4>1. a.l = freed
        BY <3>1, <3>6 DEF combat_release_dive, Outcome
      <4> HIDE DEF freed
      <4> QED BY <2>1, <3>2, <3>6, <4>1 DEF Latches, sprite_is_dive_catch_target
    <3> QED BY <3>4, <3>5, <3>6
  <2>4. CASE ~x.fresh
    <3>1. a \in combat_apply(l, s.att)
      BY <2>1, <2>4
    <3>2. CASE a.l \in {l, l0}
      BY <2>1, <2>2, <2>4, <3>2 DEF Latches
    <3>3. CASE a \in latch_dive_target(l0) /\ a.l # l0
      <4>1. PICK k \in Slots :
              /\ l0.latch = NoSlot /\ sprite_is_dive_catch_target(spr[k])
              /\ a = Outcome([l0 EXCEPT !.latch = k, !.id = spr[k], !.new = @ \cup {k}],
                             spr, TRUE, TRUE)
        <5>1. a # Outcome(l0, spr, FALSE, FALSE)
          BY <3>3 DEF Outcome
        <5> QED BY <3>3, <5>1 DEF latch_dive_target
      <4> DEFINE n == [l0 EXCEPT !.latch = k, !.id = spr[k], !.new = @ \cup {k}]
      <4>2. n.latch = k /\ n.id = spr[k]
        BY <2>2 DEF Ledgers
      <4>3. a.l = n /\ a.spr = spr
        BY <4>1 DEF Outcome
      <4> HIDE DEF n
      <4> QED BY <2>1, <2>2, <2>4, <4>1, <4>2, <4>3 DEF Latches, sprite_is_dive_catch_target
    <3>4. CASE a \in apply_sprite_targets(l0)
      <4>1. \E taken \in SUBSET Slots : \E z :
              a = Outcome([l0 EXCEPT !.hit = @ \cup taken, !.new = taken], z, TRUE, TRUE)
        <5> DEFINE open == {k \in Slots \ l0.hit : sprite_target_consequence(spr[k])}
                   Strike(taken, slain) ==
                     Outcome([l0 EXCEPT !.hit = @ \cup taken, !.new = taken],
                             [k \in Slots |-> IF k \in slain THEN "inert" ELSE spr[k]],
                             TRUE, TRUE)
        <5>1. a \in UNION {{Strike(taken, slain) : slain \in SUBSET taken} :
                             taken \in SUBSET open \ {{}}}
          BY <3>4 DEF apply_sprite_targets
        <5> HIDE DEF Strike
        <5>2. PICK taken \in SUBSET open : \E slain \in SUBSET taken : a = Strike(taken, slain)
          BY <5>1
        <5> QED BY <5>2 DEF Strike
      <4>2. PICK taken \in SUBSET Slots : \E z :
              a = Outcome([l0 EXCEPT !.hit = @ \cup taken, !.new = taken], z, TRUE, TRUE)
        BY <4>1
      <4> DEFINE n == [l0 EXCEPT !.hit = @ \cup taken, !.new = taken]
      <4>3. n.latch = l.latch /\ n.id = l.id
        BY <2>2 DEF Ledgers
      <4>4. a.l = n
        BY <4>2 DEF Outcome
      <4> HIDE DEF n
      <4> QED BY <2>1, <2>4, <4>3, <4>4 DEF Latches
    <3> QED
      <4>1. \/ a = Outcome(l, spr, FALSE, FALSE) \/ a = Outcome(l0, spr, FALSE, FALSE)
            \/ a \in latch_dive_target(l0) \/ a \in apply_sprite_targets(l0)
        BY <3>1 DEF combat_apply, l0
      <4>2. a = Outcome(l, spr, FALSE, FALSE) \/ a = Outcome(l0, spr, FALSE, FALSE) =>
              a.l \in {l, l0}
        BY DEF Outcome
      <4> QED BY <3>2, <3>3, <3>4, <4>1, <4>2
  <2> QED BY <2>3, <2>4
<1> QED BY <1>1, <1>2

(* Every step keeps a latch, drops it, or sets it on what stands.          *)
LEMMA LatchStep ==
  ASSUME HostInv, [Next]_vars
  PROVE  Latches(ledger, ledger', spr')
<1> USE DEF HostInv
<1>0. /\ ledger \in Ledgers /\ f \in Fighters /\ h \in Hosts /\ HostTypes
  BY DEF HostTypes
<1>1. CASE \E air, accepted, wall \in BOOLEAN : SmwFalconAfterPhysics(air, accepted, wall)
  <2>1. PICK air \in BOOLEAN, accepted \in BOOLEAN, wall \in BOOLEAN :
          SmwFalconAfterPhysics(air, accepted, wall)
    BY <1>1
  <2>2. CASE ~h.pending \/ ~Foreign
    BY <2>1, <2>2 DEF SmwFalconAfterPhysics, Latches
  <2>3. CASE h.pending /\ Foreign
    <3> DEFINE h1 == [h EXCEPT !.departure = IF accepted THEN 0 ELSE @]
    <3>1. PICK o \in apply_combat_once(h1, ledger, f) : spr' = o.spr /\ ledger' = o.l
      BY <2>1, <2>3 DEF SmwFalconAfterPhysics
    <3>2. h1 \in Hosts
      <4>1. (IF accepted THEN 0 ELSE h.departure) \in 0 .. MaxDeparture
        BY <1>0, Amounts DEF Hosts
      <4> QED BY <1>0, <4>1 DEF Hosts
    <3> HIDE DEF h1
    <3> QED BY <1>0, <3>1, <3>2, ServedLatch
  <2> QED BY <2>2, <2>3
<1>2. CASE \E k \in Slots : SmwFalconBeforeNormalSprites(k)
  <2> DEFINE landed == KickLanded
             h1 == finish_skipped_direct_air_kick_landing(h)
             f1 == IF landed THEN cf_reset ELSE f
             l1 == IF landed THEN NoLedger ELSE ledger
             h2 == [h1 EXCEPT !.armed =
                      @ \/ (h1.pending /\ ~h1.consumed /\ playable /\ Foreign),
                      !.impact_guard = FALSE, !.catch_guard = FALSE]
             Caught(o) == (o.connected /\ o.h.att = "catch") /\ f1.move = "dive" /\ Foreign
  <2>1. PICK o \in apply_combat_once(h2, l1, f1) :
          /\ spr' = o.spr
          /\ ledger' = IF Caught(o) THEN combat_ledger_update(o.l, "catch", FALSE) ELSE o.l
    BY <1>2 DEF SmwFalconBeforeNormalSprites
  <2>2. h1 \in Hosts /\ (landed => h1.att = "none")
    <3>1. CASE landed
      <4>1. h1 = [h EXCEPT !.move = "idle", !.att = "none", !.impact = {}, !.pending = FALSE]
        BY <3>1 DEF finish_skipped_direct_air_kick_landing
      <4> HIDE DEF h1, landed
      <4> QED BY <1>0, <4>1 DEF Hosts, Moves, Classes
    <3>2. CASE ~landed
      BY <1>0, <3>2 DEF finish_skipped_direct_air_kick_landing
    <3> QED BY <3>1, <3>2
  <2> HIDE DEF h1
  <2>3. h2 \in Hosts /\ h2.att = h1.att
    <3> DEFINE b == h1.armed \/ (h1.pending /\ ~h1.consumed /\ playable /\ Foreign)
    <3>1. b \in BOOLEAN
      BY <2>2 DEF Hosts
    <3>2. h2 = [h1 EXCEPT !.armed = b, !.impact_guard = FALSE, !.catch_guard = FALSE]
      BY <2>2 DEF Hosts
    <3> HIDE DEF b, h2
    <3> QED BY <2>2, <3>1, <3>2 DEF Hosts
  <2>4. f1 \in Fighters /\ l1 \in Ledgers
    <3>1. cf_reset \in Fighters
      BY DEF cf_reset, Fighter, Fighters, Moves, Classes
    <3>2. NoLedger \in Ledgers
      BY DEF NoLedger, Ledgers, Slots
    <3> QED BY <1>0, <3>1, <3>2
  <2>5. /\ o.l \in Ledgers /\ o.h.att = h2.att
        /\ o.connected /\ h2.att = "catch" => o.l.latch # NoSlot
        /\ landed => o.l = NoLedger
    <3>1. f1.fresh => h2.att = "none" /\ ~impact_guard_state(h2.move)
      <4>1. CASE landed
        BY <4>1 DEF cf_reset, Fighter
      <4>2. CASE ~landed
        <5>1. h1 = h
          BY <4>2 DEF h1, finish_skipped_direct_air_kick_landing
        <5>2. h2.move = h1.move
          BY <2>2 DEF Hosts
        <5> QED BY <2>3, <4>2, <5>1, <5>2 DEF MoveInv
      <4> QED BY <4>1, <4>2
    <3>2. landed => ~f1.fresh
      BY DEF cf_reset, Fighter
    <3> HIDE DEF h2, f1, l1
    <3>3. landed => h2.att = "none"
      BY <2>2, <2>3
    <3>4. landed => l1 = NoLedger
      BY DEF l1
    <3> QED BY <1>0, <2>3, <2>4, <3>1, <3>2, <3>3, <3>4, Served DEF SameButCombat
  <2>6. Latches(l1, o.l, o.spr)
    <3> HIDE DEF h2, f1, l1
    <3> QED BY <1>0, <2>1, <2>3, <2>4, ServedLatch
  <2>7. ledger'.latch = o.l.latch /\ ledger'.id = o.l.id
    <3>1. CASE Caught(o)
      <4>1. o.l.latch # NoSlot
        BY <2>5, <3>1
      <4>2. ledger' = combat_ledger_update(o.l, "catch", FALSE)
        BY <2>1, <3>1
      <4> QED BY <2>5, <4>1, <4>2, LedgerCaught
    <3>2. CASE ~Caught(o)
      BY <2>1, <3>2
    <3> QED BY <3>1, <3>2
  <2>8. CASE landed
    BY <2>5, <2>7, <2>8 DEF Latches, NoLedger
  <2>9. CASE ~landed
    BY <2>1, <2>6, <2>7, <2>9 DEF Latches
  <2> QED BY <2>8, <2>9
<1>3. CASE BeforePhysicsNotOurs
  <2>1. ledger' = combat_ledger_update(ledger, "none", FALSE)
    BY <1>3 DEF BeforePhysicsNotOurs, DropMove
  <2> QED BY <1>0, <2>1, LedgerUpdated DEF Latches
<1>4. CASE SmwFalconBeforePhysics
  <2>1. PICK t \in foreign_tick(IF Foreign THEN f ELSE cf_reset), active \in BOOLEAN :
          ledger' = combat_ledger_update(ledger, t.f.move, active)
    BY <1>4 DEF SmwFalconBeforePhysics
  <2>2. t.f.move \in Moves
    <3>1. (IF Foreign THEN f ELSE cf_reset) \in Fighters
      BY <1>0 DEF cf_reset, Fighter, Fighters, Moves, Classes
    <3> QED BY <3>1, Ticked DEF Fighters
  <2> QED BY <1>0, <2>1, <2>2, LedgerUpdated DEF Latches
<1>5. CASE StateLoad
  BY <1>5 DEF StateLoad, NoLedger, Latches
<1>6. CASE UNCHANGED ledger
  BY <1>6 DEF Latches
<1> QED
  <2>1. LiveFrame \/ FrozenFrame \/ NativePhase \/ SmwFalconBeforePlayerPhysics
          \/ RestoreWallSafeGround \/ SmwFalconBeforeCrushCheck \/ SkipAfterPhysics
          \/ (\E j \in Slots : Contact(j) \/ Hurt(j) \/ SmwFalconOnNativeStompBounce(j))
          \/ UNCHANGED vars
        => UNCHANGED ledger
    BY DEF LiveFrame, FrozenFrame, NativePhase, SmwFalconBeforePlayerPhysics,
           RestoreWallSafeGround, SmwFalconBeforeCrushCheck, SkipAfterPhysics, Contact, Hurt,
           SmwFalconOnNativeStompBounce, vars
  <2> QED BY <1>1, <1>2, <1>3, <1>4, <1>5, <1>6, <2>1 DEF Next, Step

(* While the history says the caught sprite stands, it is what stands in   *)
(* the latched slot, and it can still be caught.                           *)
StandsInv ==
  stands /\ ledger.latch # NoSlot =>
    spr[ledger.latch] = ledger.id /\ ledger.id \in Catchable

LEMMA StandsStep == HostInv /\ StandsInv /\ [Next]_vars => StandsInv'
<1> SUFFICES ASSUME HostInv, StandsInv, [Next]_vars, stands', ledger'.latch # NoSlot
             PROVE  spr'[ledger'.latch] = ledger'.id /\ ledger'.id \in Catchable
  BY DEF StandsInv
<1>1. Latches(ledger, ledger', spr')
  BY LatchStep
<1>2. CASE ledger'.latch = ledger.latch /\ ledger'.id = ledger.id
  <2>1. ledger.latch \in Slots
    <3>1. ledger \in Ledgers
      BY DEF HostInv, HostTypes
    <3> QED BY <1>2, <3>1 DEF Ledgers
  <2>2. CASE UNCHANGED vars
    BY <1>2, <2>2 DEF vars, StandsInv
  <2>3. CASE Next
    <3>1. Watch
      BY <2>3 DEF Next
    <3>2. stands /\ spr'[ledger.latch] = spr[ledger.latch]
      BY <1>2, <2>1, <3>1 DEF Watch
    <3> QED BY <1>2, <3>2 DEF StandsInv
  <2> QED BY <2>2, <2>3
<1>3. CASE ledger.latch = NoSlot /\ spr'[ledger'.latch] = ledger'.id /\ ledger'.id \in Catchable
  BY <1>3
<1> QED BY <1>1, <1>2, <1>3 DEF Latches

(* A throw that is served while the caught sprite stands strikes it.       *)
LEMMA ThrowStrikes ==
  ASSUME HostInv, StandsInv, [Next]_vars, Thrown, stands
  PROVE  ghost.owed[1] \in ledger'.hit
<1> USE DEF HostInv
<1>0. ledger \in Ledgers /\ f \in Fighters /\ h \in Hosts /\ ghost \in Histories
  BY DEF HostTypes
<1>1. f.fresh /\ ghost.owed = <<ledger.latch, ledger.id>> /\ ledger.latch # NoSlot
      /\ ghost'.served > ghost.served
  BY DEF Thrown, LatchInv
<1>2. ghost.owed[1] = ledger.latch
  BY <1>1
<1>3. spr[ledger.latch] = ledger.id /\ ledger.id \in Catchable
  BY <1>1 DEF StandsInv
<1>4. ASSUME NEW s \in Hosts, NEW o \in apply_combat_once(s, ledger, f),
             ledger' = o.l, o.served # 0
      PROVE  ledger.latch \in ledger'.hit
  BY <1>0, <1>1, <1>3, <1>4, ServedLatch
<1>5. CASE \E air, accepted, wall \in BOOLEAN : SmwFalconAfterPhysics(air, accepted, wall)
  <2>1. PICK air \in BOOLEAN, accepted \in BOOLEAN, wall \in BOOLEAN :
          SmwFalconAfterPhysics(air, accepted, wall)
    BY <1>5
  <2>2. h.pending /\ Foreign
    <3>1. ~(ghost' = ghost)
      BY <1>0, <1>1 DEF Histories
    <3> QED BY <2>1, <3>1 DEF SmwFalconAfterPhysics
  <2> DEFINE h1 == [h EXCEPT !.departure = IF accepted THEN 0 ELSE @]
             hit == Hit(h.departure = 0 /\ ~air, wall, FALSE, FALSE)
  <2>3. PICK o \in apply_combat_once(h1, ledger, f) :
          /\ spr' = o.spr /\ ledger' = o.l
          /\ f' \in foreign_resolve(f, [hit EXCEPT !.connected = o.connected])
          /\ h' = [o.h EXCEPT !.armed = TRUE, !.pending = FALSE]
          /\ ghost' = Ghost(o.l, o.served)
    BY <2>1, <2>2 DEF SmwFalconAfterPhysics
  <2>4. h1 \in Hosts
    <3>1. (IF accepted THEN 0 ELSE h.departure) \in 0 .. MaxDeparture
      BY <1>0, Amounts DEF Hosts
    <3> QED BY <1>0, <3>1 DEF Hosts
  <2> HIDE DEF h1
  <2>5. o.served # 0
    BY <1>0, <1>1, <2>3 DEF Ghost, Histories
  <2> QED BY <1>2, <1>4, <2>3, <2>4, <2>5
<1>6. CASE \E k \in Slots : SmwFalconBeforeNormalSprites(k)
  <2>1. PICK k \in Slots : SmwFalconBeforeNormalSprites(k)
    BY <1>6
  <2>2. PICK s \in Hosts : \E o \in apply_combat_once(s, ledger, f) :
          ledger' = o.l /\ ghost' = Ghost(ledger', o.served)
    BY <1>1, <2>1, ThrowAtSlot
  <2>3. PICK o \in apply_combat_once(s, ledger, f) :
          ledger' = o.l /\ ghost' = Ghost(ledger', o.served)
    BY <2>2
  <2>4. o.served # 0
    BY <1>0, <1>1, <2>3 DEF Ghost, Histories
  <2> QED BY <1>2, <1>4, <2>3, <2>4
<1> QED
  <2>1. LiveFrame \/ FrozenFrame \/ StateLoad => ghost'.served \in {0, ghost.served}
    <3>1. LiveFrame \/ FrozenFrame => ghost' = [ghost EXCEPT !.served = 0]
      BY DEF LiveFrame, FrozenFrame
    <3>2. StateLoad => ghost' = [owed |-> <<>>, served |-> 0, bounces |-> 0, rescued |-> FALSE]
      BY DEF StateLoad
    <3> QED BY <1>0, <3>1, <3>2 DEF Histories
  <2>2. SmwFalconBeforePlayerPhysics \/ RestoreWallSafeGround => ghost'.served = ghost.served
    BY <1>0 DEF Histories, SmwFalconBeforePlayerPhysics, RestoreWallSafeGround
  <2>3. BeforePhysicsNotOurs => ghost'.served = ghost.served
    BY <1>0 DEF Histories, BeforePhysicsNotOurs, DropMove
  <2>4. SmwFalconBeforePhysics => ghost'.served = ghost.served
    <3> SUFFICES ASSUME SmwFalconBeforePhysics PROVE ghost'.served = ghost.served
      OBVIOUS
    <3>1. PICK w : ghost' = [ghost EXCEPT !.owed = w, !.bounces = 0]
      BY <1>0 DEF SmwFalconBeforePhysics, Histories
    <3> QED BY <1>0, <3>1 DEF Histories
  <2>5. NativePhase \/ SmwFalconBeforeCrushCheck \/ SkipAfterPhysics \/ UNCHANGED vars
          \/ (\E j \in Slots : Contact(j) \/ Hurt(j)) => ghost'.served = ghost.served
    BY DEF NativePhase, SmwFalconBeforeCrushCheck, SkipAfterPhysics, Contact, Hurt, vars
  <2>6. (\E j \in Slots : SmwFalconOnNativeStompBounce(j)) => ghost'.served = ghost.served
    BY <1>0 DEF Histories, SmwFalconOnNativeStompBounce
  <2>7. ~(ghost'.served \in {0, ghost.served})
    BY <1>0, <1>1 DEF Histories
  <2> QED BY <1>5, <1>6, <2>1, <2>2, <2>3, <2>4, <2>5, <2>6, <2>7 DEF Next, Step

(* A throw strikes no slot but the one the dive caught and no kind but the  *)
(* caught one, whatever frames, handoffs and loads came between, and it    *)
(* never misses the caught sprite while that still stands there            *)
(* (smw_falcon_combat_release_dive).                                       *)
THEOREM ThrowIsExact == Spec => ThrowDefeatsTheCaught
<1>1. Init => StandsInv
  BY DEF Init, StandsInv, NoLedger
<1>2. HostInv /\ StandsInv /\ [Next]_vars => StandsInv'
  BY StandsStep
<1>3. HostInv /\ StandsInv /\ [Next]_vars =>
        [/\ \A k \in Slots : f.fresh /\ k \in ledger'.hit \ ledger.hit =>
              ghost.owed = <<k, spr[k]>>
         /\ Thrown /\ stands => ghost.owed[1] \in ledger'.hit]_vars
  BY ThrowHits, ThrowStrikes
<1> QED BY <1>1, <1>2, <1>3, HostInvariant, PTL DEF Spec, ThrowDefeatsTheCaught
=============================================================================
