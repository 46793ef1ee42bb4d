----------------------------- MODULE FalconHost -----------------------------
(***************************************************************************)
(* The boundary between SMW's player code and Captain Falcon               *)
(* (overrides/falcon/falcon_smw_adapter.c), with the combat ledger it      *)
(* applies to SMW's sprites (smw_falcon_combat_apply.c) and the ownership  *)
(* kept by foreign_controller.c and smw_falcon_plugin.c.                   *)
(*                                                                         *)
(* One guest frame runs the seams in order: $00:D5F2 before the player's   *)
(* physics, $00:DC2D where the fighter ticks, the collision body with its  *)
(* crush and block seams, $00:CD36 after it, which a nonlocal return may   *)
(* skip, and $01:80D2 before each sprite slot, followed by that slot's own *)
(* contact.  A frozen frame runs the sprite seams alone.                   *)
(*                                                                         *)
(* The guest's player, sprites and timers are external: what they do       *)
(* between two seams is any of their outcomes.  The fighter is the class   *)
(* of its state (FalconMoves).  The controller words are in FalconPad, the *)
(* wall latch and the moment of a wall-safety restore in FalconWall, the   *)
(* tiles a sweep breaks in FalconBlocks.                                   *)
(***************************************************************************)
EXTENDS FalconMoves, Integers

CONSTANTS
  NSlots,         \* the normal-sprite slots, 12 in the code
  Spawns,         \* the kinds each slot may hold
  MaxDeparture,   \* SMW_FALCON_DEPARTURE_MAX_FRAMES, 16 in the code
  DiveGrace       \* SMW_FALCON_DIVE_IFRAME_GRACE_FRAMES, 8 in the code

ASSUME SlotsAssumption == NSlots \in Nat \ {0}
ASSUME BoundsAssumption == MaxDeparture \in Nat \ {0} /\ DiveGrace \in Nat \ {0}

VARIABLES
  seam,     \* <<name, slot>>: the next seam of the frame
  g,        \* guest bytes: phase, air, timer ($1497) and, as history, its writer
  spr,      \* what stands in each sprite slot
  own,      \* active controller and ownership
  f,        \* the fighter: class of its state, state_frame = 0
  h,        \* the adapter's statics
  ledger,   \* s_combat_ledger
  ghost,    \* history: the catch owed, this frame's counts, a wall rescue
  stands    \* history: nothing has taken the place of the sprite caught

vars == <<seam, g, spr, own, f, h, ledger, ghost, stands>>

ASSUME SpawnsAssumption ==
  \A k \in 0 .. NSlots - 1 : Spawns[k] \subseteq {"koopa", "goomba", "shell", "inert"}

Slots == 0 .. NSlots - 1
NoSlot == NSlots

\* "koopa" and "goomba" stand for the catchable ordinary targets, "shell" for
\* the admitted targets a dive does not catch: loose shells, Rex, Chuck, Banzai.
Kinds == {"koopa", "goomba", "shell", "inert"}
Catchable == {"koopa", "goomba"}
sprite_target_consequence(k) == k # "inert"
sprite_is_dive_catch_target(k) == k \in Catchable

\* "play": mode $14, player state 0, no pipe or goal; "script": mode $14 in any
\* other state; "dead": state 9; "title": the attract demo of mode $07.
Phases == {"play", "script", "dead", "title"}
playable == g.phase = "play"

Active == own # "none"
Foreign == own = "foreign"

----------------------------------------------------------------------------
(* The combat ledger.                                                       *)

NoLedger ==
  [move |-> "none", active |-> FALSE, hit |-> {}, new |-> {}, latch |-> NoSlot, id |-> "none"]

combat_ledger_update(l, move, active) ==
  IF ~active /\ l.latch # NoSlot /\ move \in {"catch", "throw"}
  THEN [l EXCEPT !.active = TRUE, !.move = move]
  ELSE IF ~active THEN NoLedger
  ELSE IF ~l.active \/ l.move # move
  THEN [NoLedger EXCEPT !.active = TRUE, !.move = move] ELSE l

Outcome(l, s, connected, contact) ==
  [l |-> l, spr |-> s, connected |-> connected, contact |-> contact]

\* The first overlapped catchable slot, once per ledger.
latch_dive_target(l) ==
  LET free == {k \in Slots : sprite_is_dive_catch_target(spr[k])}
  IN  {Outcome(l, spr, FALSE, FALSE)} \cup
      IF l.latch # NoSlot THEN {}
      ELSE {Outcome([l EXCEPT !.latch = k, !.id = spr[k],
                              !.new = @ \cup {k}], spr, TRUE, TRUE) : k \in free}

\* Every overlapped target the move has not hit yet takes its native
\* consequence; a multi-hit target accepts it and stays.
apply_sprite_targets(l) ==
  LET open == {k \in Slots \ l.hit : sprite_target_consequence(spr[k])}
  IN  UNION {{Outcome([l EXCEPT !.hit = @ \cup taken, !.new = taken],
                      [k \in Slots |-> IF k \in slain THEN "inert" ELSE spr[k]],
                      TRUE, TRUE) : slain \in SUBSET taken}
               : taken \in SUBSET open \ {{}}}

\* A strike that takes no target goes to the blocks (FalconBlocks).
combat_apply(l, att) ==
  LET l0 == [l EXCEPT !.new = {}]
  IN  IF ~l.active THEN {Outcome(l, spr, FALSE, FALSE)}
      ELSE IF att = "catch" THEN latch_dive_target(l0)
      ELSE {Outcome(l0, spr, FALSE, FALSE)} \cup apply_sprite_targets(l0)

\* Mutant: the throw defeats whatever now stands in the latched slot.
ReleaseBySlot(l) ==
  IF l.latch = NoSlot THEN Outcome(l, spr, FALSE, FALSE)
  ELSE Outcome([l EXCEPT !.hit = @ \cup {l.latch}, !.latch = NoSlot, !.id = "none"],
               [spr EXCEPT ![l.latch] = "inert"], TRUE, TRUE)

\* Throw frame zero: the latched slot's sprite is defeated if it can be caught
\* and has the kind that was.
combat_release_dive(l) ==
  LET k == l.latch
      freed == [l EXCEPT !.latch = NoSlot, !.id = "none"]
  IN  IF k = NoSlot THEN Outcome(l, spr, FALSE, FALSE)
      ELSE IF sprite_is_dive_catch_target(spr[k]) /\ spr[k] = l.id
      THEN Outcome([freed EXCEPT !.hit = @ \cup {k}, !.new = @ \cup {k}],
                   [spr EXCEPT ![k] = "inert"], TRUE, TRUE)
      ELSE Outcome(freed, spr, FALSE, FALSE)

----------------------------------------------------------------------------
(* The guards on $1497.                                                     *)

\* Remove exactly the one-frame value a guard of ours installed.
Lift(guest, guard) ==
  IF guard /\ guest.timer = 1 THEN [guest EXCEPT !.timer = 0] ELSE guest

Install(guest, guard) ==
  IF guard /\ guest.timer = 0
  THEN [guest EXCEPT !.timer = 1, !.by = "bridge"] ELSE guest

forget_dive_iframes(s) ==
  [s EXCEPT !.grace = 0, !.iframes = FALSE, !.dive_guard = FALSE]

\* dive_iframe_recovery_state is the class "idle".
advance_dive_iframes(s, move) ==
  IF dive_iframe_state(move)
  THEN [s EXCEPT !.iframes = TRUE, !.grace = DiveGrace]
  ELSE IF s.grace # 0 /\ move = "idle"
  THEN [s EXCEPT !.iframes = TRUE, !.grace = @ - 1]
  ELSE [s EXCEPT !.iframes = FALSE, !.grace = 0]

\* The departure edge holds the player airborne for at most MaxDeparture
\* ticks; 0 is no departure.
hold_departure_edge(s, advance) ==
  IF s.departure = 0 THEN s
  ELSE IF advance /\ s.departure >= MaxDeparture
  THEN [s EXCEPT !.departure = 0]
  ELSE [s EXCEPT !.departure = IF advance THEN @ + 1 ELSE @]

----------------------------------------------------------------------------
(* The fighter behind the controller interface.                             *)

\* fresh: state_frame = 0, which the host asks of a throw only.
Fighter(m, fresh) == [move |-> m, fresh |-> fresh]
cf_reset == Fighter("idle", FALSE)

Hit(grounded, wall, connected, imposed) ==
  [grounded |-> grounded, wall |-> wall, connected |-> connected, imposed |-> imposed]

\* snes_foreign_resolve reaches the controller only while it owns the player.
foreign_resolve(x, hit) ==
  IF ~Foreign THEN {x}
  ELSE {IF m = x.move THEN x ELSE Fighter(m, FALSE) : m \in ResolveMoves(x.move, hit)}

\* snes_foreign_tick; a class that begins starts without an attack.
foreign_tick(x) ==
  UNION {{[f |-> Fighter(m, m = "throw" /\ x.move # m), att |-> a]
            : a \in IF m = x.move THEN Attacks(m) ELSE {"none"}}
          : m \in TickMoves(x.move)}

----------------------------------------------------------------------------
(* Combat once a frame.                                                     *)

\* The gate of apply_combat_once; s_combat_apply_frame against the counter.
Serves(s, x) == (s.att # "none" \/ x.fresh) /\ ~s.stamped

Applied(s, served, o) ==
  [h |-> s, served |-> served, l |-> o.l, spr |-> o.spr, connected |-> o.connected]

apply_combat_once(s, l, x) ==
  IF ~(playable /\ Foreign /\ Serves(s, x))
  THEN {Applied(s, 0, Outcome(l, spr, FALSE, FALSE))}
  ELSE {Applied([s EXCEPT !.stamped = TRUE,
                          !.impact = IF o.contact /\ impact_guard_state(s.move)
                                     THEN @ \cup o.l.new ELSE @,
                          !.catch = IF o.contact /\ s.att = "catch"
                                    THEN @ \cup o.l.new ELSE @], 1, o)
         : o \in IF x.fresh THEN {combat_release_dive(l)}
                 ELSE combat_apply(l, s.att)}

\* History: a catch is owed from the latch to the throw that releases it, or
\* until the host drops the move.
Owed(l) == IF l.latch = NoSlot THEN <<>>
           ELSE IF ghost.owed # <<>> THEN ghost.owed ELSE <<l.latch, spr[l.latch]>>

Ghost(l, served) == [ghost EXCEPT !.owed = Owed(l), !.served = @ + served]

----------------------------------------------------------------------------
(* The seams of the player's code.                                          *)

At(name) == seam[1] = name
Goto(name, k) == seam' = <<name, k>>

\* A frame of the running game counts the timer down; the player's code may
\* leave out a seam while a script drives it.
LiveFrame ==
  /\ At("frame")
  /\ \E t \in IF g.timer = 3 THEN {2} ELSE IF g.timer = 2 THEN {1, 2} ELSE {0} :
       g' = [g EXCEPT !.timer = t, !.by = IF t = 0 THEN "none" ELSE @]
  /\ \/ Goto("D5F2", 0)
     \/ ~playable /\ (Goto("DC2D", 0) \/ Goto("80D2", 0))
  /\ h' = [h EXCEPT !.stamped = FALSE]
  /\ ghost' = [ghost EXCEPT !.served = 0]
  /\ UNCHANGED <<spr, own, f, ledger>>

\* Frozen: the timers stand still and the player's code does not run.
FrozenFrame ==
  /\ At("frame")
  /\ Goto("80D2", 0)
  /\ h' = [h EXCEPT !.stamped = FALSE]
  /\ ghost' = [ghost EXCEPT !.served = 0]
  /\ UNCHANGED <<g, spr, own, f, ledger>>

\* Pipes, doors, goals, deaths and the title begin and end between frames.  A
\* power-down returns the player with $1497 = $7F (3, then 2 while above 1).
NativePhase ==
  /\ At("frame") /\ g.timer # 3
  /\ \/ \E p \in Phases \ {g.phase} : g' = [g EXCEPT !.phase = p]
     \/ /\ g.phase = "script"
        /\ g' = [g EXCEPT !.phase = "play", !.timer = 3, !.by = "native"]
  /\ UNCHANGED <<seam, spr, own, f, h, ledger, ghost>>

SmwFalconBeforePlayerPhysics ==
  /\ At("D5F2")
  /\ g' = Lift(Lift(Lift(g, h.stomp_guard), h.dive_guard),
               h.impact_guard \/ h.catch_guard)
  /\ LET h1 == [h EXCEPT !.stomp_guard = FALSE, !.dive_guard = FALSE,
                         !.impact_guard = FALSE, !.catch_guard = FALSE,
                         !.impact = {}, !.catch = {}]
     IN  h' = IF Active /\ playable THEN h1 ELSE forget_dive_iframes(h1)
  /\ Goto("DC2D", 0)
  /\ ghost' = [ghost EXCEPT !.rescued = FALSE]
  /\ UNCHANGED <<spr, own, f, ledger>>

\* The wall-safety net restores the last safe ground at the entry of DC2D and
\* of 80D2, and at the end of CD36; when it does so is in FalconWall.  A death
\* that DC2D left alone is not undone later in the same frame.
RestoreWallSafeGround ==
  /\ At("DC2D") \/ (At("80D2") /\ (Foreign \/ playable))
  /\ Active /\ g.phase \in {"play", "dead"}
  /\ g' = [g EXCEPT !.phase = "play", !.air = FALSE,
                    !.timer = IF @ = 1 THEN 0 ELSE @,
                    !.by = IF g.timer = 1 THEN "wall" ELSE @]
  /\ own' = "foreign"
  /\ \E m \in ResolveMoves(f.move, Hit(TRUE, TRUE, FALSE, FALSE)) :
       f' = IF m = f.move THEN f ELSE Fighter(m, FALSE)
  /\ h' = [h EXCEPT !.pending = FALSE, !.departure = 0,
                    !.armed = @ /\ ~At("DC2D"), !.consumed = @ /\ ~At("DC2D"),
                    !.stomp_guard = @ /\ ~At("DC2D")]
  /\ ghost' = [ghost EXCEPT !.rescued = TRUE]
  /\ UNCHANGED <<seam, spr, ledger>>

\* $00:DC2D.  NotOurs: no controller, or a script owns the player.
DropMove == /\ ledger' = combat_ledger_update(ledger, "none", FALSE)
            /\ ghost' = [ghost EXCEPT !.owed = <<>>, !.bounces = 0]

BeforePhysicsNotOurs ==
  /\ At("DC2D")
  /\ ~(Active /\ playable)
  /\ LET h1 == [h EXCEPT !.armed = FALSE, !.consumed = FALSE,
                         !.stomp_guard = FALSE, !.catch_guard = Active /\ @,
                         !.catch = IF Active THEN @ ELSE {},
                         !.pending = @ /\ ~Active,
                         !.departure = IF Active THEN 0 ELSE @]
     IN  /\ g' = Lift(g, h1.dive_guard)
         /\ h' = forget_dive_iframes(h1)
  /\ own' = IF Foreign THEN "scripted" ELSE own
  /\ DropMove
  /\ Goto("80D2", 0)
  /\ UNCHANGED <<spr, f>>

\* Playable: reclaim the player if a script had it, hold a departure, tick the
\* fighter, and hand SMW the speeds it asks for.
SmwFalconBeforePhysics ==
  /\ At("DC2D")
  /\ Active /\ playable
  /\ LET x == IF Foreign THEN f ELSE cf_reset
         h0 == [h EXCEPT !.armed = FALSE, !.consumed = FALSE, !.stomp_guard = FALSE]
         h1 == IF Foreign THEN h0 ELSE forget_dive_iframes(h0)
         h2 == hold_departure_edge(h1, TRUE)
     IN  \E t \in foreign_tick(x), launch, air \in BOOLEAN :
           LET h3 == advance_dive_iframes(h2, t.f.move)
               h4 == IF launch /\ h3.departure = 0
                     THEN hold_departure_edge([h3 EXCEPT !.departure = 1], FALSE)
                     ELSE hold_departure_edge(h3, FALSE)
           IN  /\ f' = t.f
               /\ h' = [h4 EXCEPT !.pending = TRUE, !.move = t.f.move, !.att = t.att]
               /\ ledger' = combat_ledger_update(ledger, t.f.move, t.att # "none")
               /\ g' = [Lift(g, ~Foreign /\ h.dive_guard)
                          EXCEPT !.air = air \/ h2.departure # 0 \/ h4.departure # 0]
               /\ ghost' = [ghost EXCEPT !.owed = IF ledger'.latch = NoSlot
                                                  THEN <<>> ELSE @,
                                         !.bounces = 0]
  /\ own' = "foreign"
  /\ Goto("body", 0)
  /\ UNCHANGED spr

\* $00:E9FB: a grounded kick into a step stops at the wall at once; the body
\* may return from here without CD36.
SmwFalconBeforeCrushCheck ==
  /\ At("body")
  /\ h.pending /\ Foreign /\ playable /\ ~g.air /\ f.move = "kick"
  /\ f' \in foreign_resolve(f, Hit(TRUE, TRUE, FALSE, FALSE))
  /\ h' = [h EXCEPT !.pending = FALSE, !.departure = 0]
  /\ UNCHANGED <<seam, g, spr, own, ledger, ghost>>

\* The collision body returns nonlocally, or kills: CD36 is skipped.
SkipAfterPhysics ==
  /\ At("body")
  /\ Goto("80D2", 0)
  /\ \E air \in BOOLEAN, p \in {g.phase, "dead"} :
       g' = [g EXCEPT !.air = air, !.phase = p]
  /\ UNCHANGED <<spr, own, f, h, ledger, ghost>>

\* $00:CD36.  While a departure is pending the floor is not reported; the
\* departure is accepted by a rise in the air with no ceiling above.
SmwFalconAfterPhysics(air, accepted, wall) ==
  /\ At("body")
  /\ accepted => air
  /\ g' = [g EXCEPT !.air = air]
  /\ Goto("80D2", 0)
  /\ IF ~h.pending \/ ~Foreign THEN UNCHANGED <<spr, f, h, ledger, ghost>>
     ELSE LET hit == Hit(h.departure = 0 /\ ~air, wall, FALSE, FALSE)
              h1 == [h EXCEPT !.departure = IF accepted THEN 0 ELSE @]
          IN  \E o \in apply_combat_once(h1, ledger, f) :
                /\ spr' = o.spr
                /\ ledger' = o.l
                /\ f' \in foreign_resolve(f, [hit EXCEPT !.connected = o.connected])
                /\ h' = [o.h EXCEPT !.armed = TRUE, !.pending = FALSE]
                /\ ghost' = Ghost(o.l, o.served)
  /\ UNCHANGED own

----------------------------------------------------------------------------
(* $01:80D2, before each sprite slot, and the slot's own contact.           *)

\* A direct aerial kick that landed while CD36 was skipped ends here.
KickLanded ==
  /\ h.pending /\ h.departure = 0 /\ ~g.air /\ playable /\ Foreign
  /\ f.move = "kickair"

finish_skipped_direct_air_kick_landing(s) ==
  IF KickLanded
  THEN [s EXCEPT !.move = "idle", !.att = "none", !.impact = {}, !.pending = FALSE]
  ELSE s

\* Mutant: an accepted kick guards every slot of the pass.
SlotGuardBroad(s, k) ==
  IF s.iframes THEN "dive" ELSE IF s.impact # {} THEN "impact" ELSE "none"

\* Which guard slot k's contact gets: the dive's for every slot, else the
\* exact accepted slot's.
SlotGuard(s, k) ==
  CASE s.iframes -> "dive"
    [] ~s.iframes /\ k \in s.impact -> "impact"
    [] ~s.iframes /\ k \in s.catch \ s.impact -> "catch"
    [] OTHER -> "none"

SmwFalconBeforeNormalSprites(k) ==
  /\ At("80D2") /\ seam[2] = k
  /\ LET landed == KickLanded
         h1 == finish_skipped_direct_air_kick_landing(h)
         f1 == IF landed THEN cf_reset ELSE f
         l1 == IF landed THEN NoLedger ELSE ledger
         h2 == [h1 EXCEPT !.armed =
                  @ \/ (h1.pending /\ ~h1.consumed /\ playable /\ Foreign),
                  !.impact_guard = FALSE, !.catch_guard = FALSE]
         g1 == Lift(g, ~h1.iframes /\ (h1.impact_guard \/ h1.catch_guard))
     IN  \E o \in apply_combat_once(h2, l1, f1) :
           LET grabbed == o.connected /\ o.h.att = "catch"
               caught == grabbed /\ f1.move = "dive" /\ Foreign
               h3 == IF caught THEN [o.h EXCEPT !.move = "catch", !.att = "none"]
                     ELSE o.h
               h4 == IF playable /\ Foreign THEN h3
                     ELSE [h3 EXCEPT !.impact = {}, !.catch = {}]
               guard == SlotGuard(h4, k)
               g2 == Install(g1, guard # "none")
               set == g1.timer = 0
               title == Active /\ g.phase = "title"
           IN  /\ spr' = o.spr
               /\ ledger' = IF caught
                            THEN combat_ledger_update(o.l, "catch", FALSE) ELSE o.l
               /\ f' = IF caught THEN Fighter("catch", FALSE) ELSE f1
               /\ h' = [h4 EXCEPT !.dive_guard = @ \/ (set /\ guard = "dive"),
                                  !.impact_guard = set /\ guard = "impact",
                                  !.catch_guard = set /\ guard = "catch"]
               /\ g' = IF title THEN [g2 EXCEPT !.timer = 1, !.by = "title"] ELSE g2
               /\ ghost' = Ghost(ledger', o.served)
  /\ Goto("contact", k)
  /\ UNCHANGED own

NextSlot(k) == IF k = NSlots - 1 THEN Goto("frame", 0) ELSE Goto("80D2", k + 1)

\* The slot's own code: nothing, or the sprite dies or another takes its slot.
Contact(k) ==
  /\ At("contact") /\ seam[2] = k
  /\ \E kind \in Spawns[k] : spr' = [spr EXCEPT ![k] = kind]
  /\ NextSlot(k)
  /\ UNCHANGED <<g, own, f, h, ledger, ghost>>

\* A side hit, refused by a nonzero $1497.
Hurt(k) ==
  /\ At("contact") /\ seam[2] = k
  /\ g.timer = 0 /\ playable
  /\ \E p \in {"script", "dead"} : g' = [g EXCEPT !.phase = p]
  /\ NextSlot(k)
  /\ UNCHANGED <<spr, own, f, h, ledger, ghost>>

\* $01:AA33 after an accepted stomp.
SmwFalconOnNativeStompBounce(k) ==
  /\ At("contact") /\ seam[2] = k
  /\ playable
  /\ NextSlot(k)
  /\ IF ~h.armed \/ ~Foreign THEN UNCHANGED <<g, f, h, ghost>>
     ELSE /\ g' = Install(g, TRUE)
          /\ h' = [h EXCEPT !.armed = FALSE, !.consumed = TRUE,
                            !.stomp_guard = @ \/ g.timer = 0]
          /\ f' \in foreign_resolve(f, Hit(FALSE, FALSE, FALSE, TRUE))
          /\ ghost' = [ghost EXCEPT !.bounces = @ + 1]
  /\ UNCHANGED <<spr, own, ledger>>

----------------------------------------------------------------------------
(* State loads, between frames.                                             *)

NoHost ==
  [pending |-> FALSE, departure |-> 0, armed |-> FALSE, consumed |-> FALSE,
   stomp_guard |-> FALSE, impact |-> {}, impact_guard |-> FALSE, catch |-> {},
   catch_guard |-> FALSE, grace |-> 0, iframes |-> FALSE, dive_guard |-> FALSE,
   stamped |-> FALSE, move |-> "idle", att |-> "none"]

\* Mutant: the guards of the abandoned timeline survive the load.
HostLoadedGuarded ==
  [NoHost EXCEPT !.stomp_guard = h.stomp_guard, !.impact_guard = h.impact_guard,
                 !.dive_guard = h.dive_guard]

\* SmwFalconOnStateLoaded forgets every latch and writes no guest byte.
SmwFalconOnStateLoaded == NoHost

\* SmwOnStateLoaded: a save without a usable controller record reselects
\* Falcon and leaves him to the script.
smw_falcon_restore_selection(restored) ==
  /\ own' = IF own = "none" THEN "none" ELSE IF restored.ok THEN restored.own ELSE "scripted"
  /\ f' = IF own # "none" /\ restored.ok THEN Fighter(restored.move, restored.fresh)
          ELSE cf_reset

\* The controller records a save may hold, the first of them unusable.
Records ==
  {[ok |-> FALSE], [ok |-> TRUE, own |-> "scripted", move |-> "idle", fresh |-> FALSE]}
    \cup [ok : {TRUE}, own : {"foreign"}, move : {"dive"}, fresh : {FALSE}]
    \cup [ok : {TRUE}, own : {"foreign"}, move : {"throw"}, fresh : {TRUE}]

StateLoad ==
  /\ At("frame")
  /\ \E r \in Records, t \in 0 .. 1, p \in {"play", "script"} :
       /\ smw_falcon_restore_selection(r)
       /\ g' = [phase |-> p, air |-> FALSE, timer |-> t,
                by |-> IF t = 0 THEN "none" ELSE "native"]
  /\ h' = SmwFalconOnStateLoaded
  /\ ledger' = NoLedger
  /\ ghost' = [owed |-> <<>>, served |-> 0, bounces |-> 0, rescued |-> FALSE]
  /\ UNCHANGED <<seam, spr>>

----------------------------------------------------------------------------

Init ==
  /\ seam = <<"frame", 0>>
  /\ g = [phase |-> "script", air |-> FALSE, timer |-> 0, by |-> "none"]
  /\ spr = [k \in Slots |-> "inert"]
  /\ own \in {"none", "scripted"}        \* smw_falcon_activate, or Mario
  /\ f = cf_reset
  /\ h = NoHost
  /\ ledger = NoLedger
  /\ ghost = [owed |-> <<>>, served |-> 0, bounces |-> 0, rescued |-> FALSE]
  /\ stands = TRUE

Step ==
  \/ LiveFrame \/ FrozenFrame \/ NativePhase \/ StateLoad
  \/ SmwFalconBeforePlayerPhysics
  \/ RestoreWallSafeGround
  \/ BeforePhysicsNotOurs
  \/ SmwFalconBeforePhysics
  \/ SmwFalconBeforeCrushCheck
  \/ SkipAfterPhysics
  \/ \E air, accepted, wall \in BOOLEAN : SmwFalconAfterPhysics(air, accepted, wall)
  \/ \E k \in Slots : \/ SmwFalconBeforeNormalSprites(k)
                      \/ Contact(k) \/ Hurt(k)
                      \/ SmwFalconOnNativeStompBounce(k)

\* While a catch is latched its slot is watched: what changes there is another
\* sprite from then on, of whatever kind.
Watch ==
  stands' = (ledger.latch \in Slots /\ ledger'.latch = ledger.latch =>
               stands /\ spr'[ledger.latch] = spr[ledger.latch])

Next == Step /\ Watch

Spec == Init /\ [][Next]_vars

----------------------------------------------------------------------------
(* Properties.                                                              *)

TypeOK ==
  /\ g \in [phase : Phases, air : BOOLEAN, timer : 0 .. 3,
            by : {"none", "native", "bridge", "title", "wall"}]
  /\ spr \in [Slots -> Kinds]
  /\ own \in {"none", "scripted", "foreign"}
  /\ f \in [move : Moves, fresh : BOOLEAN]
  /\ h.departure \in 0 .. MaxDeparture /\ h.grace \in 0 .. DiveGrace
  /\ h.impact \subseteq Slots /\ h.catch \subseteq Slots
  /\ ledger.hit \subseteq Slots /\ ledger.latch \in Slots \cup {NoSlot}

\* "Native power-up/star/hurt timers remain authoritative and untouched": no
\* seam that lifts a guard erases a $1497 value SMW or a state load wrote,
\* whatever frames, handoffs and loads passed since the guard was installed
\* (clear_stomp_contact_guard, clear_dive_iframe_timer_guard, 80D2).
GuardsSpareNative ==
  [][~At("frame") /\ g.timer = 1 /\ g.by = "native" /\ g'.timer = 0 => g'.by = "wall"]_vars

\* "never a blanket player invulnerability request": when slot k's own code
\* runs under a $1497 the bridge installed, the move accepted k, or the dive's
\* frames of grace or an accepted stomp are what protect it.  A wall-safety
\* rescue is set apart: it resumes a frame whose D5F2 the death left out.
GuardedContactIsOwed ==
  At("contact") /\ ~ghost.rescued /\ g.timer = 1 /\ g.by = "bridge" /\ g.phase = "play" =>
    \/ seam[2] \in ledger.hit \cup {ledger.latch}
    \/ h.iframes \/ h.dive_guard \/ h.consumed

\* A move's consequence is global to the frame, whichever of CD36 and the
\* sprite slots commits it, and a tick's stomp bounce reaches the fighter once.
OncePerFrame == ghost.served <= 1 /\ ghost.bounces <= 1

\* "only the exact, still-catchable ordinary target may receive the Throw's
\* native defeat": a throw strikes the slot the dive caught and no kind but the
\* caught one, whatever handoffs, loads and reselections came between; and it
\* never misses the sprite it caught while that still stands there.  What is
\* struck beside it is a successor of its kind, which the id does not tell.
Thrown == f.fresh /\ ghost.owed # <<>> /\ ghost'.served > ghost.served

ThrowDefeatsTheCaught ==
  [][/\ \A k \in Slots : f.fresh /\ k \in ledger'.hit \ ledger.hit =>
          ghost.owed = <<k, spr[k]>>
     /\ Thrown /\ stands => ghost.owed[1] \in ledger'.hit]_vars

\* "a dead or reused slot cannot be struck": whoever is struck by a throw is
\* the sprite that was caught.
ReusedSlotIsSpared ==
  [][\A k \in Slots : f.fresh /\ k \in ledger'.hit \ ledger.hit => stands]_vars

\* ContactsAccounted: what a frame does to the sprites and to the player is
\* owed by one accepted contact, once.
ContactsAccounted == TypeOK /\ GuardedContactIsOwed /\ OncePerFrame
=============================================================================
