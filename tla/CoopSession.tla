----------------------------- MODULE CoopSession -----------------------------
(***************************************************************************)
(* The co-op session core, src/mods/coop/coop_session.c: players, shared   *)
(* lives and outcome, the frame's events and the actions they resolve to,  *)
(* separation and recovery.  Each exported function is an operator on the  *)
(* session's variables; Spec lets the game adapter call them in any order. *)
(*                                                                         *)
(* Positions and the camera are abstracted to what the code asks of them:  *)
(* which players are outside the view, who leads, and next to whom a       *)
(* returning player fits.  coop_session_resolve loops over sorted events;  *)
(* here its result is stated directly, and CoopResolve shows that the loop *)
(* computes it.  Allocation failure (`failed`) ends the program in the     *)
(* adapter and is left out.                                                *)
(***************************************************************************)
EXTENDS Integers, FiniteSets

CONSTANTS
  PlayerCount,     \* players are 0..PlayerCount-1, in roster order
  Primary,         \* session.primary
  NoPlayer,        \* COOP_NO_PLAYER, above every player
  NoEntity,        \* COOP_NO_ENTITY, above every entity
  TicksPerSecond,  \* ticks_per_second, at most 1000
  InitialLives,    \* lives at the start (the guest's counter replaces the 5)
  Event,           \* the events the adapter may report
  Equipment,       \* power, reserve and star the guest may give a player
  Mount, Object,   \* entities a player may ride, or carry
  Unpluggable,     \* bound: players whose controller comes and goes
  MaxEvents        \* bound: events in one frame

Player == 0..(PlayerCount - 1)
Power  == {"SMALL", "BIG", "CAPE", "FIRE"}
Life   == {"PLAYING", "DYING", "DEATH_BUBBLE", "CATCHUP_BUBBLE"}
Kind   == {"PICKUP", "ENEMY_CONTACT", "ON_OFF", "CHECKPOINT", "DAMAGE", "DEATH",
           "DEATH_FINISHED", "TIMEOUT", "EXIT"}

AnyEvent == [kind : Kind, player : Player \cup {NoPlayer}, entity : Nat, value : Nat,
             flags : 0..7, distance : Nat]

ASSUME SessionAssumption ==
  /\ PlayerCount \in Nat /\ PlayerCount >= 2
  /\ Primary \in Player
  /\ NoPlayer \in Nat /\ NoPlayer >= PlayerCount
  /\ TicksPerSecond \in 1..1000
  /\ InitialLives \in Nat
  /\ Event \subseteq AnyEvent
  /\ Equipment \subseteq [power : Power, reserve : Nat, star : Nat]
  /\ NoEntity \in Nat /\ NoEntity \notin Mount \cup Object
  /\ Mount \subseteq Nat /\ Object \subseteq Nat /\ Mount \cap Object = {}
  /\ Unpluggable \subseteq Player
  /\ MaxEvents \in Nat

VARIABLES
  players,      \* CoopPlayer records
  lives,
  outcome,
  checkpoint,
  advancing,    \* gameplay clocks run in this frame
  blocked,      \* input_blocked: a player was disconnected at frame begin
  resolved,
  events,       \* what was reported in this frame
  actions,      \* what this frame decided
  charged       \* history: lives taken since the last restart

frame == <<advancing, blocked>>
vars  == <<players, lives, outcome, checkpoint, frame, resolved, events, actions, charged>>

PlayerRecord ==
  [life : Life, power : Power, reserve : Nat, star : Nat, protection : Nat,
   recovery : Nat, separation : Nat, mount : Mount \cup {NoEntity},
   held : Object \cup {NoEntity}, connected : BOOLEAN, upgrade : BOOLEAN]

(* event flags: SECRET 1, STOMP 2, LETHAL 4                                *)
Secret(e) == e.flags % 2
Stomp(e)  == (e.flags \div 2) % 2 = 1
Lethal(e) == e.flags \div 4 = 1

Action(k, p, e, v) == [kind |-> k, player |-> p, entity |-> e, value |-> v]

TypeOK ==
  /\ players \in [Player -> PlayerRecord]
  /\ lives \in Nat
  /\ outcome \in {"CONTINUE", "RETRY", "GAME_OVER", "CLEAR"}
  /\ checkpoint \in Nat
  /\ advancing \in BOOLEAN /\ blocked \in BOOLEAN /\ resolved \in BOOLEAN
  /\ events \subseteq Event
  /\ charged \in Nat

Active == {p \in Player : players[p].life = "PLAYING"}

(* coop_player_precedes: the primary first, then by id.                    *)
Precedes(a, b) == a # b /\ (a = Primary \/ (b # Primary /\ a < b))

Init ==
  /\ players = [p \in Player |->
       [life |-> "PLAYING", power |-> "SMALL", reserve |-> 0, star |-> 0,
        protection |-> 0, recovery |-> 0, separation |-> 0, mount |-> NoEntity,
        held |-> NoEntity, connected |-> TRUE, upgrade |-> FALSE]]
  /\ lives = InitialLives
  /\ outcome = "CONTINUE"
  /\ checkpoint = 0
  /\ advancing = FALSE /\ blocked = FALSE /\ resolved = FALSE
  /\ events = {} /\ actions = {}
  /\ charged = 0

-----------------------------------------------------------------------------
(* coop_session_begin_frame and coop_session_event                         *)

Tick(n) == IF n > 0 THEN n - 1 ELSE 0

BeginFrame(advances) ==
  /\ events' = {} /\ actions' = {}
  /\ resolved' = FALSE
  /\ blocked' = \E p \in Player : ~players[p].connected
  /\ advancing' = (advances /\ ~blocked' /\ outcome = "CONTINUE")
  /\ players' = IF advancing'
                  THEN [p \in Player |-> [players[p] EXCEPT
                          !.star = Tick(@), !.protection = Tick(@), !.recovery = Tick(@)]]
                  ELSE players
  /\ UNCHANGED <<lives, outcome, checkpoint, charged>>

(* An accepted event; a refused one changes nothing.  Reporting an event   *)
(* twice has no effect (see CoopResolve), so a set is enough.              *)

Report(e) ==
  /\ ~blocked /\ ~resolved /\ outcome = "CONTINUE"
  /\ advancing \/ e.kind = "EXIT"
  /\ Cardinality(events) < MaxEvents
  /\ events' = events \cup {e}
  /\ UNCHANGED <<players, lives, outcome, checkpoint, frame, resolved, actions, charged>>

-----------------------------------------------------------------------------
(* coop_session_resolve                                                    *)

Of(k)      == {e \in events : e.kind = k}
Told(k, p) == \E e \in Of(k) : e.player = p

(* compare_event among events of one kind.                                 *)
Earlier(a, b) ==
  \/ a.entity < b.entity
  \/ a.entity = b.entity /\
       \/ a.player < b.player
       \/ a.player = b.player /\
            \/ a.value < b.value
            \/ a.value = b.value /\
                 \/ a.flags < b.flags
                 \/ a.flags = b.flags /\ a.distance < b.distance

Earliest(S) == CHOOSE e \in S : \A d \in S \ {e} : Earlier(e, d)

(* Players hit by something lethal; a star or protection does not help.    *)
Doomed ==
  {p \in Active : \/ Told("DEATH", p)
                  \/ \E e \in Of("DAMAGE") : e.player = p /\ Lethal(e)}

Survivors == Active \ Doomed

Hurt ==
  {p \in Survivors : /\ players[p].star = 0 /\ players[p].protection = 0
                     /\ \E e \in Of("DAMAGE") : e.player = p /\ ~Lethal(e)}

(* `die`                                                                   *)

Die(r) == [r EXCEPT !.life = "DYING", !.power = "SMALL", !.star = 0, !.protection = 0,
                    !.separation = 0, !.mount = NoEntity, !.held = NoEntity,
                    !.upgrade = FALSE]

Upgrade(r) == [r EXCEPT !.power   = IF @ = "SMALL" THEN "BIG" ELSE @,
                        !.upgrade = @ \/ r.life # "PLAYING"]

Damage(r) == [r EXCEPT !.reserve = 0, !.power = "SMALL", !.protection = 2 * TicksPerSecond]

(* Player p after the events: death, then checkpoint, damage, end of death.*)
Resolved(p) ==
  LET died == IF p \in Doomed THEN Die(players[p]) ELSE players[p]
      up   == IF Of("CHECKPOINT") # {} THEN Upgrade(died) ELSE died
      hurt == IF p \in Hurt THEN Damage(up) ELSE up
  IN  IF hurt.life = "DYING" /\ Told("DEATH_FINISHED", p)
        THEN [hurt EXCEPT !.life = "DEATH_BUBBLE", !.recovery = 3 * TicksPerSecond]
        ELSE hurt

(* The secret exit, else the first player's.                               *)
ExitWinner ==
  CHOOSE e \in Of("EXIT") : \A d \in Of("EXIT") \ {e} :
    \/ Secret(e) > Secret(d)
    \/ Secret(e) = Secret(d) /\ \/ Precedes(e.player, d.player)
                                \/ e.player = d.player /\ Earlier(e, d)

GoalStars == CHOOSE v \in {e.value : e \in Of("EXIT")} : \A e \in Of("EXIT") : e.value <= v

(* Contacts of one entity by players still alive, and the nearest of them. *)
Contacts(k, n) == {e \in Of(k) : e.entity = n /\ e.player \in Survivors}

Nearest(S) ==
  CHOOSE e \in S : \A d \in S \ {e} :
    \/ e.distance < d.distance
    \/ e.distance = d.distance /\ \/ Precedes(e.player, d.player)
                                  \/ e.player = d.player /\ Earlier(e, d)

(* Faulty: every contact is awarded.                                       *)
AwardsEveryone(k, a) ==
  {Action(a, e.player, e.entity, e.value) : e \in {d \in Of(k) : d.player \in Survivors}}

Awards(k, a) ==
  {Action(a, w.player, w.entity, w.value) :
     w \in {Nearest(Contacts(k, e.entity)) : e \in {d \in Of(k) : d.player \in Survivors}}}

Bounces ==
  {Action("STOMP_BOUNCE", e.player, e.entity, 0) :
     e \in {d \in Of("ENEMY_CONTACT") : Stomp(d) /\ d.player \in Survivors}}

(* Faulty: no DETACH_MOUNT.                                                *)
DeathsKeepMount ==
  UNION {{Action("DEATH", p, NoEntity, 0)}
         \cup {Action("DROP_OBJECT", p, e, 0) : e \in {players[p].held} \ {NoEntity}}
         : p \in Doomed}

(* The actions that a player's death emits.                                *)
Deaths ==
  UNION {{Action("DEATH", p, NoEntity, 0)}
         \cup {Action("DROP_OBJECT", p, e, 0) : e \in {players[p].held} \ {NoEntity}}
         \cup {Action("DETACH_MOUNT", p, e, 0) : e \in {players[p].mount} \ {NoEntity}}
         : p \in Doomed}

Injuries ==
  UNION {{Action("DAMAGE", p, NoEntity, 0)}
         \cup {Action("DROP_RESERVE", p, NoEntity, v) : v \in {players[p].reserve} \ {0}}
         : p \in Hurt}

FirstOf(k, v(_)) ==
  IF Of(k) = {} THEN {}
  ELSE LET e == Earliest(Of(k)) IN {Action(k, e.player, e.entity, v(e))}

Cleared == Of("EXIT") # {}
(* Faulty: a clear does not win over deaths and the timeout.               *)
FailedAnyway == Of("TIMEOUT") # {} \/ Survivors = {}

Failed == ~Cleared /\ (Of("TIMEOUT") # {} \/ Survivors = {})

CheckpointAfter ==
  IF Of("CHECKPOINT") = {} THEN checkpoint ELSE Earliest(Of("CHECKPOINT")).value

LivesAfter == IF Failed THEN Tick(lives) ELSE lives

OutcomeAfter == IF Cleared THEN "CLEAR"
                ELSE IF ~Failed THEN "CONTINUE"
                ELSE IF LivesAfter > 0 THEN "RETRY" ELSE "GAME_OVER"

(* What the events decide, besides the state.                              *)
Decisions ==
  Deaths \cup Injuries \cup Bounces
  \cup Awards("PICKUP", "PICKUP") \cup Awards("ENEMY_CONTACT", "ENEMY_DAMAGE")
  \cup FirstOf("ON_OFF", LAMBDA e : 0) \cup FirstOf("CHECKPOINT", LAMBDA e : e.value)
  \cup (IF Cleared
          THEN {Action("EXIT", ExitWinner.player, ExitWinner.entity,
                       Secret(ExitWinner) + 256 * GoalStars)}
        ELSE IF Failed THEN {Action(OutcomeAfter, NoPlayer, NoEntity, CheckpointAfter)}
        ELSE {})

Resolve ==
  /\ outcome = "CONTINUE" /\ ~resolved
  /\ advancing \/ events # {}
  /\ resolved' = TRUE
  /\ players' = [p \in Player |-> Resolved(p)]
  /\ checkpoint' = CheckpointAfter
  /\ lives' = LivesAfter
  /\ charged' = charged + (lives - LivesAfter)
  /\ outcome' = OutcomeAfter
  /\ actions' = actions \cup Decisions
  /\ UNCHANGED <<frame, events>>

-----------------------------------------------------------------------------
(* coop_camera_frame, coop_camera_check_separation, coop_session_recover   *)

(* coop_camera_frame with another view size: the separation clocks restart.*)
Resize ==
  /\ players' = [p \in Player |-> [players[p] EXCEPT !.separation = 0]]
  /\ UNCHANGED <<lives, outcome, checkpoint, frame, resolved, events, actions, charged>>

(* `outside` are the players not wholly in view, `leader` the one a camera *)
(* that cannot show everybody follows (any active player, or nobody).      *)
Lagging(p, outside, leader) == p \in outside /\ p # leader

Ripe(p, outside, leader, resized) ==
  Lagging(p, outside, leader) /\ ~resized /\ players[p].separation + 1 >= TicksPerSecond

(* The loop's count of active players has gone down to p alone.            *)
(* Faulty: the count of active players is not taken down by the loop.     *)
LastActiveNever(p, outside, leader, resized) == FALSE

LastActive(p, outside, leader, resized) ==
  \A q \in Active \ {p} : q < p /\ Ripe(q, outside, leader, resized)

CatchUp(r) == [r EXCEPT !.held = NoEntity, !.life = "CATCHUP_BUBBLE",
                        !.recovery = TicksPerSecond \div 2, !.separation = 0]

(* coop_camera_check_separation.  A resized view only clears the clocks of *)
(* players that do not lag; an autoscrolling one does nothing.             *)
Separated(p, outside, leader, resized) ==
  LET r == players[p] IN
  IF p \notin Active THEN r
  ELSE IF ~Lagging(p, outside, leader) \/ LastActive(p, outside, leader, resized)
    THEN [r EXCEPT !.separation = 0]
  ELSE IF resized THEN r
  ELSE IF Ripe(p, outside, leader, resized) THEN CatchUp(r)
  ELSE [r EXCEPT !.separation = @ + 1]

Drops(left) == {Action("DROP_OBJECT", p, players[p].held, 0) :
                  p \in {q \in left : players[q].held # NoEntity}}

Separate(outside, leader, resized) ==
  /\ advancing /\ outcome = "CONTINUE"
  /\ players' = [p \in Player |-> Separated(p, outside, leader, resized)]
  /\ actions' = actions \cup Drops({p \in Active : players'[p].life # "PLAYING"})
  /\ UNCHANGED <<lives, outcome, checkpoint, frame, resolved, events, charged>>

Bubbles == {p \in Player : players[p].life \in {"DEATH_BUBBLE", "CATCHUP_BUBBLE"}}
Waiting == {p \in Bubbles : players[p].recovery = 0}

Return(r) ==
  [r EXCEPT !.life = "PLAYING", !.upgrade = FALSE,
            !.power      = IF r.life # "DEATH_BUBBLE" THEN @
                           ELSE IF r.upgrade THEN "BIG" ELSE "SMALL",
            !.protection = IF r.life = "DEATH_BUBBLE" THEN 2 * TicksPerSecond ELSE @]

(* Whom a player may return to: those playing before anybody returned.     *)

Anchors(returning) == Active

(* `anchor` gives each player with a safe place the player it returns to.  *)
Recover(anchor) ==
  /\ advancing /\ outcome = "CONTINUE"
  /\ players' = [p \in Player |-> IF p \in DOMAIN anchor THEN Return(players[p])
                                                         ELSE players[p]]
  /\ actions' = actions \cup {Action("RECOVER", p, NoEntity, anchor[p]) : p \in DOMAIN anchor}
  /\ UNCHANGED <<lives, outcome, checkpoint, frame, resolved, events, charged>>

(* coop_session_restart                                                    *)
Fresh(r) == [r EXCEPT !.life = "PLAYING", !.power = "SMALL", !.mount = NoEntity,
                      !.held = NoEntity, !.star = 0, !.protection = 0, !.recovery = 0,
                      !.separation = 0, !.upgrade = FALSE]

Restart ==
  /\ outcome \in {"RETRY", "GAME_OVER"}
  /\ players' = [p \in Player |-> Fresh(players[p])]
  /\ outcome' = "CONTINUE"
  /\ events' = {} /\ actions' = {}
  /\ charged' = 0
  /\ UNCHANGED <<lives, checkpoint, frame, resolved>>

-----------------------------------------------------------------------------
(* What the adapter does to the records between the calls: the guest's     *)
(* power, reserve and star; carried and ridden entities; controllers.      *)

Equip(p, q) ==
  /\ advancing /\ ~resolved /\ p \in Active
  /\ players' = [players EXCEPT ![p].power = q.power, ![p].reserve = q.reserve,
                                ![p].star = q.star]
  /\ UNCHANGED <<lives, outcome, checkpoint, frame, resolved, events, actions, charged>>

(* claim_carried and release_owner; an owned entity is never claimed.      *)
Carry(p, e) ==
  /\ advancing /\ ~resolved /\ p \in Active
  /\ \/ players[p].held = NoEntity /\ e # NoEntity /\ \A q \in Player : players[q].held # e
     \/ players[p].held # NoEntity /\ e = NoEntity
  /\ players' = [players EXCEPT ![p].held = e]
  /\ UNCHANGED <<lives, outcome, checkpoint, frame, resolved, events, actions, charged>>

(* mount_owner                                                             *)
Ride(p, e) ==
  /\ advancing /\ ~resolved /\ p \in Active
  /\ \/ players[p].mount = NoEntity /\ e # NoEntity /\ \A q \in Player : players[q].mount # e
     \/ players[p].mount # NoEntity /\ e = NoEntity
  /\ players' = [players EXCEPT ![p].mount = e]
  /\ UNCHANGED <<lives, outcome, checkpoint, frame, resolved, events, actions, charged>>

(* SmwCoopHostFrame notices a controller.                                  *)
Connection(p) ==
  /\ players' = [players EXCEPT ![p].connected = ~@]
  /\ UNCHANGED <<lives, outcome, checkpoint, frame, resolved, events, actions, charged>>

Next ==
  \/ \E advances \in BOOLEAN : BeginFrame(advances)
  \/ \E e \in Event : Report(e)
  \/ Resolve
  \/ Resize
  \/ \E outside \in SUBSET Active, leader \in Active \cup {NoPlayer}, resized \in BOOLEAN :
       Separate(outside, leader, resized)
  \/ \E returning \in SUBSET Waiting : \E anchor \in [returning -> Anchors(returning)] : Recover(anchor)
  \/ Restart
  \/ \E p \in Player, q \in Equipment : Equip(p, q)
  \/ \E p \in Player, e \in Object \cup {NoEntity} : Carry(p, e)
  \/ \E p \in Player, e \in Mount \cup {NoEntity} : Ride(p, e)
  \/ \E p \in Unpluggable : Connection(p)

Spec == Init /\ [][Next]_vars

-----------------------------------------------------------------------------
(* What is to be shown.                                                    *)

(* While the attempt goes on somebody is playing: deaths, separation and   *)
(* timeouts in any order never leave a team of bubbles waiting for ever on *)
(* an anchor that cannot come.                                             *)
SomeoneActive == outcome = "CONTINUE" => Active # {}

(* A team attempt costs one life at most, only a failed one costs any, and *)
(* a clear wins over deaths and a timeout reported in the same frame.      *)
OneLifePerAttempt ==
  /\ charged <= 1
  /\ charged = 1 => outcome \in {"RETRY", "GAME_OVER"}
  /\ outcome = "RETRY" => lives > 0
  /\ outcome = "GAME_OVER" => lives = 0

(* Only a player in play carries anything; a dead one rides nothing        *)
(* either, a player catching up keeps the mount.                           *)
OutOfPlayOwnsNothing ==
  \A p \in Player :
    /\ players[p].life # "PLAYING" => players[p].held = NoEntity
    /\ players[p].life \in {"DYING", "DEATH_BUBBLE"} => players[p].mount = NoEntity

(* Whatever a player carries when dying or left behind, and what a dying   *)
(* player rides, is handed to the world by an action of the same frame.    *)
NothingVanishes ==
  [][\A p \in Player : players[p].life = "PLAYING" /\ players'[p].life # "PLAYING" =>
       /\ players[p].held # NoEntity =>
            Action("DROP_OBJECT", p, players[p].held, 0) \in actions'
       /\ players[p].mount \notin {NoEntity, players'[p].mount} =>
            Action("DETACH_MOUNT", p, players[p].mount, 0) \in actions']_vars

(* A blocked frame takes no event and runs no clock, and before the events *)
(* are resolved only separation and recovery have acted.                   *)
FrameDiscipline ==
  /\ blocked => ~advancing /\ events = {}
  /\ ~resolved => \A a \in actions : a.kind \in {"DROP_OBJECT", "RECOVER"}

(* An entity touched by several players in one frame goes to one of them.  *)
OneWinner ==
  \A a, b \in actions :
    a.kind \in {"PICKUP", "ENEMY_DAMAGE"} /\ a.kind = b.kind /\ a.entity = b.entity => a = b

(* "Lethal hits precede nonlethal reserve drops and catch-up": a player    *)
(* who dies in a frame wins nothing in it, and loses no reserve to a hit.  *)
LethalFirst ==
  \A a, b \in actions :
    a.kind = "DEATH" /\ b.player = a.player =>
      b.kind \notin {"PICKUP", "ENEMY_DAMAGE", "STOMP_BOUNCE", "DAMAGE", "DROP_RESERVE"}

(* The inductive invariant of the session: what is said above, together.   *)
SessionInv ==
  /\ TypeOK /\ SomeoneActive /\ OneLifePerAttempt /\ OutOfPlayOwnsNothing
  /\ FrameDiscipline /\ OneWinner /\ LethalFirst

(* "newly recovered actors cannot create a chain of same-frame recovery    *)
(* anchors": a player returns to one who was in play before the recovery.  *)
AnchorsWereActive ==
  [][\A a \in actions' \ actions : a.kind = "RECOVER" =>
       a.value \in Active /\ players[a.player].life # "PLAYING"]_vars

(* With a controller missing, nothing happens to the team before the next  *)
(* frame: no event is taken, nobody dies, recovers or is left behind.      *)
FrozenWhileBlocked ==
  [][blocked /\ blocked' =>
       /\ lives' = lives /\ checkpoint' = checkpoint /\ events' = {}
       /\ outcome' # outcome => outcome' = "CONTINUE"
       /\ outcome' = outcome => \A p \in Player : players'[p].life = players[p].life]_vars
=============================================================================
