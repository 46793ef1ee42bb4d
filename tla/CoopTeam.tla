------------------------------ MODULE CoopTeam ------------------------------
(***************************************************************************)
(* The co-op adapter's frame, src/mods/coop/coop_simulation.c, driving the *)
(* session core of CoopSession: SmwCoopSimulationBegin, the hooks that run *)
(* in the guest's level frame, and SmwCoopSimulationEnd, which resolves    *)
(* the frame and drives deaths, room changes and restarts.                 *)
(*                                                                         *)
(* `phase` is the place in this sequential code; "idle" is the boundary    *)
(* between two host frames.  The guest (the recompiled game) is external:  *)
(* in a frame it may move, kill, reward or freeze players in any way the   *)
(* hooks can see.  An actor's guest image is abstracted to its animation   *)
(* ($71: below 5 "free", 9 "dying", others "scene") and death timer        *)
(* ($1496).  A frame with a controller missing is not run at all           *)
(* (SmwCoopHostFrame), so every player is connected.  Carried objects and  *)
(* mounts are left to other modules.                                       *)
(***************************************************************************)
EXTENDS CoopSession

CONSTANTS
  DeathTicks,   \* death timer of a new death ($30, one tick in four frames)
  MaxLives,     \* bound: lives the guest's counter reaches by one-ups
  Entrants,     \* players who may take a pipe or a door, or leave the course
  Tape          \* checkpoint key of the course, TranslevelNo + 1

Event1(k, p, v) ==
  [kind |-> k, player |-> p, entity |-> NoEntity, value |-> v, flags |-> 0, distance |-> 0]

(* The events this adapter reports.                                        *)
TeamEvent ==
  {Event1(k, p, 0) : k \in {"DEATH", "DEATH_FINISHED", "EXIT"}, p \in Player}
  \cup {Event1("CHECKPOINT", p, Tape) : p \in Player}
  \cup {Event1("TIMEOUT", NoPlayer, 0)}

ASSUME TeamAssumption ==
  /\ TeamEvent \subseteq Event
  /\ DeathTicks \in 1..255
  /\ InitialLives \in 1..100 /\ MaxLives \in InitialLives..100
  /\ Entrants \subseteq Player
  /\ Tape \in Nat \ {0}

VARIABLES
  phase,
  mode,        \* $100: "level", "fade" (loader), "gameover" or "map"
  entered,     \* room_initialized and previous_mode is the level's
  sublevel,    \* $141A is not zero: not the course's primary entrance
  animation,   \* $71 in each actor's image
  timer,       \* $1496 in each actor's image
  todo,        \* actors whose routine has still to run in this frame
  request,     \* room_request
  paused,      \* $13D4
  ending,      \* $1493 is not zero
  counter,     \* $0DBE: lives less one, a byte
  midway,      \* $13CE
  flag,        \* bit $40 of the course's overworld settings
  ledger,      \* history: lives the team is entitled to
  aborted      \* Die(): an event was refused

images == <<animation, timer>>
guest  == <<counter, midway, flag>>
place  == <<mode, entered, sublevel>>
teamVars == <<vars, phase, place, images, todo, request, paused, ending, guest, ledger, aborted>>

TeamDeath == outcome \in {"RETRY", "GAME_OVER"}

TeamInit ==
  /\ Init
  /\ phase = "idle" /\ mode = "level" /\ entered = FALSE /\ sublevel = FALSE
  /\ animation = [p \in Player |-> "free"] /\ timer = [p \in Player |-> 0]
  /\ todo = {} /\ request = NoPlayer /\ paused = FALSE /\ ending = FALSE
  /\ counter = InitialLives - 1 /\ midway = FALSE /\ flag = FALSE
  /\ ledger = InitialLives /\ aborted = FALSE

-----------------------------------------------------------------------------
(* SmwCoopSimulationBegin                                                  *)

(* A player of an attempt that starts anew, or of one that goes on in      *)
(* another room.                                                           *)
Entering(r) ==
  IF outcome = "GAME_OVER" THEN [Fresh(r) EXCEPT !.reserve = 0]
  ELSE IF outcome = "RETRY" THEN Fresh(r)
  ELSE IF outcome = "CLEAR"
    THEN [r EXCEPT !.life = "PLAYING", !.recovery = 0, !.separation = 0, !.upgrade = FALSE]
  ELSE r

(* initialize_room.  The actors' images were set by the loader.            *)
InitializeRoom ==
  /\ phase = "idle" /\ mode = "level" /\ ~entered
  /\ entered' = TRUE
  /\ players' = [p \in Player |-> Entering(players[p])]
  /\ outcome' = "CONTINUE"
  /\ IF TeamDeath THEN events' = {} /\ actions' = {} /\ charged' = 0
                  ELSE UNCHANGED <<events, actions, charged>>
  /\ checkpoint' = IF sublevel THEN checkpoint ELSE IF flag THEN Tape ELSE 0
  /\ UNCHANGED <<lives, frame, resolved, phase, mode, sublevel, images, todo, request, paused,
                 ending, guest, ledger, aborted>>

(* Input is CoopInput's; what is left is a frame that does not advance.    *)
Begin ==
  /\ phase = "idle" /\ mode = "level" /\ entered
  /\ BeginFrame(FALSE)
  /\ request' = NoPlayer
  /\ phase' = "stage"
  /\ UNCHANGED <<place, images, todo, paused, ending, guest, ledger, aborted>>

-----------------------------------------------------------------------------
(* The hooks of the guest's level frame.                                   *)

(* party_pause: somebody in play and not dying, in a running attempt.      *)
CanPause ==
  /\ ~ending /\ outcome = "CONTINUE"
  /\ \E p \in Active : animation[p] # "dying"

(* begin_gameplay_stage: nobody in play is free to act.                    *)
Scene == \A p \in Active : animation[p] # "free"

(* A frame that pauses, stays paused, or goes on.  A message, the sprite   *)
(* lock or a transformation may freeze it.                                 *)
Paused(start) ==
  /\ phase = "stage"
  /\ (start /\ CanPause) # paused
  /\ paused' = TRUE
  /\ phase' = "end"
  /\ UNCHANGED <<vars, place, images, todo, request, ending, guest, ledger, aborted>>

Stage(start, frozen) ==
  /\ phase = "stage"
  /\ (start /\ CanPause) = paused
  /\ paused' = FALSE
  /\ BeginFrame(~Scene /\ ~frozen)
  /\ phase' = "routines"
  /\ todo' = {p \in Player : players[p].life \in {"PLAYING", "DYING"}}
  /\ UNCHANGED <<place, images, request, ending, guest, ledger, aborted>>

(* coop_session_event accepts e; the adapter aborts on a refusal.          *)
Accepts(e) == ~blocked /\ ~resolved /\ outcome = "CONTINUE" /\ (advancing \/ e.kind = "EXIT")

Queue(E) ==
  /\ events' = events \cup {e \in E : Accepts(e)}
  /\ aborted' = (aborted \/ \E e \in E : ~Accepts(e))

(* run_player_routines runs the primary first, then the others in order.   *)
Turn(p) ==
  /\ phase = "routines" /\ p \in todo /\ \A q \in todo \ {p} : Precedes(p, q)
  /\ todo' = todo \ {p}

core == <<players, lives, outcome, checkpoint, frame, resolved, actions, charged>>

(* The guest moves the actor: it starts or ends a scripted motion.         *)
Move(p, pose) ==
  /\ Turn(p) /\ animation[p] # "dying"
  /\ animation' = [animation EXCEPT ![p] = pose]
  /\ UNCHANGED <<vars, phase, place, timer, request, paused, ending, guest, ledger, aborted>>

(* A one-up; the frozen world of a failed attempt gives none.              *)
OneUp(p) ==
  /\ Turn(p) /\ ~TeamDeath /\ animation[p] # "dying"
  /\ counter + 1 < MaxLives
  /\ counter' = counter + 1 /\ ledger' = ledger + 1
  /\ UNCHANGED <<vars, phase, place, images, request, paused, ending, midway, flag, aborted>>

(* death_hook at 00:F606 and 00:F60A: the guest kills the actor, perhaps   *)
(* because the level timer ran out.                                        *)
Kill(p, timeout) ==
  /\ Turn(p) /\ advancing /\ animation[p] # "dying"
  /\ LET dies == players[p].life = "PLAYING"
     IN  /\ Queue((IF timeout THEN {Event1("TIMEOUT", NoPlayer, 0)} ELSE {})
                  \cup (IF dies THEN {Event1("DEATH", p, 0)} ELSE {}))
         /\ animation' = [animation EXCEPT ![p] = IF dies THEN "dying" ELSE @]
         /\ timer' = [timer EXCEPT ![p] = IF dies THEN DeathTicks ELSE @]
  /\ UNCHANGED <<core, phase, place, request, paused, ending, guest, ledger>>

(* Faulty: the death animation runs in play only.                         *)
RunsInPlay == advancing

(* The death animation stands still in a frozen frame, except when the     *)
(* whole team dies.                                                        *)
Runs == advancing \/ TeamDeath

(* death_hook at 00:D0B6: the death animation.                             *)
DeathTick(p) ==
  /\ Turn(p) /\ animation[p] = "dying"
  /\ timer' = IF Runs THEN [timer EXCEPT ![p] = Tick(@)] ELSE timer
  /\ IF ~Runs \/ timer'[p] > 0
       THEN UNCHANGED <<players, events, aborted>>
       ELSE IF TeamDeath
         THEN /\ players' = [players EXCEPT ![p].life = "DEATH_BUBBLE"]
              /\ UNCHANGED <<events, aborted>>
         ELSE Queue({Event1("DEATH_FINISHED", p, 0)}) /\ UNCHANGED players
  /\ UNCHANGED <<lives, outcome, checkpoint, frame, resolved, actions, charged,
                 phase, place, animation, request, paused, ending, guest, ledger>>

(* The hook at 00:D273: the end of a pipe or door animation.               *)
RoomRequest(p) ==
  /\ Turn(p) /\ animation[p] = "scene" /\ p \in Entrants
  /\ request' = IF /\ players[p].life = "PLAYING"
                   /\ request = NoPlayer \/ Precedes(p, request)
                  THEN p ELSE request
  /\ UNCHANGED <<vars, phase, place, images, paused, ending, guest, ledger, aborted>>

(* The hook at 00:F2CD observes the tape; the guest goes on to set its     *)
(* midway flag, whoever cut it.                                            *)
TouchTape(p) ==
  /\ Turn(p) /\ advancing /\ animation[p] = "free" /\ ~midway
  /\ midway' = TRUE
  /\ IF players[p].life = "PLAYING" THEN Queue({Event1("CHECKPOINT", p, Tape)})
                                    ELSE UNCHANGED <<events, aborted>>
  /\ UNCHANGED <<core, phase, place, images, request, paused, ending, counter, flag, ledger>>

(* record_goal and its like: contact of one actor with the goal.           *)
TouchGoal(p) ==
  /\ Turn(p) /\ advancing /\ players[p].life = "PLAYING" /\ animation[p] # "dying"
  /\ Queue({Event1("EXIT", p, 0)})
  /\ UNCHANGED <<core, phase, place, images, request, paused, ending, guest, ledger>>

RoutinesDone ==
  /\ phase = "routines" /\ todo = {}
  /\ phase' = "end"
  /\ UNCHANGED <<vars, place, images, todo, request, paused, ending, guest, ledger, aborted>>

(* The guest leaves a cleared course, or a paused one on Select.           *)
LeaveCourse ==
  /\ phase = "end" /\ mode = "level"
  /\ \/ outcome = "CLEAR"
     \/ outcome = "CONTINUE" /\ paused /\ Primary \in Entrants
  /\ mode' = "map" /\ paused' = FALSE
  /\ UNCHANGED <<vars, phase, entered, sublevel, images, todo, request, ending, guest, ledger,
                 aborted>>

-----------------------------------------------------------------------------
(* SmwCoopSimulationEnd                                                    *)

(* Faulty: the guest's counter is read back whatever the outcome.          *)
RereadAlways == counter + 1

(* The guest's counter decides while the attempt goes on or was won.       *)
Reread == IF TeamDeath THEN lives ELSE counter + 1

(* A scripted end of the course (a boss, a switch) is reported here, even  *)
(* in a frozen frame.                                                      *)
ReadBackLives(scripted) ==
  /\ phase = "end"
  /\ scripted => ~ending
  /\ lives' = Reread
  /\ ending' = (ending \/ scripted)
  /\ IF scripted /\ outcome = "CONTINUE"
       THEN Queue({Event1("EXIT", Primary, 0)}) ELSE UNCHANGED <<events, aborted>>
  /\ phase' = "resolve"
  /\ UNCHANGED <<players, outcome, checkpoint, frame, resolved, actions, charged, place, images,
                 todo, request, paused, guest, ledger>>

(* coop_session_resolve; it does nothing in a frame without gameplay.      *)
ResolveFrame ==
  /\ phase = "resolve"
  /\ \/ Resolve
     \/ ~(outcome = "CONTINUE" /\ ~resolved /\ (advancing \/ events # {})) /\ UNCHANGED vars
  /\ ledger' = IF outcome' # outcome /\ outcome' \in {"RETRY", "GAME_OVER"}
                 THEN ledger - 1 ELSE ledger
  /\ phase' = "apply"
  /\ UNCHANGED <<place, images, todo, request, paused, ending, guest, aborted>>

(* A player of a team that has cleared the course.                         *)
Celebrating(r) ==
  [r EXCEPT !.life = "PLAYING", !.recovery = 0, !.separation = 0, !.upgrade = FALSE,
            !.power = IF r.life \in {"DYING", "DEATH_BUBBLE"} THEN "SMALL" ELSE @,
            !.star = 0, !.protection = 0,
            !.mount = IF r.life = "PLAYING" THEN @ ELSE NoEntity,
            !.held = IF r.life = "PLAYING" THEN @ ELSE NoEntity]

VictoryPose(p) == "free"

(* apply_clear: everybody is back in play for the victory.                 *)
ApplyClear ==
  /\ phase = "apply" /\ \E a \in actions : a.kind = "EXIT"
  /\ players' = [p \in Player |-> Celebrating(players[p])]
  /\ animation' = [p \in Player |-> VictoryPose(p)] /\ timer' = [p \in Player |-> 0]
  /\ ending' = TRUE
  /\ phase' = "close"
  /\ UNCHANGED <<lives, outcome, checkpoint, frame, resolved, events, actions, charged, place,
                 todo, request, paused, guest, ledger, aborted>>

(* A room request is granted if the attempt goes on.                       *)
ChangeRoom ==
  /\ phase = "apply" /\ outcome = "CONTINUE" /\ request # NoPlayer
  /\ mode' = "fade" /\ sublevel' = TRUE
  /\ phase' = "close"
  /\ UNCHANGED <<vars, entered, images, todo, request, paused, ending, guest, ledger, aborted>>

(* Bubbles hold a neutral image (the end of recover_and_frame).            *)
Poses == [p \in Player |-> IF players'[p].life \in {"DEATH_BUBBLE", "CATCHUP_BUBBLE"}
                            THEN "free" ELSE animation[p]]

(* Neither cleared nor another room: recover_and_frame, or nothing for a   *)
(* team that failed or has cleared.                                        *)
Proceed ==
  /\ phase = "apply" /\ \A a \in actions : a.kind # "EXIT"
  /\ outcome = "CONTINUE" => request = NoPlayer
  /\ phase' = IF outcome = "CONTINUE" /\ advancing THEN "separate" ELSE "close"
  /\ UNCHANGED vars
  /\ animation' = IF outcome = "CONTINUE" THEN Poses ELSE animation
  /\ UNCHANGED <<place, timer, todo, request, paused, ending, guest, ledger, aborted>>

SeparateFrame(outside, leader, resized) ==
  /\ phase = "separate"
  /\ Separate(outside, leader, resized)
  /\ phase' = "recover"
  /\ UNCHANGED <<place, images, todo, request, paused, ending, guest, ledger, aborted>>

(* A player who returns has the image of the anchor, but for its animation *)
(* and its timer, which coop_guest_place_player sets to zero.              *)
RecoverFrame(anchor) ==
  /\ phase = "recover"
  /\ Recover(anchor)
  /\ animation' = [p \in Player |-> IF p \in DOMAIN anchor THEN "free" ELSE Poses[p]]
  /\ timer' = [p \in Player |-> IF p \in DOMAIN anchor THEN 0 ELSE timer[p]]
  /\ phase' = "close"
  /\ UNCHANGED <<place, todo, request, paused, ending, guest, ledger, aborted>>

(* previous_outcome was CONTINUE: the frame that failed has the action.    *)
JustFailed == \E a \in actions : a.kind \in {"RETRY", "GAME_OVER"}

LivesByte == (lives + 255) % 256

(* Faulty: the overworld's flag is left to the overworld.                  *)
PublishedLater(retry) == flag

(* The loader reads the checkpoint from the overworld's flag.              *)
Published(retry) == flag \/ (retry /\ midway)

(* A failed attempt: survivors of a timeout start to die, and once nobody  *)
(* is dying the loader, or the game-over screen, is asked for.             *)
Close ==
  /\ phase = "close"
  /\ phase' = "idle"
  /\ LET struck == IF JustFailed THEN Active ELSE {}
     IN  /\ players' = [p \in Player |-> IF p \in struck
                          THEN [players[p] EXCEPT !.life = "DYING", !.power = "SMALL", !.star = 0]
                          ELSE players[p]]
         /\ animation' = [p \in Player |-> IF p \in struck THEN "dying" ELSE animation[p]]
         /\ timer' = [p \in Player |-> IF p \in struck THEN DeathTicks ELSE timer[p]]
  /\ counter' = IF TeamDeath THEN LivesByte ELSE counter
  /\ LET over  == TeamDeath /\ \A p \in Player : players'[p].life # "DYING"
         retry == over /\ outcome = "RETRY"
     IN  /\ mode' = IF ~over THEN mode ELSE IF retry THEN "fade" ELSE "gameover"
         /\ flag' = Published(retry)
         /\ sublevel' = (sublevel /\ ~retry)
  /\ UNCHANGED <<lives, outcome, checkpoint, frame, resolved, events, actions, charged, entered,
                 todo, request, paused, ending, midway, ledger, aborted>>

-----------------------------------------------------------------------------
(* The guest outside the level.                                            *)

(* The room loader (load_room_sprites) gives every actor the image of the  *)
(* entrance, whatever the actor was doing.                                 *)
LoadRoom(pose) ==
  /\ phase = "idle" /\ mode = "fade"
  /\ mode' = "level" /\ entered' = FALSE
  /\ animation' = [p \in Player |-> pose] /\ timer' = [p \in Player |-> 0]
  /\ ending' = FALSE
  /\ UNCHANGED <<vars, phase, sublevel, todo, request, paused, guest, ledger, aborted>>

(* Another course is chosen, with or without its checkpoint; after a game  *)
(* over the guest starts again with the lives of a new game.               *)
NewCourse(pose, reached) ==
  /\ phase = "idle" /\ mode \in {"map", "gameover"}
  /\ mode' = "level" /\ entered' = FALSE /\ sublevel' = FALSE
  /\ animation' = [p \in Player |-> pose] /\ timer' = [p \in Player |-> 0]
  /\ ending' = FALSE /\ midway' = FALSE /\ flag' = reached
  /\ counter' = IF mode = "gameover" THEN InitialLives - 1 ELSE counter
  /\ ledger' = IF mode = "gameover" THEN InitialLives ELSE ledger
  /\ UNCHANGED <<vars, phase, todo, request, paused, aborted>>

Routine(p) ==
  \/ \E pose \in {"free", "scene"} : Move(p, pose)
  \/ OneUp(p)
  \/ \E timeout \in BOOLEAN : Kill(p, timeout)
  \/ DeathTick(p)
  \/ RoomRequest(p)
  \/ TouchTape(p)
  \/ TouchGoal(p)

TeamNext ==
  \/ InitializeRoom
  \/ Begin
  \/ \E start \in BOOLEAN : Paused(start)
  \/ \E start, frozen \in BOOLEAN : Stage(start, frozen)
  \/ \E p \in Player : Routine(p)
  \/ RoutinesDone
  \/ LeaveCourse
  \/ \E scripted \in BOOLEAN : ReadBackLives(scripted)
  \/ ResolveFrame
  \/ ApplyClear
  \/ ChangeRoom
  \/ Proceed
  \/ \E outside \in SUBSET Active, leader \in Active \cup {NoPlayer}, resized \in BOOLEAN :
       SeparateFrame(outside, leader, resized)
  \/ \E returning \in SUBSET Waiting : \E anchor \in [returning -> Anchors(returning)] :
       RecoverFrame(anchor)
  \/ Close
  \/ \E pose \in {"free", "scene"} : LoadRoom(pose)
  \/ \E pose \in {"free", "scene"}, reached \in BOOLEAN : NewCourse(pose, reached)

TeamSpec == TeamInit /\ [][TeamNext]_teamVars

(* The host loop goes on running frames.                                   *)
FairTeamSpec == TeamSpec /\ WF_teamVars(TeamNext)

-----------------------------------------------------------------------------
(* What is to be shown.                                                    *)

Poised == {"free", "scene", "dying"}

TeamTypeOK ==
  /\ TypeOK
  /\ phase \in {"idle", "stage", "routines", "end", "resolve", "apply", "separate", "recover",
                "close"}
  /\ mode \in {"level", "fade", "gameover", "map"}
  /\ entered \in BOOLEAN /\ sublevel \in BOOLEAN
  /\ animation \in [Player -> Poised] /\ timer \in [Player -> 0..DeathTicks]
  /\ todo \subseteq Player /\ request \in Player \cup {NoPlayer}
  /\ paused \in BOOLEAN /\ ending \in BOOLEAN
  /\ counter \in 0..255 /\ midway \in BOOLEAN /\ flag \in BOOLEAN
  /\ ledger \in Nat /\ aborted \in BOOLEAN

(* The adapter never reports an event the session refuses: queue_event and *)
(* its like would end the program with Die().                              *)
NeverAborts == ~aborted

(* Between frames the guest's life counter holds what the team is entitled *)
(* to: one-ups earned, one life lost for each failed attempt, however many *)
(* players died in it and in however many frames.  It is a byte: no lives  *)
(* are 255, and the session does not read that back as 256 lives.          *)
GuestLivesMatch ==
  phase = "idle" =>
    /\ counter = (ledger + 255) % 256
    /\ TeamDeath /\ entered => lives = ledger
    /\ lives <= MaxLives

(* A clear puts everybody back in play, and no failed attempt ends in one. *)
ClearKeepsEveryone ==
  phase = "idle" /\ outcome = "CLEAR" => Active = Player /\ charged = 0

(* TeamKept: what the team has between two frames is what the guest and    *)
(* the session both believe.                                               *)
TeamKept ==
  TeamTypeOK /\ NeverAborts /\ GuestLivesMatch /\ ClearKeepsEveryone /\ SomeoneActive

(* A checkpoint the team has reached survives the retry.                   *)
CheckpointKept ==
  [][outcome = "RETRY" /\ outcome' = "CONTINUE" /\ checkpoint # 0 =>
       checkpoint' = checkpoint]_teamVars

(* AnimatedFailureReachesLoader: a failed team whose dying players are all *)
(* in their death animations reaches the loader or the game-over screen,   *)
(* whatever is frozen or paused meanwhile.                                 *)
AnimatedFailureReachesLoader ==
  (TeamDeath /\ entered /\ \A p \in Player : players[p].life = "DYING" => animation[p] = "dying")
    ~> mode # "level"

(* "finish the original death animations before entrance/checkpoint        *)
(* restart": a failed team reaches the loader or the game-over screen.     *)
FailureReachesLoader == TeamDeath /\ entered ~> mode # "level"
=============================================================================
