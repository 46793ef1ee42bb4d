----------------------------- MODULE FalconShow -----------------------------
(* What is drawn for the player (smw_falcon_presentation_runtime.c): the   *)
(* mod's mesh is loaded from the owner's cache, the native player's twelve *)
(* objects are taken out of a frame before it is rastered, and the mesh is *)
(* put into it afterwards.  The native game, which drives deaths, pipes,   *)
(* goals and power-ups, and the adapter, which says who owns the movement, *)
(* are external and change anything between two frames; the PPU and the    *)
(* compositor may refuse any call.  Pixels, joints, the pose's frame and   *)
(* what is only traced are left out; a fall lasts FallFrames pictures.     *)
EXTENDS Naturals

CONSTANTS
  FallFrames   \* drawn frames until the falling body has left the screen

VARIABLES
  at,       \* "boot", "frame", "raster" or "shown"
  cache,    \* s_presentation: "none" or "loaded"
  audio,    \* s_audio_pending, s_audio_attempted: "none", "pending", "tried"
  game,     \* the native game's mode, animation, pipe, goal and water
  own,      \* who owns the movement
  bound,    \* s_bound: the scratch surface is bound
  removed,  \* the player's objects are taken out of this frame
  mesh,     \* what was drawn over it: "none" or a pose
  last,     \* s_last_pose
  death,    \* s_death_latched, s_death_hidden, s_death_frame
  ghost     \* history: what refused in this frame, and the pictures of a
            \* falling body since the last one in control

vars == <<at, cache, audio, game, own, bound, removed, mesh, last, death, ghost>>

Alive == [latched |-> FALSE, hidden |-> FALSE, frame |-> 0]
Poses == {"idle", "walk", "fall", "attack"}

Games ==
  {g \in [mode  : {"level", "result", "map"},
          anim  : {"play", "power", "dead"},
          pipe  : {"no", "handoff", "timer"},
          goal  : BOOLEAN,
          water : BOOLEAN] :
     g.mode # "level" => g.anim = "play" /\ g.pipe = "no" /\ ~g.goal /\ ~g.water}

Init ==
  /\ at = "boot" /\ cache = "none" /\ audio = "none"
  /\ game = [mode |-> "map", anim |-> "play", pipe |-> "no", goal |-> FALSE,
             water |-> FALSE]
  /\ own = "native" /\ bound = FALSE /\ removed = FALSE /\ mesh = "none" /\ last = "idle"
  /\ death = Alive /\ ghost = [refused |-> {}, fall |-> 0]

----------------------------------------------------------------------------
(* Activation: a cache that is named and approved, with the pinned blob,   *)
(* gives the mesh; its sound only if every cue is pinned too.  Without the *)
(* mesh the fighter is not chosen.  The sound is registered once the       *)
(* mixer's mutex is there, and tried once.                                 *)

Caches == {"unnamed", "unapproved", "blob altered", "blob malformed",
           "cue altered", "good"}

smw_falcon_presentation_activate ==
  /\ at = "boot" /\ at' = "mixer"
  /\ \E c \in Caches :
       /\ cache' = IF c \in {"cue altered", "good"} THEN "loaded" ELSE "none"
       /\ audio' = IF c = "good" THEN "pending" ELSE "none"
       /\ own' = IF cache' = "loaded" THEN "scripted" ELSE "native"
  /\ UNCHANGED <<game, bound, removed, mesh, last, death, ghost>>

smw_falcon_presentation_audio_ready ==
  /\ at = "mixer" /\ at' = "shown"
  /\ audio' = IF audio = "pending" THEN "tried" ELSE audio
  /\ UNCHANGED <<cache, game, own, bound, removed, mesh, last, death, ghost>>

----------------------------------------------------------------------------
(* The gates, each of them about a mesh that is there.                     *)

Level == cache = "loaded" /\ game.mode = "level"

controllable == Level /\ own = "foreign" /\ game.anim = "play"
                      /\ game.pipe # "handoff" /\ ~game.goal

death_active            == Level /\ game.anim = "dead"
powerup_animation_active == Level /\ game.anim = "power"
course_clear_active ==
  cache = "loaded" /\ ((Level /\ game.anim = "play" /\ game.goal)
                       \/ game.mode = "result")
scripted_pipe_active == Level /\ game.pipe # "no" /\ ~game.goal
scripted_water_active ==
  Level /\ game.anim = "play" /\ game.water /\ game.pipe # "handoff" /\ ~game.goal

presentation_active ==
  controllable \/ death_active \/ course_clear_active
  \/ powerup_animation_active \/ scripted_water_active \/ scripted_pipe_active

----------------------------------------------------------------------------
(* A frame of the game, and then its picture.                              *)

Frame ==
  /\ at = "shown" /\ at' = "frame"
  /\ game' \in Games
  /\ own' \in IF cache = "loaded" THEN {"foreign", "scripted"} ELSE {"native"}
  /\ removed' = FALSE /\ mesh' = "none" /\ ghost' = [ghost EXCEPT !.refused = {}]
  /\ UNCHANGED <<cache, audio, bound, last, death>>

(* The captures are cleared in every frame and asked for again while there *)
(* is something to present; a surface that is bound stays bound.  A        *)
(* refusal leaves the native player where he is, or, of the range of       *)
(* objects alone, what the framework makes of a capture without one.       *)
Suppressed ==
  /\ bound' = TRUE /\ removed' = TRUE /\ UNCHANGED ghost

Unsuppressed ==
  /\ \/ ~bound /\ bound' = FALSE /\ removed' = FALSE
     \/ bound' = TRUE /\ removed' \in BOOLEAN
  /\ ghost' = [ghost EXCEPT !.refused = @ \cup {"capture"}]

smw_falcon_presentation_prepare_ppu ==
  /\ at = "frame" /\ at' = "raster"
  /\ IF presentation_active THEN Suppressed \/ Unsuppressed
     ELSE removed' = FALSE /\ UNCHANGED <<bound, ghost>>
  /\ UNCHANGED <<cache, audio, game, own, mesh, last, death>>

(* A frame in turbo is rastered and not shown.                             *)
NotPresented ==
  /\ at = "raster" /\ at' = "shown" /\ mesh' = "none" /\ removed' = FALSE
  /\ UNCHANGED <<cache, audio, game, own, bound, last, death, ghost>>

(* The pose, by what drives the player; it is remembered unless it was     *)
(* remembered already.                                                     *)
FighterPoses(state) == IF state THEN Poses ELSE {last}

PosesNow(state) ==
  IF course_clear_active THEN {"walk"}
  ELSE IF powerup_animation_active THEN {"idle"}
  ELSE IF (scripted_water_active \/ scripted_pipe_active) /\ ~controllable
  THEN {last}
  ELSE FighterPoses(state)

(* The fall begins with the first picture of a death, goes on with every   *)
(* one, and is over, or hidden, until the player is in control again.      *)
Begun == IF death.latched THEN death
         ELSE [latched |-> TRUE, hidden |-> FALSE, frame |-> 0]

Fallen == [Begun EXCEPT !.hidden = @ \/ Begun.frame >= FallFrames,
                        !.frame = IF @ < FallFrames THEN @ + 1 ELSE @]

(* Mutant: the fall is over with the first picture that is not of a death. *)
OverInScript == Alive

Over == IF controllable THEN Alive ELSE death

Shown(d, pose) == IF death_active THEN (IF d.hidden THEN "none" ELSE "fall") ELSE pose

(* The pictures of a fall, those that the compositor refused among them.   *)
FallAfter ==
  IF death_active THEN (IF death'.hidden THEN ghost.fall ELSE ghost.fall + 1)
  ELSE IF controllable THEN 0 ELSE ghost.fall

(* Without a fighter's state only a death is drawn.                        *)
PresentNothing ==
  /\ mesh' = "none" /\ UNCHANGED <<last, death>>
  /\ ghost' = IF presentation_active THEN [ghost EXCEPT !.refused = @ \cup {"state"}] ELSE ghost

Present(pose) ==
  /\ last' = pose
  /\ death' = IF death_active THEN Fallen ELSE Over
  /\ \E accepted \in BOOLEAN :
       /\ mesh' = IF accepted THEN Shown(death', pose) ELSE "none"
       /\ ghost' = [refused |-> IF accepted THEN ghost.refused ELSE ghost.refused \cup {"mesh"},
                    fall |-> FallAfter]

smw_falcon_presentation_present ==
  /\ at = "raster" /\ at' = "shown"
  /\ \E state \in BOOLEAN :
       IF presentation_active /\ (state \/ death_active)
       THEN \E pose \in PosesNow(state) : Present(pose)
       ELSE PresentNothing
  /\ UNCHANGED <<cache, audio, game, own, bound, removed>>

Next ==
  \/ smw_falcon_presentation_activate \/ smw_falcon_presentation_audio_ready
  \/ Frame \/ smw_falcon_presentation_prepare_ppu \/ NotPresented
  \/ smw_falcon_presentation_present

Spec == Init /\ [][Next]_vars

----------------------------------------------------------------------------
(* "It hides after leaving the viewport and resets only on genuine         *)
(* ordinary Falcon control": over any scripts, levels and further deaths   *)
(* between two pictures in control the body falls once, and is hidden only *)
(* when it has fallen all the way.                                         *)
FallsOnce == ghost.fall <= FallFrames /\ (death.hidden => ghost.fall = FallFrames)

(* A picture with both players follows a refusal of the PPU in its own     *)
(* frame, and one with neither a refusal of its own or a hidden body.      *)
RefusalsAccount ==
  at = "shown" =>
    /\ mesh # "none" => (removed \/ "capture" \in ghost.refused)
    /\ removed /\ mesh = "none" =>
         \/ death_active /\ death.hidden
         \/ ghost.refused \cap {"state", "mesh"} # {}

(* PicturesAccounted: who is seen in a picture follows from the frame's    *)
(* refusals and the fall (smw_falcon_presentation_prepare_ppu, _present).  *)
PicturesAccounted == FallsOnce /\ RefusalsAccount
=============================================================================
