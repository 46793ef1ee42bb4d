------------------------------ MODULE CoopInput ------------------------------
(***************************************************************************)
(* What one player's buttons do: coop_player_input (coop_session.c), the   *)
(* controller check of SmwCoopHostFrame (coop_runtime.c) and the changes   *)
(* of life that a frame makes between two samples of the pad.              *)
(*                                                                         *)
(* A frame is HostFrame, then Begin (SmwCoopSimulationBegin samples the    *)
(* pad), then End (the session resolves, separates and recovers).  With a  *)
(* controller missing the host does not run the guest's frame.             *)
(***************************************************************************)
EXTENDS Integers

CONSTANTS
  Button,          \* the pad's buttons
  ActionButton,    \* action_mask: A, B, X, Y, Select
  TicksPerSecond

ASSUME InputAssumption ==
  /\ ActionButton \subseteq Button
  /\ TicksPerSecond \in 2..1000

VARIABLES
  phase,        \* the next part of the frame
  life,         \* "PLAYING", "DYING" or "BUBBLE" (either bubble)
  recovery,     \* recovery_ticks
  connected,
  held, pressed, latch,  \* held_input, pressed_input, action_latch
  seen,         \* the last sample of the pad
  stale,        \* history: action buttons down when the player returned, or
                \* since the controller came or went, and not seen up since
  steady        \* history: in play and connected since the last sample

input   == <<held, pressed, latch>>
history == <<seen, stale, steady>>
vars    == <<phase, life, recovery, connected, input, history>>

TypeOK ==
  /\ phase \in {"host", "begin", "end", "recover"}
  /\ life \in {"PLAYING", "DYING", "BUBBLE"}
  /\ recovery \in Nat
  /\ connected \in BOOLEAN /\ steady \in BOOLEAN
  /\ held \subseteq Button /\ pressed \subseteq Button /\ latch \subseteq Button
  /\ seen \subseteq Button /\ stale \subseteq ActionButton

Init ==
  /\ phase = "host" /\ life = "PLAYING" /\ recovery = 0 /\ connected = TRUE
  /\ held = {} /\ pressed = {} /\ latch = {}
  /\ seen = {} /\ stale = {} /\ steady = FALSE

(* Faulty: a controller that returns finds the latch as it was.            *)
HostFrameKeepsLatch(plugged) ==
  /\ phase = "host"
  /\ connected' = plugged
  /\ phase' = IF plugged THEN "begin" ELSE "host"
  /\ IF plugged = connected THEN UNCHANGED <<input, stale, steady>>
     ELSE /\ held' = {} /\ pressed' = {} /\ latch' = latch
          /\ stale' = ActionButton /\ steady' = FALSE
  /\ UNCHANGED <<life, recovery, seen>>

HostFrame(plugged) ==
  /\ phase = "host"
  /\ connected' = plugged
  /\ phase' = IF plugged THEN "begin" ELSE "host"
  /\ IF plugged = connected THEN UNCHANGED <<input, stale, steady>>
     ELSE /\ held' = {} /\ pressed' = {} /\ latch' = Button
          /\ stale' = ActionButton /\ steady' = FALSE
  /\ UNCHANGED <<life, recovery, seen>>

(* initialize_room, before the sample, when the attempt had ended: a       *)
(* restart also forgets the buttons just pressed, a clear does not.        *)
InitializeRoom(restart) ==
  /\ phase = "begin"
  /\ life' = "PLAYING" /\ recovery' = 0
  /\ pressed' = IF restart THEN {} ELSE pressed
  /\ UNCHANGED <<phase, connected, held, latch, history>>

Kept(down) == latch \cap down

Effective(down, kept) == down \ (kept \cap ActionButton)

(* coop_player_input with `down` on the pad.                               *)
Begin(down) ==
  LET kept == Kept(down)
      out  == life # "PLAYING"
      new  == Effective(down, kept) \ held
  IN  /\ phase = "begin"
      /\ phase' = "end"
      /\ held' = Effective(down, kept)
      /\ pressed' = IF out THEN new \ ActionButton ELSE new
      /\ latch' = IF out THEN kept \cup (down \cap ActionButton) ELSE kept
      /\ seen' = down
      /\ stale' = IF out THEN down \cap ActionButton ELSE stale \cap down
      /\ steady' = ~out
      /\ UNCHANGED <<life, recovery, connected>>

(* The frame's end: the clocks run if the frame advances, then a death or  *)
(* a separation, then recovery.                                            *)
Clock == IF recovery > 0 THEN recovery - 1 ELSE recovery

Frozen ==
  /\ phase = "end" /\ phase' = "host"
  /\ UNCHANGED <<life, recovery, connected, input, history>>

Settle(to, ticks) ==
  /\ phase = "end" /\ phase' = "recover"
  /\ life' = to /\ recovery' = ticks
  /\ steady' = (steady /\ to = "PLAYING")
  /\ UNCHANGED <<connected, input, seen, stale>>

Stay          == Settle(life, Clock)
Death         == life = "PLAYING" /\ Settle("DYING", Clock)
DeathFinished == life = "DYING" /\ Settle("BUBBLE", 3 * TicksPerSecond)
CatchUp       == life = "PLAYING" /\ Settle("BUBBLE", TicksPerSecond \div 2)

(* coop_session_recover: a waiting player returns if there is a safe place.*)
Recover ==
  /\ phase = "recover" /\ phase' = "host"
  /\ life = "BUBBLE" /\ recovery = 0
  /\ life' = "PLAYING"
  /\ pressed' = {}
  /\ stale' = seen \cap ActionButton
  /\ UNCHANGED <<recovery, connected, held, latch, seen, steady>>

Wait ==
  /\ phase = "recover" /\ phase' = "host"
  /\ UNCHANGED <<life, recovery, connected, input, history>>

Next ==
  \/ \E plugged \in BOOLEAN : HostFrame(plugged)
  \/ \E restart \in BOOLEAN : InitializeRoom(restart)
  \/ \E down \in SUBSET Button : Begin(down)
  \/ Frozen \/ Stay \/ Death \/ DeathFinished \/ CatchUp
  \/ Recover \/ Wait

Spec == Init /\ [][Next]_vars

-----------------------------------------------------------------------------
(* What the latch covers: the stale buttons, and, in a frame that may bring*)
(* the player back, every action button that is down.                      *)
LatchCovers ==
  /\ stale \subseteq latch
  /\ \/ phase = "end" /\ life # "PLAYING"
     \/ phase = "recover" /\ life = "BUBBLE" /\ recovery = 0
     => seen \cap ActionButton \subseteq latch
  /\ steady => latch \cup held \subseteq seen

(* "Held movement applies immediately; jump, fire, grab, and reserve       *)
(* release require fresh presses": in play, an action button acts only if  *)
(* it was seen up since the player returned or the controller was missing. *)
FreshPresses ==
  [][phase = "begin" /\ phase' = "end" /\ life = "PLAYING" => held' \cap stale' = {}]_vars

(* "Inputs must not remain latched through reassignment": a button seen up *)
(* by a player in play is heard the moment it goes down again.             *)
NoPressIsLost ==
  [][phase = "begin" /\ phase' = "end" /\ life = "PLAYING" /\ steady =>
       seen' \ seen \subseteq pressed']_vars

(* Both: in play a button acts when it is pressed anew, and only then.     *)
ActsWhenPressed ==
  [][phase = "begin" /\ phase' = "end" /\ life = "PLAYING" =>
       /\ held' \cap stale' = {}
       /\ steady => seen' \ seen \subseteq pressed']_vars
=============================================================================
