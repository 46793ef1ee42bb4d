----------------------------- MODULE CoopFrame -----------------------------
(***************************************************************************)
(* What happens to a team in a frame: the session, the loops that resolve  *)
(* a frame's reports (CoopResolve), and the contacts that become reports   *)
(* (CoopContacts).  A behaviour runs one of the three.                     *)
(***************************************************************************)
EXTENDS CoopSession

CONSTANTS
  Reportable,   \* what CoopResolve's frames may report
  Beginning,    \* the players' records those frames may begin with
  Actors,       \* how many share CoopContacts' sprite
  FirstActor,   \* the primary among them
  MaxDistance, MaxId

ASSUME ActorsAssumption == Actors \in Nat

VARIABLES
  part,
  r_pc, r_i, r_list, r_start, r_players, r_lives, r_checkpoint, r_outcome,
  r_actions, r_exit, r_timeout, r_stars, r_switched, r_checked,
  c_playing, c_sprite, c_owner, c_held, c_damaged, c_stage, c_asked,
  c_contacts, c_winner, c_due, c_hurt, c_bounced, c_awards, c_hits,
  c_visited, c_aborted

loops ==
  <<r_pc, r_i, r_list, r_start, r_players, r_lives, r_checkpoint, r_outcome,
    r_actions, r_exit, r_timeout, r_stars, r_switched, r_checked>>
contact ==
  <<c_playing, c_sprite, c_owner, c_held, c_damaged, c_stage, c_asked,
    c_contacts, c_winner, c_due, c_hurt, c_bounced, c_awards, c_hits,
    c_visited, c_aborted>>

Loops == INSTANCE CoopResolve WITH
  Event <- Reportable, Equipment <- {}, Unpluggable <- {}, MaxEvents <- 3,
  Start <- Beginning,
  pc <- r_pc, i <- r_i, list <- r_list, start <- r_start,
  players <- r_players, lives <- r_lives, checkpoint <- r_checkpoint,
  outcome <- r_outcome, actions <- r_actions, exit <- r_exit,
  timeout <- r_timeout, stars <- r_stars, switched <- r_switched,
  checked <- r_checked

Contact == INSTANCE CoopContacts WITH
  PlayerCount <- Actors, Primary <- FirstActor, NoPlayer <- 0,
  playing <- c_playing, sprite <- c_sprite, owner <- c_owner, held <- c_held,
  damaged <- c_damaged, stage <- c_stage, asked <- c_asked,
  contacts <- c_contacts, winner <- c_winner, due <- c_due, hurt <- c_hurt,
  bounced <- c_bounced, awards <- c_awards, hits <- c_hits,
  visited <- c_visited, aborted <- c_aborted

-----------------------------------------------------------------------------
(* A part that does not run stays in one of its initial states.            *)
BenchInit ==
  /\ part \in {"session", "loops", "contacts"}
  /\ Init /\ Loops!Init /\ Contact!Init
  /\ part # "loops" => r_start = CHOOSE s \in Beginning : TRUE
  /\ part # "contacts" => c_sprite.kind = "plain"

(* The loops end with their frame, and contacts may end the program.       *)
BenchNext ==
  /\ part' = part
  /\ \/ part = "session"  /\ Next         /\ UNCHANGED <<loops, contact>>
     \/ part = "loops"    /\ Loops!Next   /\ UNCHANGED <<vars, contact>>
     \/ part = "contacts" /\ Contact!Next /\ UNCHANGED <<vars, loops>>
     \/ part = "loops" /\ r_pc = "done"   /\ UNCHANGED <<vars, loops, contact>>
     \/ part = "contacts" /\ c_aborted    /\ UNCHANGED <<vars, loops, contact>>

BenchSpec == BenchInit /\ [][BenchNext]_<<part, vars, loops, contact>>

(* CoopResolve: the loops compute what CoopSession says of the frame.      *)
LoopComputesResolve == part = "loops" => Loops!LoopComputesResolve

(* CoopContacts: one winner, everyone served, one carrier, and one way for *)
(* the program to end.                                                     *)
ContactsArbitrated == part = "contacts" => Contact!ContactsArbitrated
=============================================================================
