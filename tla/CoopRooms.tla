----------------------------- MODULE CoopRooms -----------------------------
(* The adapter in its two views, the team's frames and course (CoopTeam)   *)
(* and its sprites (CoopEntities): `travel` has rooms that are left and    *)
(* entered with mounts, on the way to a castle too, `tied` an object that  *)
(* is tied to its owner, `cap` more slots, in which more Yoshis could come *)
(* than there are players.  A behaviour runs one of these; what the others *)
(* need is off.  The rooms are instances of CoopEntitiesProofs, which is   *)
(* CoopEntities with what is proved of it, so that it can be cited of them. *)
EXTENDS CoopTeam

CONSTANTS
  RoomSlots, CapSlots,            \* slots of a room, and of the one in `cap`
  TravelIds, TiedIds, CapIds      \* bounds: identities given out in each

VARIABLES
  view,
  e_machine, e_sprite, e_riding, e_life, e_outcome, e_allowed, e_room,
  e_phase, e_granted, e_aborted

entityVars == <<e_machine, e_sprite, e_riding, e_life, e_outcome, e_allowed,
  e_room, e_phase, e_granted, e_aborted>>

Travel == INSTANCE CoopEntitiesProofs WITH
  PlayerCount <- PlayerCount, Primary <- Primary + 1, SlotCount <- RoomSlots,
  Things <- {}, Castle <- TRUE, MaxId <- TravelIds,
  machine <- e_machine, sprite <- e_sprite, riding <- e_riding, life <- e_life,
  outcome <- e_outcome, allowed <- e_allowed, room <- e_room, phase <- e_phase,
  granted <- e_granted, aborted <- e_aborted

Tied == INSTANCE CoopEntitiesProofs WITH
  PlayerCount <- PlayerCount, Primary <- Primary + 1, SlotCount <- RoomSlots,
  Things <- {"balloon"}, Castle <- FALSE, MaxId <- TiedIds,
  machine <- e_machine, sprite <- e_sprite, riding <- e_riding, life <- e_life,
  outcome <- e_outcome, allowed <- e_allowed, room <- e_room, phase <- e_phase,
  granted <- e_granted, aborted <- e_aborted

Cap == INSTANCE CoopEntitiesProofs WITH
  PlayerCount <- PlayerCount, Primary <- Primary + 1, SlotCount <- CapSlots,
  Things <- {}, Castle <- FALSE, MaxId <- CapIds,
  machine <- e_machine, sprite <- e_sprite, riding <- e_riding, life <- e_life,
  outcome <- e_outcome, allowed <- e_allowed, room <- e_room, phase <- e_phase,
  granted <- e_granted, aborted <- e_aborted

(* A room has a slot for every player's mount.                             *)
ASSUME RoomsAssumption ==
  Travel!RoomAssumption /\ Tied!RoomAssumption /\ Cap!RoomAssumption

-----------------------------------------------------------------------------
Away == "off"

RoomInit ==
  /\ TeamInit
  /\ \/ view = "travel" /\ Travel!Init
     \/ view = "tied" /\ Tied!Init
     \/ view = "cap" /\ Cap!Init
     \/ /\ view = "team"
        /\ e_machine = Away /\ e_sprite = Away /\ e_riding = Away /\ e_life = Away
        /\ e_outcome = Away /\ e_allowed = Away /\ e_room = Away /\ e_phase = Away
        /\ e_granted = Away /\ e_aborted = Away

TeamRuns == view = "team" /\ TeamNext /\ UNCHANGED <<view, entityVars>>

(* The identities a room may give out are bounded, so that it may stop.    *)
RoomNext ==
  \/ TeamRuns
  \/ view = "travel" /\ Travel!Next /\ UNCHANGED <<view, teamVars>>
  \/ view = "tied" /\ Tied!Next /\ UNCHANGED <<view, teamVars>>
  \/ view = "cap" /\ Cap!Next /\ UNCHANGED <<view, teamVars>>
  \/ view # "team" /\ UNCHANGED <<view, teamVars, entityVars>>

(* The host loop goes on running frames.                                   *)
RoomSpec ==
  /\ RoomInit /\ [][RoomNext]_<<view, teamVars, entityVars>>
  /\ WF_teamVars(TeamRuns)

-----------------------------------------------------------------------------
(* CoopEntities: whatever was spawned, claimed, dropped, killed or carried *)
(* along, its machine can be saved, and no Die() is reached.               *)
EntitiesKept ==
  /\ view = "travel" => Travel!EntitiesKept
  /\ view = "tied"   => Tied!EntitiesKept
  /\ view = "cap"    => Cap!EntitiesKept

(* CoopEntities: there are never more mounts than players.                 *)
YoshisBounded ==
  /\ view = "travel" => Travel!YoshisBounded
  /\ view = "cap"    => Cap!YoshisBounded

(* CoopEntities: who rode, or held something, still does in the next room. *)
IdentitiesSurviveRooms == Travel!IdentitiesSurviveRooms
=============================================================================
