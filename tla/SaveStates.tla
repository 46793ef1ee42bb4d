----------------------------- MODULE SaveStates -----------------------------
(* The game's part of a save state (smw_cpu_infra.c): the emulated console *)
(* travels with the co-op machine (coop_runtime.c, coop_state.c) or with   *)
(* the foreign controller (foreign_controller.c, smw_falcon_plugin.c).     *)
(* Modelled are what a save writes, the checks a load makes and what they  *)
(* leave when one fails, the choice of a mode, a reset, and the next       *)
(* process with another package.  A part of the state is modelled by the   *)
(* frame it belongs to.  The framework around it is external: it refuses   *)
(* a state of another identity and may still refuse one after the          *)
(* preflight.                                                              *)
EXTENDS Naturals

CONSTANTS
  MaxFrame   \* frames played in a row

VARIABLES
  at,        \* where a load is: "idle", "checked", "read"
  guest,     \* the frame of the emulated console
  coop,      \* coop_runtime's mode
  machine,   \* its machine: the number of actors and their frame
  staged,    \* the machine a preflight has read, and what became of it
  foreign,   \* enabled, s_active, s_ownership
  fighter,   \* s_fighter's frame
  restored,  \* s_smw_foreign_chunk_loaded
  file       \* the state in the slot

vars == <<at, guest, coop, machine, staged, foreign, fighter, restored, file>>

None == [actors |-> 0, frame |-> 0]
Fresh == MaxFrame + 1                    \* a fighter just reset
NoFile == [magic |-> "none", ours |-> FALSE]

Active == coop.on /\ coop.count > 1                        \* SmwCoopActive
PersistenceReady == ~coop.on \/ (coop.count > 0 /\ ~coop.choosing)
Identity(c) == IF c.on /\ c.count > 1 THEN "coop" ELSE "plain"

(* A process runs plain, with the co-op mod, or with the fighter whose     *)
(* assets were found; main refuses both at once.                           *)
Packages == {"plain", "coop", "falcon"}

CoopAtBoot(package) == [on |-> package = "coop", count |-> 0,
                        choosing |-> FALSE, files |-> FALSE]

ForeignAtBoot(package) ==
  IF package = "falcon"
  THEN [enabled |-> TRUE, active |-> "falcon", own |-> "scripted"]
  ELSE [enabled |-> FALSE, active |-> "none", own |-> "native"]

Empty == [has |-> FALSE, body |-> None, consumed |-> FALSE]

Init ==
  /\ at = "idle" /\ guest = 0 /\ machine = None /\ fighter = Fresh
  /\ \E package \in Packages : /\ coop = CoopAtBoot(package)
                              /\ foreign = ForeignAtBoot(package)
  /\ staged = Empty /\ restored = FALSE /\ file = NoFile

(* The next process finds the states of the last.                          *)
Restart ==
  /\ at' = "idle" /\ guest' = 0 /\ machine' = None /\ fighter' = Fresh
  /\ \E package \in Packages : /\ coop' = CoopAtBoot(package)
                              /\ foreign' = ForeignAtBoot(package)
  /\ staged' = Empty /\ restored' = FALSE /\ UNCHANGED file

----------------------------------------------------------------------------
(* snes_foreign_select and the package's own callbacks.                    *)

Selected(f, id) == [f EXCEPT !.active = id]
FighterOf(id) == IF id = "falcon" THEN Fresh ELSE fighter  \* cf_reset

(* After a state is loaded: a fighter that was not restored with it is     *)
(* chosen anew, and owns nothing yet.                                      *)

smw_falcon_restore_selection ==
  IF ~foreign.enabled
  THEN /\ foreign' = [Selected(foreign, "none") EXCEPT !.own = "native"]
       /\ UNCHANGED fighter
  ELSE IF ~restored \/ foreign.active # "falcon"
  THEN /\ foreign' = [Selected(foreign, "falcon") EXCEPT !.own = "scripted"]
       /\ fighter' = FighterOf("falcon")
  ELSE UNCHANGED <<foreign, fighter>>

----------------------------------------------------------------------------
(* What happens between saves and loads.                                   *)

(* A frame; the fighter that owns the movement is ticked with the guest.   *)
Play ==
  /\ at = "idle" /\ guest < MaxFrame
  /\ guest' = guest + 1
  /\ machine' = IF Active THEN [machine EXCEPT !.frame = @ + 1] ELSE machine
  /\ fighter' = IF foreign.own = "foreign" THEN fighter + 1 ELSE fighter
  /\ UNCHANGED <<at, coop, staged, foreign, restored, file>>

(* The adapter gives the fighter the movement, seeded from the guest, or   *)
(* takes it away; it does so in a level only.                              *)
TakeOver ==
  /\ at = "idle" /\ foreign.active = "falcon" /\ foreign.own = "scripted"
  /\ ~coop.choosing
  /\ foreign' = [foreign EXCEPT !.own = "foreign"] /\ fighter' = guest
  /\ UNCHANGED <<at, guest, coop, machine, staged, restored, file>>

LetGo ==
  /\ at = "idle" /\ foreign.own = "foreign"
  /\ foreign' = [foreign EXCEPT !.own = "scripted"]
  /\ UNCHANGED <<at, guest, coop, machine, staged, fighter, restored, file>>

(* The file menu opens the choice of the number of players;                *)
(* choose_storage makes a new machine or leaves everything as it was.      *)
OpenChoice ==
  /\ at = "idle" /\ coop.on /\ ~coop.files /\ ~coop.choosing
  /\ coop' = [coop EXCEPT !.choosing = TRUE]
  /\ guest' = 0
  /\ machine' = [machine EXCEPT !.frame = 0]
  /\ foreign' = [foreign EXCEPT !.own = IF @ = "foreign" THEN "scripted" ELSE @]
  /\ UNCHANGED <<at, staged, fighter, restored, file>>

Machine(count) == IF count > 1 THEN [actors |-> count, frame |-> 0] ELSE None

Choose(count) ==
  /\ at = "idle" /\ coop.choosing
  /\ coop' = [coop EXCEPT !.count = count, !.choosing = FALSE, !.files = TRUE]
  /\ machine' = Machine(count) /\ guest' = 0
  /\ UNCHANGED <<at, staged, foreign, fighter, restored, file>>

(* RtlReset; SmwCoopResetSession starts the machine again (memory does not *)
(* run out here).                                                          *)
SmwCoopResetSession ==
  /\ at = "idle" /\ guest' = 0
  /\ coop' = IF coop.on THEN [coop EXCEPT !.files = FALSE, !.choosing = FALSE]
             ELSE coop
  /\ machine' = Machine(IF coop.on THEN coop.count ELSE 0)
  /\ foreign' = [foreign EXCEPT !.own = IF @ = "foreign" THEN "scripted" ELSE @]
  /\ UNCHANGED <<at, staged, fighter, restored, file>>

----------------------------------------------------------------------------
(* A save.  A co-op state carries the machine and its footer, any other    *)
(* the foreign controller, whose payload is the fighter.                   *)

snes_foreign_save ==
  [ok |-> TRUE, id |-> foreign.active, own |-> foreign.own,
   version |-> "ours", fighter |-> fighter]

Nothing == [ok |-> FALSE, id |-> "none", own |-> "native",
            version |-> "ours", fighter |-> 0]

Save ==
  /\ at = "idle" /\ PersistenceReady
  /\ file' = [magic   |-> IF Active THEN "SMC1" ELSE "SMX1",
              guard   |-> Identity(coop),
              guest   |-> guest,
              rtls    |-> "ours",
              intact  |-> TRUE,
              ours    |-> TRUE,
              machine |-> IF Active THEN machine ELSE None,
              chunk   |-> IF Active THEN Nothing ELSE snes_foreign_save]
  /\ UNCHANGED <<at, guest, coop, machine, staged, foreign, fighter, restored>>

(* States of other builds, and damaged ones.                               *)
Aged ==
  /\ at = "idle" /\ file.magic # "none" /\ file.ours
  /\ \E f \in { [file EXCEPT !.magic = "SMWS"],      \* renderer only
                [file EXCEPT !.magic = "SFW1"],      \* controller only
                [file EXCEPT !.rtls = "previous"],   \* RTLS v9
                [file EXCEPT !.rtls = "other"],
                [file EXCEPT !.intact = FALSE],      \* the machine's checksum
                [file EXCEPT !.machine.actors = 3],
                [file EXCEPT !.chunk.version = "other"],
                [file EXCEPT !.chunk.id = "unknown"],
                [file EXCEPT !.chunk.ok = FALSE] } :
       /\ (f.magic = "SMC1") = (f.guard = "coop")
       /\ file' = [f EXCEPT !.ours = FALSE]
  /\ UNCHANGED <<at, guest, coop, machine, staged, foreign, fighter, restored>>

----------------------------------------------------------------------------
(* A load: the preflight, the parts, and what follows.                     *)

(* coop_machine_load decodes into a candidate, and only a candidate that   *)
(* passes every check is staged: the schema and the layout of the console, *)
(* the checksum, and the number of actors.                                 *)
Decodes(f) ==
  /\ f.magic = "SMC1" /\ f.rtls \in {"ours", "previous"} /\ f.intact
  /\ f.machine.actors = coop.count

(* Mutant: the state's machine is read into the one that plays.            *)
PreflightInPlace(f) ==
  /\ staged' = IF Active /\ Decodes(f)
               THEN [has |-> TRUE, body |-> f.machine, consumed |-> FALSE]
               ELSE Empty
  /\ machine' = staged'.body

Preflight(f) ==
  /\ staged' = IF Active /\ Decodes(f)
               THEN [has |-> TRUE, body |-> f.machine, consumed |-> FALSE]
               ELSE Empty
  /\ UNCHANGED machine

SmwCoopSnapshotPreflight ==
  /\ at = "idle" /\ file.magic # "none"
  /\ file.guard = Identity(coop) /\ PersistenceReady
  /\ Preflight(file)
  /\ at' = IF Active /\ ~Decodes(file) THEN "idle" ELSE "checked"
  /\ UNCHANGED <<guest, coop, foreign, fighter, restored, file>>

(* The framework gives up after all: what was staged stays staged.         *)
LoadRefused ==
  /\ at = "checked" /\ at' = "idle"
  /\ UNCHANGED <<guest, coop, machine, staged, foreign, fighter, restored, file>>

(* The chunk is taken whole or not at all: the controller must be known    *)
(* and its payload of the version and the size it writes.                  *)
Acceptable(c) ==
  c.ok /\ (c.id = "none" \/ (c.id = "falcon" /\ c.version = "ours"))

ForeignLoad(c) ==
  /\ foreign' = IF Acceptable(c)
                THEN [foreign EXCEPT !.active = c.id, !.own = c.own]
                ELSE foreign
  /\ fighter' = IF Acceptable(c) /\ c.id = "falcon" THEN c.fighter ELSE fighter
  /\ restored' = Acceptable(c)

(* The console is loaded, then the parts the first word announces.         *)
SmwStateLoadExtra ==
  /\ at = "checked" /\ at' = "read"
  /\ guest' = file.guest
  /\ IF file.magic \in {"SMX1", "SFW1"}
     THEN ForeignLoad(file.chunk) /\ UNCHANGED staged
     ELSE /\ restored' = FALSE /\ UNCHANGED <<foreign, fighter>>
          /\ staged' = IF file.magic = "SMC1" /\ Active /\ staged.has
                       THEN [staged EXCEPT !.consumed = TRUE] ELSE staged
  /\ UNCHANGED <<coop, machine, file>>

SmwOnStateLoaded ==
  /\ at = "read" /\ at' = "idle"
  /\ smw_falcon_restore_selection
  /\ restored' = FALSE
  /\ IF Active /\ staged.consumed
     THEN /\ machine' = staged.body
          /\ coop' = [coop EXCEPT !.choosing = FALSE, !.files = TRUE]
     ELSE UNCHANGED <<machine, coop>>
  /\ staged' = Empty
  /\ UNCHANGED <<guest, file>>

Next ==
  \/ Restart \/ Play \/ TakeOver \/ LetGo
  \/ OpenChoice \/ (\E count \in {1, 2} : Choose(count))
  \/ SmwCoopResetSession \/ Save \/ Aged
  \/ SmwCoopSnapshotPreflight \/ LoadRefused \/ SmwStateLoadExtra
  \/ SmwOnStateLoaded

Spec == Init /\ [][Next]_vars

----------------------------------------------------------------------------
(* A co-op session is one thing: whatever was saved, damaged, refused or   *)
(* loaded, its machine and the emulated console are of the same frame, and *)
(* the machine has the actors that were chosen (SmwCoopSnapshotPreflight,  *)
(* SmwCoopLoadExtra, SmwCoopStateLoaded).                                  *)
MachineOfGuest ==
  at = "idle" /\ Active => machine = [actors |-> coop.count, frame |-> guest]

(* A fighter that owns the player's movement is of the frame the guest is  *)
(* at; after a load whose chunk was absent or refused it owns nothing, and *)
(* without the package there is none (snes_foreign_load,                   *)
(* smw_falcon_restore_selection).                                          *)
OwnerOfGuest ==
  at = "idle" =>
    /\ foreign.own = "foreign" => foreign.active = "falcon" /\ fighter = guest
    /\ ~foreign.enabled => foreign.active = "none" /\ foreign.own = "native"

(* A loaded state is one state, in the co-op mode as with the fighter.     *)
StateIsWhole == MachineOfGuest /\ OwnerOfGuest
=============================================================================
